----------------------------- MODULE WebsiteProofs -----------------------------
(***************************************************************************)
(* Proofs about Website, for any values of the environment and any number  *)
(* of clients, outages and idle connections.                               *)
(*                                                                         *)
(* The first half is about lib/pq's reading of a connection string, atom   *)
(* by atom (ReadAll): what it has read of a text does not depend on what   *)
(* comes after, so the string is read an option at a time, and after each  *)
(* option the reader is where it can go wrong in one way only (Good).  The *)
(* second half is about the pool: a connection that is dead in it, or held *)
(* by a request, is one less that the request can still meet.              *)
(***************************************************************************)
EXTENDS Website, SequenceTheorems, WellFoundedInduction, TLAPS

(* Induction over the natural numbers, with a set in place of a formula.   *)
LEMMA NatWellFounded == IsWellFoundedOn({ss \in Nat \X Nat : ss[1] < ss[2]}, Nat)
BY NatLessThanWellFounded DEF OpToRel

LEMMA Least ==
    ASSUME NEW T, T \subseteq Nat, T # {}
    PROVE  \E x \in T : \A y \in T : x <= y
<1> DEFINE R == {ss \in Nat \X Nat : ss[1] < ss[2]}
<1>1. PICK x \in T : \A y \in T : ~(<<y, x>> \in R)
    <2>1. IsWellFoundedOn(R, Nat)
        BY NatWellFounded
    <2> HIDE DEF R
    <2> QED BY <2>1, WFMin
<1>2. ASSUME NEW y \in T PROVE x <= y
    <2>1. ~(<<y, x>> \in R) /\ x \in Nat /\ y \in Nat
        BY <1>1
    <2>2. ~(y < x)
        BY <2>1
    <2> QED BY <2>1, <2>2
<1> QED BY <1>1, <1>2

LEMMA Induction ==
    ASSUME NEW T, 0 \in T, \A n \in Nat : n \in T => n + 1 \in T
    PROVE  Nat \subseteq T
<1> SUFFICES ASSUME Nat \ T # {} PROVE FALSE
    OBVIOUS
<1>1. PICK x \in Nat \ T : \A y \in Nat \ T : x <= y
    <2> DEFINE U == Nat \ T
    <2>1. U \subseteq Nat /\ U # {}
        OBVIOUS
    <2> HIDE DEF U
    <2>2. \E x \in U : \A y \in U : x <= y
        BY <2>1, Least
    <2> QED BY <2>2 DEF U
<1>2. x # 0
    BY <1>1
<1>3. x - 1 \in Nat /\ x - 1 \notin Nat \ T
    BY <1>1, <1>2
<1>4. x - 1 + 1 \in T
    BY <1>3
<1> QED BY <1>1, <1>4

-----------------------------------------------------------------------------
(* Reading a text.                                                         *)

(* f holds where the reader is after each of the first n atoms.            *)
IsRun(f, p, text, n) ==
    f = [i \in 0..n |-> IF i = 0 THEN p ELSE Read(f[i - 1], text[i])]

LEMMA StepsRun ==
    ASSUME NEW f, NEW p, NEW text, NEW n \in Nat,
           f = [i \in 0..n |-> f[i]], f[0] = p, \A i \in 1..n : f[i] = Read(f[i - 1], text[i])
    PROVE  IsRun(f, p, text, n)
<1>1. \A i \in 0..n : f[i] = IF i = 0 THEN p ELSE Read(f[i - 1], text[i])
    <2> SUFFICES ASSUME NEW i \in 0..n PROVE f[i] = IF i = 0 THEN p ELSE Read(f[i - 1], text[i])
        OBVIOUS
    <2>1. i = 0 \/ i \in 1..n
        OBVIOUS
    <2> QED BY <2>1
<1> QED BY <1>1 DEF IsRun

LEMMA RunSteps ==
    ASSUME NEW f, NEW p, NEW text, NEW n \in Nat, IsRun(f, p, text, n)
    PROVE  /\ f = [i \in 0..n |-> f[i]]
           /\ f[0] = p /\ \A i \in 1..n : f[i] = Read(f[i - 1], text[i])
<1>1. f[0] = p
    BY DEF IsRun
<1>2. \A i \in 1..n : i \in 0..n /\ i # 0
    OBVIOUS
<1>3. \A i \in 1..n : f[i] = Read(f[i - 1], text[i])
    BY <1>2 DEF IsRun
<1>4. f = [i \in 0..n |-> f[i]]
    BY DEF IsRun
<1> QED BY <1>1, <1>3, <1>4

LEMMA RunUnique ==
    ASSUME NEW f, NEW g, NEW p, NEW text, NEW n \in Nat, IsRun(f, p, text, n), IsRun(g, p, text, n)
    PROVE  f[n] = g[n]
<1> DEFINE T == {i \in Nat : i <= n => f[i] = g[i]}
<1>1. f[0] = p /\ g[0] = p /\ \A i \in 1..n : f[i] = Read(f[i - 1], text[i]) /\ g[i] = Read(g[i - 1], text[i])
    BY RunSteps
<1>2. 0 \in T
    BY <1>1
<1>3. ASSUME NEW i \in Nat, i \in T PROVE i + 1 \in T
    <2> SUFFICES ASSUME i + 1 <= n PROVE f[i + 1] = g[i + 1]
        OBVIOUS
    <2>1. i + 1 \in 1..n /\ (i + 1) - 1 = i /\ i <= n
        OBVIOUS
    <2> QED BY <1>1, <1>3, <2>1
<1>4. Nat \subseteq T
    <2> HIDE DEF T
    <2> QED BY <1>2, <1>3, Induction
<1> QED BY <1>4

LEMMA RunExists ==
    ASSUME NEW p, NEW text, NEW n \in Nat
    PROVE  \E f : IsRun(f, p, text, n)
<1> DEFINE T == {i \in Nat : \E f : IsRun(f, p, text, i)}
<1>1. 0 \in T
    <2> DEFINE f == [i \in 0..0 |-> p]
    <2>1. f = [i \in 0..0 |-> f[i]] /\ f[0] = p /\ \A i \in 1..0 : f[i] = Read(f[i - 1], text[i])
        OBVIOUS
    <2> HIDE DEF f
    <2>2. IsRun(f, p, text, 0)
        BY <2>1, StepsRun
    <2> QED BY <2>2
<1>2. ASSUME NEW i \in Nat, i \in T PROVE i + 1 \in T
    <2>1. PICK f : IsRun(f, p, text, i)
        BY <1>2
    <2> DEFINE g == [j \in 0..i + 1 |-> IF j <= i THEN f[j] ELSE Read(f[i], text[i + 1])]
    <2>2. f[0] = p /\ \A j \in 1..i : f[j] = Read(f[j - 1], text[j])
        BY <2>1, RunSteps
    <2>3. g = [j \in 0..i + 1 |-> g[j]] /\ g[0] = p
        BY <2>2
    <2>4. ASSUME NEW j \in 1..i + 1 PROVE g[j] = Read(g[j - 1], text[j])
        <3>1. j \in 0..i + 1 /\ j - 1 \in 0..i + 1 /\ j - 1 <= i
            OBVIOUS
        <3>2. g[j - 1] = f[j - 1]
            BY <3>1
        <3>3. CASE j <= i
            <4>1. j \in 1..i /\ g[j] = f[j]
                BY <3>1, <3>3
            <4> HIDE DEF g
            <4> QED BY <2>2, <3>2, <4>1
        <3>4. CASE j = i + 1
            <4>1. g[j] = Read(f[i], text[i + 1]) /\ j - 1 = i
                BY <3>1, <3>4
            <4> HIDE DEF g
            <4> QED BY <3>2, <3>4, <4>1
        <3>5. j <= i \/ j = i + 1
            OBVIOUS
        <3> QED BY <3>3, <3>4, <3>5
    <2> HIDE DEF g
    <2>5. IsRun(g, p, text, i + 1)
        <3> DEFINE k == i + 1
        <3>1. k \in Nat
            OBVIOUS
        <3>2. \A j \in 1..k : g[j] = Read(g[j - 1], text[j])
            BY <2>4
        <3>3. g = [j \in 0..k |-> g[j]]
            BY <2>3
        <3> HIDE DEF k
        <3>4. IsRun(g, p, text, k)
            BY <2>3, <3>1, <3>2, <3>3, StepsRun
        <3> QED BY <3>4 DEF k
    <2> QED BY <2>5
<1>3. Nat \subseteq T
    <2> HIDE DEF T
    <2> QED BY <1>1, <1>2, Induction
<1> QED BY <1>3

(* So the recursive definition of ReadAll defines something: its value is  *)
(* where any run of the text ends.                                         *)
LEMMA ReadAllIsRun ==
    ASSUME NEW p, NEW text \in Seq(Atom), NEW f, IsRun(f, p, text, Len(text))
    PROVE  ReadAll(p, text) = f[Len(text)]
<1> DEFINE g == CHOOSE h : h = [n \in 0..Len(text) |-> IF n = 0 THEN p ELSE Read(h[n - 1], text[n])]
<1>1. ReadAll(p, text) = g[Len(text)]
    BY DEF ReadAll
<1>2. Len(text) \in Nat
    BY LenProperties
<1>3. \E h : h = [n \in 0..Len(text) |-> IF n = 0 THEN p ELSE Read(h[n - 1], text[n])]
    BY <1>2, RunExists DEF IsRun
<1>4. IsRun(g, p, text, Len(text))
    BY <1>3 DEF IsRun
<1> HIDE DEF g
<1> QED BY <1>1, <1>2, <1>4, RunUnique

LEMMA ReadNothing == ASSUME NEW p PROVE ReadAll(p, <<>>) = p
<1>1. <<>> \in Seq(Atom) /\ Len(<<>>) = 0
    BY EmptySeq
<1>2. PICK f : IsRun(f, p, <<>>, 0)
    BY RunExists
<1>3. f[0] = p
    BY <1>2, RunSteps
<1>4. ReadAll(p, <<>>) = f[0]
    BY <1>1, <1>2, ReadAllIsRun
<1> QED BY <1>3, <1>4

LEMMA ReadOne == ASSUME NEW p, NEW x \in Atom PROVE ReadAll(p, <<x>>) = Read(p, x)
<1> DEFINE text == <<x>>
<1>1. Len(text) = 1 /\ text[1] = x
    OBVIOUS
<1>2. text \in Seq(Atom)
    OBVIOUS
<1> HIDE DEF text
<1>3. PICK f : IsRun(f, p, text, 1)
    BY RunExists
<1>4. f[0] = p /\ \A i \in 1..1 : f[i] = Read(f[i - 1], text[i])
    BY <1>3, RunSteps
<1>5. 1 \in 1..1 /\ 1 - 1 = 0
    OBVIOUS
<1>6. f[1] = Read(p, x)
    BY <1>1, <1>4, <1>5
<1>7. ReadAll(p, text) = f[1]
    BY <1>1, <1>2, <1>3, ReadAllIsRun
<1> QED BY <1>6, <1>7 DEF text

(* What follows in the text is read from where the beginning has led.      *)
LEMMA ReadConcat ==
    ASSUME NEW p, NEW a \in Seq(Atom), NEW b \in Seq(Atom)
    PROVE  ReadAll(p, a \o b) = ReadAll(ReadAll(p, a), b)
<1> DEFINE text == a \o b  m == Len(a)  n == Len(b)
<1>1. m \in Nat /\ n \in Nat
    BY LenProperties
<1>2. text \in Seq(Atom) /\ Len(text) = m + n
    BY ConcatProperties
<1>3. \A i \in 1..m + n : text[i] = IF i <= m THEN a[i] ELSE b[i - m]
    BY ConcatProperties
<1> HIDE DEF text, m, n
<1>4. (\A i \in 1..m : text[i] = a[i]) /\ \A i \in 1..n : text[m + i] = b[i]
    <2>1. \A i \in 1..m : i \in 1..m + n /\ i <= m
        BY <1>1
    <2>2. \A i \in 1..n : m + i \in 1..m + n /\ ~(m + i <= m) /\ (m + i) - m = i
        BY <1>1
    <2> QED BY <1>3, <2>1, <2>2
<1> DEFINE k == m + n
<1>5. k \in Nat /\ (\A i \in 1..m : i \in 1..k) /\ (\A i \in 1..n : m + i \in 1..k /\ (m + i) - 1 = m + (i - 1))
    BY <1>1
<1> HIDE DEF k
<1>6. PICK f : IsRun(f, p, text, k)
    BY <1>5, RunExists
<1>7. f[0] = p /\ \A i \in 1..k : f[i] = Read(f[i - 1], text[i])
    BY <1>5, <1>6, RunSteps
<1>8. ReadAll(p, text) = f[k]
    BY <1>2, <1>6, ReadAllIsRun DEF k
<1> DEFINE g == [i \in 0..m |-> f[i]]  h == [i \in 0..n |-> f[m + i]]
<1>9. ReadAll(p, a) = f[m]
    <2>1. g = [i \in 0..m |-> g[i]] /\ g[0] = p /\ g[m] = f[m]
        BY <1>1, <1>7
    <2>2. ASSUME NEW i \in 1..m PROVE g[i] = Read(g[i - 1], a[i])
        <3>1. i \in 0..m /\ i - 1 \in 0..m
            BY <1>1
        <3>2. g[i] = f[i] /\ g[i - 1] = f[i - 1]
            BY <3>1
        <3> HIDE DEF g
        <3> QED BY <1>4, <1>5, <1>7, <3>2
    <2> HIDE DEF g
    <2>3. IsRun(g, p, a, m)
        BY <1>1, <2>1, <2>2, StepsRun
    <2> QED BY <2>1, <2>3, ReadAllIsRun DEF m
<1>10. ReadAll(f[m], b) = f[k]
    <2>1. h = [i \in 0..n |-> h[i]] /\ h[0] = f[m] /\ h[n] = f[m + n]
        BY <1>1
    <2>2. ASSUME NEW i \in 1..n PROVE h[i] = Read(h[i - 1], b[i])
        <3>1. i \in 0..n /\ i - 1 \in 0..n
            BY <1>1
        <3>2. h[i] = f[m + i] /\ h[i - 1] = f[m + (i - 1)]
            BY <3>1
        <3> HIDE DEF h
        <3> QED BY <1>4, <1>5, <1>7, <3>2
    <2> HIDE DEF h
    <2>3. IsRun(h, f[m], b, n)
        BY <1>1, <2>1, <2>2, StepsRun
    <2>4. ReadAll(f[m], b) = h[n]
        BY <2>3, ReadAllIsRun DEF n
    <2> QED BY <2>1, <2>4 DEF k
<1> QED BY <1>8, <1>9, <1>10 DEF text

-----------------------------------------------------------------------------
(* Where a reader can be.                                                  *)
Reader ==
    [at : {"between", "key", "equals", "before", "bare", "bareNext", "quoted", "quotedNext", "error"},
     key : Seq(Atom), value : Seq(Atom), opts : Parsed]

LEMMA SetType == ASSUME NEW p \in Reader PROVE Set(p) \in Parsed
<1>1. p.opts \in [Option \cup {None} -> Value] /\ p.value \in Value
    BY DEF Reader, Parsed, Value
<1> QED BY <1>1 DEF Set, Parsed

LEMMA ReadType == ASSUME NEW p \in Reader, NEW x \in Atom PROVE Read(p, x) \in Reader
<1>1. Append(p.key, x) \in Seq(Atom) /\ Append(p.value, x) \in Seq(Atom)
    BY DEF Reader
<1>2. Between(Set(p)) \in Reader
    BY SetType, EmptySeq DEF Between, Reader
<1>3. p.at \in {"between", "key", "equals", "before", "bare", "bareNext", "quoted", "quotedNext", "error"}
    BY DEF Reader
<1>4. /\ \A a \in {"equals", "before", "error", "quoted", "quotedNext", "bareNext"} : [p EXCEPT !.at = a] \in Reader
      /\ [p EXCEPT !.at = "key", !.key = Append(@, x)] \in Reader
      /\ \A a \in {"bare", "quoted"} : [p EXCEPT !.at = a, !.value = Append(@, x)] \in Reader
    BY <1>1 DEF Reader
<1> QED BY <1>2, <1>3, <1>4 DEF Read

-----------------------------------------------------------------------------
(* An option as connect puts it.                                           *)
LEMMA Short ==
    ASSUME NEW x \in Atom, NEW y \in Atom
    PROVE  <<x>> \in Seq(Atom) /\ <<x, y>> \in Seq(Atom) /\ <<x, y>> = <<x>> \o <<y>>
<1>1. <<x>> \in Seq(Atom)
    OBVIOUS
<1>2. <<x, y>> \in Seq(Atom)
    OBVIOUS
<1>3. <<x, y>> = Append(<<x>>, y)
    OBVIOUS
<1>4. <<x, y>> = <<x>> \o <<y>>
    BY <1>1, <1>3, AppendIsConcat
<1> QED BY <1>1, <1>2, <1>4

LEMMA ReadTwo ==
    ASSUME NEW p, NEW x \in Atom, NEW y \in Atom
    PROVE  ReadAll(p, <<x, y>>) = Read(Read(p, x), y)
<1> DEFINE a == <<x>>  b == <<y>>
<1>1. a \in Seq(Atom) /\ b \in Seq(Atom) /\ <<x, y>> = a \o b
    BY Short
<1>2. ReadAll(p, a) = Read(p, x) /\ ReadAll(Read(p, x), b) = Read(Read(p, x), y)
    BY ReadOne
<1> HIDE DEF a, b
<1>3. ReadAll(p, a \o b) = ReadAll(ReadAll(p, a), b)
    BY <1>1, ReadConcat
<1> QED BY <1>1, <1>2, <1>3

LEMMA PutReads ==
    ASSUME NEW p, NEW e \in [Option \ {"search_path"} -> Value], NEW o \in Option \ {"search_path"}
    PROVE  /\ Getenv(e[o]) \in Seq(Atom) /\ Put(e, o) \in Seq(Atom)
           /\ ReadAll(p, Put(e, o)) = Read(ReadAll(Read(Read(p, o), "="), Getenv(e[o])), " ")
<1> DEFINE v == Getenv(e[o])  a == <<o, "=">>  z == <<" ">>
<1>1. v \in Seq(Atom)
    <2>1. e[o] \in Value
        OBVIOUS
    <2> QED BY <2>1, EmptySeq DEF Value, Getenv
<1>2. o \in Atom /\ "=" \in Atom /\ " " \in Atom
    BY AtomAssumption DEF Option
<1>3. a \in Seq(Atom) /\ z \in Seq(Atom)
    BY <1>2, Short
<1>4. ReadAll(p, a) = Read(Read(p, o), "=")
    BY <1>2, ReadTwo
<1>5. \A q : ReadAll(q, z) = Read(q, " ")
    BY <1>2, ReadOne
<1>6. Put(e, o) = (a \o v) \o z
    BY DEF Put
<1> HIDE DEF v, a, z
<1>7. a \o v \in Seq(Atom)
    BY <1>1, <1>3, ConcatProperties
<1>8. ReadAll(p, a \o v) = ReadAll(ReadAll(p, a), v)
    BY <1>1, <1>3, ReadConcat
<1> DEFINE front == a \o v
<1>9. front \in Seq(Atom) /\ Put(e, o) = front \o z
    BY <1>6, <1>7
<1>10. ReadAll(p, front) = ReadAll(Read(Read(p, o), "="), v)
    BY <1>4, <1>8
<1> HIDE DEF front
<1>11. Put(e, o) \in Seq(Atom)
    BY <1>3, <1>9, ConcatProperties
<1>12. ReadAll(p, Put(e, o)) = ReadAll(ReadAll(p, front), z)
    BY <1>3, <1>9, ReadConcat
<1> QED BY <1>1, <1>5, <1>10, <1>11, <1>12 DEF v

(* A value without what ends or quotes one is read as it is.               *)
LEMMA BareStep ==
    ASSUME NEW p \in Reader, p.at \in {"before", "bare"}, NEW x \in Atom, x \notin {" ", "'", "\\"}
    PROVE  Read(p, x) = [p EXCEPT !.at = "bare", !.value = Append(@, x)]
BY DEF Read

LEMMA Grow ==
    ASSUME NEW u \in Seq(Atom), NEW v \in Seq(Atom), NEW i \in 1..Len(v)
    PROVE  /\ u \o SubSeq(v, 1, i) = Append(u \o SubSeq(v, 1, i - 1), v[i])
           /\ u \o SubSeq(v, 1, i - 1) \in Seq(Atom)
<1>1. Len(v) \in Nat /\ v[i] \in Atom /\ i \in Nat
    BY LenProperties, ElementOfSeq
<1>2. SubSeq(v, 1, i - 1) \in Seq(Atom)
    <2>1. \A j \in 1..i - 1 : j \in 1..Len(v)
        BY <1>1
    <2>2. \A j \in 1..i - 1 : v[j] \in Atom
        BY <2>1, ElementOfSeq
    <2>3. i - 1 \in Int
        BY <1>1
    <2> QED BY <2>2, <2>3, SubSeqProperties
<1>3. SubSeq(v, 1, i) = SubSeq(v, 1, i - 1) \o <<v[i]>>
    <2>1. 1 \in 1..Len(v) /\ i \in 1..Len(v)
        BY <1>1
    <2> QED BY <2>1, SubSeqRecursiveSecond
<1> DEFINE w == SubSeq(v, 1, i - 1)  x == v[i]
<1> HIDE DEF w, x
<1>4. u \o (w \o <<x>>) = (u \o w) \o <<x>>
    <2>1. <<x>> \in Seq(Atom) /\ w \in Seq(Atom)
        BY <1>1, <1>2 DEF w, x
    <2> QED BY <2>1, ConcatAssociative
<1>5. u \o w \in Seq(Atom)
    BY <1>2, ConcatProperties DEF w
<1>6. (u \o w) \o <<x>> = Append(u \o w, x)
    <2> DEFINE t == u \o w
    <2>1. t \in Seq(Atom) /\ x \in Atom
        BY <1>1, <1>5 DEF x
    <2> HIDE DEF t
    <2>2. t \o <<x>> = Append(t, x)
        BY <2>1, AppendIsConcat
    <2> QED BY <2>2 DEF t
<1> QED BY <1>3, <1>4, <1>5, <1>6 DEF w, x

Bare(v) == \A i \in 1..Len(v) : v[i] \notin {" ", "'", "\\"}

LEMMA BareRead ==
    ASSUME NEW p \in Reader, p.at \in {"before", "bare"}, NEW v \in Seq(Atom), v # <<>>, Bare(v)
    PROVE  ReadAll(p, v) = [p EXCEPT !.at = "bare", !.value = p.value \o v]
<1> DEFINE n == Len(v)  u(i) == p.value \o SubSeq(v, 1, i)
<1>1. p.value \in Seq(Atom) /\ \A i \in 1..n : v[i] \in Atom
    BY ElementOfSeq DEF Reader
<1>2. n \in Nat /\ n # 0
    BY EmptySeq, LenProperties
<1>3. u(0) = p.value /\ u(n) = p.value \o v
    <2>1. SubSeq(v, 1, 0) = <<>>
        <3>1. 0 \in Int /\ 1 \in Int /\ 0 < 1
            OBVIOUS
        <3> QED BY <3>1, SubSeqEmpty
    <2>2. SubSeq(v, 1, n) = v
        BY SubSeqFull
    <2>3. p.value \o <<>> = p.value
        BY <1>1, ConcatEmptySeq
    <2> QED BY <2>1, <2>2, <2>3
<1>4. \A i \in 1..n : u(i) = Append(u(i - 1), v[i]) /\ u(i - 1) \in Seq(Atom)
    BY <1>1, Grow
<1> HIDE DEF n, u
<1> DEFINE g(i) == [p EXCEPT !.at = "bare", !.value = u(i)]
<1>5. \A i \in 1..n : Read(p, v[i]) = [p EXCEPT !.at = "bare", !.value = Append(p.value, v[i])]
    BY <1>1, BareStep DEF n, Bare
<1>6. \A i \in 1..n : u(i - 1) \in Seq(Atom) => Read(g(i - 1), v[i]) = g(i)
    <2> SUFFICES ASSUME NEW i \in 1..n, u(i - 1) \in Seq(Atom) PROVE Read(g(i - 1), v[i]) = g(i)
        OBVIOUS
    <2>1. v[i] \in Atom /\ v[i] \notin {" ", "'", "\\"}
        BY <1>1 DEF n, Bare
    <2>2. g(i - 1) \in Reader /\ g(i - 1).at = "bare" /\ g(i - 1).value = u(i - 1)
        BY DEF Reader
    <2>3. [g(i - 1) EXCEPT !.at = "bare", !.value = Append(u(i - 1), v[i])]
             = [p EXCEPT !.at = "bare", !.value = Append(u(i - 1), v[i])]
        BY DEF Reader
    <2>4. u(i) = Append(u(i - 1), v[i])
        BY <1>4
    <2> DEFINE q == g(i - 1)
    <2>5. q \in Reader /\ q.at \in {"before", "bare"} /\ q.value = u(i - 1)
        BY <2>2
    <2> HIDE DEF q
    <2>6. Read(q, v[i]) = [q EXCEPT !.at = "bare", !.value = Append(q.value, v[i])]
        BY <2>1, <2>5, BareStep
    <2> QED BY <2>3, <2>4, <2>5, <2>6 DEF q
<1>7. g(n) = [p EXCEPT !.at = "bare", !.value = u(n)]
    OBVIOUS
<1>8. u(1) = Append(p.value, v[1]) => Read(p, v[1]) = g(1)
    <2>1. 1 \in 1..n
        BY <1>2
    <2> QED BY <1>5, <2>1
<1> HIDE DEF g
<1> DEFINE f == [i \in 0..n |-> IF i = 0 THEN p ELSE g(i)]
<1>9. f = [i \in 0..n |-> f[i]] /\ f[0] = p /\ f[n] = g(n)
    BY <1>2
<1>10. ASSUME NEW i \in 1..n PROVE f[i] = Read(f[i - 1], v[i])
    <2>1. i \in 0..n /\ i - 1 \in 0..n /\ i # 0
        BY <1>2
    <2>2. CASE i = 1
        <3>1. f[i] = g(1) /\ f[i - 1] = p
            BY <2>1, <2>2
        <3>2. 1 - 1 = 0
            OBVIOUS
        <3>3. u(1) = Append(p.value, v[1])
            BY <1>3, <1>4, <2>2, <3>2
        <3> HIDE DEF f
        <3> QED BY <1>8, <2>2, <3>1, <3>3
    <2>3. CASE i # 1
        <3>1. f[i] = g(i) /\ f[i - 1] = g(i - 1)
            BY <2>1, <2>3
        <3> HIDE DEF f
        <3> QED BY <1>4, <1>6, <3>1
    <2> QED BY <2>2, <2>3
<1> HIDE DEF f
<1>11. IsRun(f, p, v, n)
    BY <1>2, <1>9, <1>10, StepsRun
<1>12. ReadAll(p, v) = f[n]
    BY <1>11, ReadAllIsRun DEF n
<1> QED BY <1>3, <1>7, <1>9, <1>12

-----------------------------------------------------------------------------
(* Where the reader can be between two options: after the value of one, or *)
(* at the start of a value that is not there.  No plain value is touched.  *)
Names == Option \ {"search_path"}

Good(p, e) ==
    /\ p \in Reader /\ p.value = <<>> /\ p.opts[None] = None
    /\ \A o \in Names : Plain(e[o]) => p.opts[o] = e[o]
    /\ \/ p.at = "between" /\ p.key = <<>>
       \/ p.at = "before" /\ \E o \in Names : p.key = <<o>> /\ Unset(e[o])

LEMMA Letters ==
    /\ \A o \in Option : o \in Atom /\ o \notin {" ", "=", "'", "\\"} /\ o # None
    /\ " " \in Atom /\ "=" \in Atom /\ "tweetwatcher" \in Atom
BY AtomAssumption, NoneAssumption DEF Option

LEMMA SetOne ==
    ASSUME NEW p \in Reader, NEW k \in Option, p.key = <<k>>
    PROVE  /\ Set(p) = [p.opts EXCEPT ![k] = p.value] /\ Set(p) \in Parsed
           /\ Set(p)[k] = p.value /\ \A o \in Option \cup {None} : o # k => Set(p)[o] = p.opts[o]
<1>1. Len(p.key) = 1 /\ p.key[1] = k
    OBVIOUS
<1>2. Set(p) = [p.opts EXCEPT ![k] = p.value]
    BY <1>1 DEF Set
<1>3. p.opts \in [Option \cup {None} -> Value]
    BY DEF Reader, Parsed
<1> QED BY <1>2, <1>3, SetType

LEMMA PlainValue ==
    ASSUME NEW v \in Value, Plain(v)
    PROVE  v \in Seq(Atom) /\ v # <<>> /\ Getenv(v) = v /\ Bare(v) /\ ~Unset(v)
<1>1. v # None /\ v # <<>> /\ ~Unset(v)
    BY DEF Plain, Unset
<1>2. Bare(v)
    BY DEF Plain, Bare
<1> QED BY <1>1, <1>2 DEF Value, Getenv

LEMMA KeyRead ==
    ASSUME NEW p \in Reader, p.at = "between", p.key = <<>>, NEW o \in Option
    PROVE  Read(Read(p, o), "=") = [p EXCEPT !.at = "before", !.key = <<o>>]
<1>1. Read(p, o) = [p EXCEPT !.at = "key", !.key = Append(@, o)]
    BY Letters DEF Read
<1>2. Append(<<>>, o) = <<o>>
    OBVIOUS
<1> DEFINE q == [p EXCEPT !.at = "key", !.key = <<o>>]
<1>3. Read(p, o) = q /\ q.at = "key" /\ q.key = <<o>>
    BY <1>1, <1>2 DEF Reader
<1>4. Read(q, "=") = [q EXCEPT !.at = "before"]
    <2> HIDE DEF q
    <2> QED BY <1>3 DEF Read
<1>5. [q EXCEPT !.at = "before"] = [p EXCEPT !.at = "before", !.key = <<o>>]
    BY DEF Reader
<1> QED BY <1>3, <1>4, <1>5

(* The name of an option is read as the value of the one before it.        *)
LEMMA KeySwallowed ==
    ASSUME NEW p \in Reader, p.at = "before", NEW o \in Option
    PROVE  \E w \in Seq(Atom) : Read(Read(p, o), "=") = [p EXCEPT !.at = "bare", !.value = w]
<1>1. Read(p, o) = [p EXCEPT !.at = "bare", !.value = Append(@, o)]
    BY Letters, BareStep
<1> DEFINE q == [p EXCEPT !.at = "bare", !.value = Append(@, o)]
<1>2. p.value \in Seq(Atom) /\ o \in Atom /\ "=" \in Atom
    BY Letters DEF Reader
<1>3. Append(p.value, o) \in Seq(Atom)
    BY <1>2, AppendProperties
<1>4. q \in Reader /\ q.at = "bare" /\ q.value = Append(p.value, o)
    BY <1>3 DEF Reader
<1>5. \A w : [q EXCEPT !.at = "bare", !.value = w] = [p EXCEPT !.at = "bare", !.value = w]
    BY DEF Reader
<1> HIDE DEF q
<1>6. Read(q, "=") = [q EXCEPT !.at = "bare", !.value = Append(@, "=")]
    BY <1>2, <1>4, BareStep
<1>7. Append(q.value, "=") \in Seq(Atom)
    BY <1>2, <1>3, <1>4, AppendProperties
<1> QED BY <1>1, <1>5, <1>6, <1>7 DEF q

LEMMA ValueEnds ==
    ASSUME NEW p \in Reader, p.at = "bare"
    PROVE  Read(p, " ") = Between(Set(p))
BY DEF Read

LEMMA PutGood ==
    ASSUME NEW e \in [Names -> Value], NEW p, Good(p, e), NEW o \in Names, Unset(e[o]) \/ Plain(e[o])
    PROVE  Good(ReadAll(p, Put(e, o)), e) /\ (Plain(e[o]) => ReadAll(p, Put(e, o)).at = "between")
<1> DEFINE v == Getenv(e[o])  s == Read(Read(p, o), "=")
<1>1. /\ ReadAll(p, Put(e, o)) = Read(ReadAll(s, v), " ")
      /\ v \in Seq(Atom)
    BY PutReads DEF Names
<1>2. p \in Reader /\ e[o] \in Value /\ o \in Option
    BY DEF Good, Names
<1>3. Unset(e[o]) => v = <<>>
    BY DEF Unset, Getenv
<1>4. CASE p.at = "between" /\ p.key = <<>>
    <2>1. s = [p EXCEPT !.at = "before", !.key = <<o>>]
        BY <1>2, <1>4, KeyRead
    <2>2. <<o>> \in Seq(Atom)
        BY <1>2, Letters, Short
    <2>3. s \in Reader /\ s.at = "before" /\ s.key = <<o>> /\ s.value = <<>> /\ s.opts = p.opts
        BY <1>2, <2>1, <2>2 DEF Good, Reader
    <2> HIDE DEF v, s
    <2>4. CASE Unset(e[o])
        <3>1. Read(ReadAll(s, v), " ") = s
            BY <1>3, <2>3, <2>4, ReadNothing DEF Read
        <3>2. Good(s, e) /\ ~Plain(e[o])
            BY <2>3, <2>4 DEF Good, Plain
        <3> QED BY <1>1, <3>1, <3>2
    <2>5. CASE Plain(e[o])
        <3>1. v = e[o] /\ v # <<>> /\ Bare(v)
            BY <1>2, <2>5, PlainValue DEF v
        <3> DEFINE t == [s EXCEPT !.at = "bare", !.value = v]
        <3>2. ReadAll(s, v) = t
            <4>1. <<>> \o v = v
                BY <1>1, ConcatEmptySeq
            <4>2. ReadAll(s, v) = [s EXCEPT !.at = "bare", !.value = s.value \o v]
                BY <1>1, <2>3, <3>1, BareRead
            <4>3. s.value \o v = v
                BY <2>3, <4>1
            <4> QED BY <4>2, <4>3
        <3>3. t \in Reader /\ t.at = "bare" /\ t.key = <<o>> /\ t.value = v /\ t.opts = p.opts
            BY <1>1, <2>3 DEF Reader
        <3> HIDE DEF t
        <3>4. Read(t, " ") = Between(Set(t))
            BY <3>3, ValueEnds
        <3>5. /\ Set(t) \in Parsed /\ Set(t)[o] = v
              /\ \A k \in Option \cup {None} : k # o => Set(t)[k] = p.opts[k]
            BY <1>2, <3>3, SetOne
        <3> DEFINE r == Set(t)
        <3> HIDE DEF r
        <3>6. Between(r) \in Reader
            BY <3>5, EmptySeq DEF Between, Reader, r
        <3>7. r[None] = None /\ \A k \in Names : Plain(e[k]) => r[k] = e[k]
            BY <1>2, <3>1, <3>5, Letters DEF Good, r, Names
        <3>8. Good(Between(r), e) /\ Between(r).at = "between"
            BY <3>6, <3>7 DEF Good, Between
        <3> QED BY <1>1, <3>2, <3>4, <3>8 DEF r
    <2> QED BY <2>4, <2>5
<1>5. CASE p.at = "before" /\ \E k \in Names : p.key = <<k>> /\ Unset(e[k])
    <2>1. PICK k \in Names : p.key = <<k>> /\ Unset(e[k])
        BY <1>5
    <2>2. PICK w \in Seq(Atom) : s = [p EXCEPT !.at = "bare", !.value = w]
        BY <1>2, <1>5, KeySwallowed
    <2>3. s \in Reader /\ s.at = "bare" /\ s.key = <<k>> /\ s.value = w /\ s.opts = p.opts
        BY <1>2, <2>1, <2>2 DEF Reader
    <2> HIDE DEF v, s
    <2>4. PICK t \in Reader : ReadAll(s, v) = t /\ t.at = "bare" /\ t.key = <<k>> /\ t.opts = p.opts
        <3>1. CASE v = <<>>
            BY <2>3, <3>1, ReadNothing
        <3>2. CASE v # <<>>
            <4>1. Bare(v)
                BY <1>2, <1>3, <3>2, PlainValue DEF v
            <4>2. ReadAll(s, v) = [s EXCEPT !.at = "bare", !.value = s.value \o v]
                BY <1>1, <2>3, <3>2, <4>1, BareRead
            <4>3. s.value \o v \in Seq(Atom)
                BY <1>1, <2>3, ConcatProperties
            <4> QED BY <2>3, <4>2, <4>3 DEF Reader
        <3> QED BY <3>1, <3>2
    <2>5. Read(t, " ") = Between(Set(t))
        BY <2>4, ValueEnds
    <2>6. Set(t) \in Parsed /\ \A j \in Option \cup {None} : j # k => Set(t)[j] = p.opts[j]
        BY <2>4, SetOne DEF Names
    <2> DEFINE r == Set(t)
    <2> HIDE DEF r
    <2>7. Between(r) \in Reader
        BY <2>6, EmptySeq DEF Between, Reader, r
    <2>8. ~Plain(e[k])
        BY <2>1 DEF Plain
    <2>9. r[None] = None /\ \A j \in Names : Plain(e[j]) => r[j] = e[j]
        BY <2>6, <2>8, Letters DEF Good, r, Names
    <2>10. Good(Between(r), e) /\ Between(r).at = "between"
        BY <2>7, <2>9 DEF Good, Between
    <2> QED BY <1>1, <2>4, <2>5, <2>10 DEF r
<1> QED BY <1>4, <1>5 DEF Good

(* What connect puts last.                                                 *)
Path3 == <<"search_path", "=", "tweetwatcher">>

LEMMA Path3Reads ==
    ASSUME NEW p
    PROVE  /\ Path3 \in Seq(Atom)
           /\ ReadAll(p, Path3) = Read(Read(Read(p, "search_path"), "="), "tweetwatcher")
<1> DEFINE a == <<"search_path", "=">>  b == <<"tweetwatcher">>
<1>1. "search_path" \in Atom /\ "=" \in Atom /\ "tweetwatcher" \in Atom
    BY Letters DEF Option
<1>2. a \in Seq(Atom) /\ b \in Seq(Atom)
    BY <1>1, Short
<1>3. Path3 = a \o b
    <2>1. Path3 = Append(a, "tweetwatcher")
        BY DEF Path3
    <2>2. a \in Seq(Atom) /\ "tweetwatcher" \in Atom
        BY <1>1, <1>2
    <2> HIDE DEF a
    <2>3. Append(a, "tweetwatcher") = a \o <<"tweetwatcher">>
        BY <2>2, AppendIsConcat
    <2> QED BY <2>1, <2>3
<1>4. ReadAll(p, a) = Read(Read(p, "search_path"), "=")
    BY <1>1, ReadTwo
<1>5. \A q : ReadAll(q, b) = Read(q, "tweetwatcher")
    BY <1>1, ReadOne
<1> HIDE DEF a, b
<1>6. Path3 \in Seq(Atom)
    BY <1>2, <1>3, ConcatProperties
<1>7. ReadAll(p, Path3) = ReadAll(ReadAll(p, a), b)
    BY <1>2, <1>3, ReadConcat
<1> QED BY <1>4, <1>5, <1>6, <1>7

(* What the text sets in the end.                                          *)
Arrives(e, r) ==
    /\ r \in Parsed /\ r[None] = None
    /\ \A o \in Names : Plain(e[o]) => r[o] = e[o]
    /\ Plain(e["dbname"]) => r["search_path"] = <<"tweetwatcher">>

LEMMA LastGood ==
    ASSUME NEW e \in [Names -> Value], NEW p, Good(p, e), Plain(e["dbname"]) => p.at = "between"
    PROVE  LET q == ReadAll(p, Path3) IN q.at = "bare" /\ Arrives(e, Set(q))
<1> DEFINE q == ReadAll(p, Path3)  s == Read(Read(p, "search_path"), "=")
<1>1. q = Read(s, "tweetwatcher")
    BY Path3Reads
<1>2. p \in Reader /\ "search_path" \in Option /\ "tweetwatcher" \in Atom /\ "search_path" \notin Names
    BY Letters DEF Good, Option, Names
<1>3. \A w \in Seq(Atom) : Append(w, "tweetwatcher") \in Seq(Atom)
    BY <1>2, AppendProperties
<1>4. CASE p.at = "between" /\ p.key = <<>>
    <2>1. s = [p EXCEPT !.at = "before", !.key = <<"search_path">>]
        BY <1>2, <1>4, KeyRead
    <2>2. <<"search_path">> \in Seq(Atom)
        BY <1>2, Letters, Short
    <2>3. s \in Reader /\ s.at = "before" /\ s.key = <<"search_path">> /\ s.value = <<>> /\ s.opts = p.opts
        BY <1>2, <2>1, <2>2 DEF Good, Reader
    <2> HIDE DEF s, q
    <2>4. q = [s EXCEPT !.at = "bare", !.value = Append(@, "tweetwatcher")]
        BY <1>1, <1>2, <2>3, BareStep
    <2>5. Append(<<>>, "tweetwatcher") = <<"tweetwatcher">>
        OBVIOUS
    <2>6. q \in Reader /\ q.at = "bare" /\ q.key = <<"search_path">> /\ q.value = <<"tweetwatcher">>
          /\ q.opts = p.opts
        BY <1>2, <1>3, <2>3, <2>4, <2>5 DEF Reader
    <2>7. /\ Set(q) \in Parsed /\ Set(q)["search_path"] = <<"tweetwatcher">>
          /\ \A k \in Option \cup {None} : k # "search_path" => Set(q)[k] = p.opts[k]
        BY <1>2, <2>6, SetOne
    <2>8. Arrives(e, Set(q))
        BY <1>2, <2>7, Letters DEF Arrives, Good, Names
    <2> QED BY <2>6, <2>8 DEF q
<1>5. CASE p.at = "before" /\ \E k \in Names : p.key = <<k>> /\ Unset(e[k])
    <2>1. PICK k \in Names : p.key = <<k>> /\ Unset(e[k])
        BY <1>5
    <2>2. PICK w \in Seq(Atom) : s = [p EXCEPT !.at = "bare", !.value = w]
        BY <1>2, <1>5, KeySwallowed
    <2>3. s \in Reader /\ s.at = "bare" /\ s.key = <<k>> /\ s.opts = p.opts
        BY <1>2, <2>1, <2>2 DEF Reader
    <2> HIDE DEF s, q
    <2>4. q = [s EXCEPT !.at = "bare", !.value = Append(@, "tweetwatcher")]
        BY <1>1, <1>2, <2>3, BareStep
    <2>5. Append(s.value, "tweetwatcher") \in Seq(Atom)
        BY <1>3, <2>3 DEF Reader
    <2>6. q \in Reader /\ q.at = "bare" /\ q.key = <<k>> /\ q.opts = p.opts
        BY <2>3, <2>4, <2>5 DEF Reader
    <2>7. Set(q) \in Parsed /\ \A j \in Option \cup {None} : j # k => Set(q)[j] = p.opts[j]
        BY <2>6, SetOne DEF Names
    <2>8. ~Plain(e[k]) /\ ~Plain(e["dbname"])
        BY <1>5, <2>1 DEF Plain
    <2>9. Arrives(e, Set(q))
        BY <1>2, <2>7, <2>8, Letters DEF Arrives, Good, Names
    <2> QED BY <2>6, <2>9 DEF q
<1> QED BY <1>4, <1>5 DEF Good

LEMMA EnvironGood ==
    ASSUME NEW e \in [Names -> Value]
    PROVE  Good(Between(Environ(e)), e)
<1>1. None \notin Names /\ DOMAIN e = Names
    BY Letters DEF Names
<1>2. <<>> \in Seq(Atom) /\ <<"localhost">> \in Seq(Atom) /\ <<"5432">> \in Seq(Atom)
    <2>1. "localhost" \in Atom /\ "5432" \in Atom
        BY AtomAssumption
    <2> QED BY <2>1, Short, EmptySeq
<1>3. \A o : Default(o) \in Value
    BY <1>2 DEF Default, Value
<1>4. Environ(e) \in Parsed
    BY <1>1, <1>3 DEF Environ, Parsed
<1>5. Environ(e)[None] = None
    BY <1>1, Letters DEF Environ, Default, Option
<1>6. \A o \in Names : Plain(e[o]) => Environ(e)[o] = e[o]
    BY <1>1 DEF Environ, Plain, Unset, Names
<1> QED BY <1>2, <1>4, <1>5, <1>6 DEF Good, Between, Reader

LEMMA TextArrives ==
    ASSUME NEW e \in [Names -> Value], \A o \in Names : Unset(e[o]) \/ Plain(e[o])
    PROVE  Arrives(e, Opts(e))
<1> DEFINE b == Between(Environ(e))
           a1 == Put(e, "user")  a2 == Put(e, "password")  a3 == Put(e, "host")
           a4 == Put(e, "port")  a5 == Put(e, "dbname")
           p1 == ReadAll(b, a1)  p2 == ReadAll(p1, a2)  p3 == ReadAll(p2, a3)
           p4 == ReadAll(p3, a4)  p5 == ReadAll(p4, a5)
<1>1. {"user", "password", "host", "port", "dbname"} = Names
    BY DEF Names, Option
<1>2. a1 \in Seq(Atom) /\ a2 \in Seq(Atom) /\ a3 \in Seq(Atom) /\ a4 \in Seq(Atom) /\ a5 \in Seq(Atom)
      /\ Path3 \in Seq(Atom)
    BY <1>1, PutReads, Path3Reads DEF Names
<1>3. Good(b, e)
    BY EnvironGood
<1>4. Good(p1, e)
    BY <1>1, <1>3, PutGood
<1>5. Good(p2, e)
    BY <1>1, <1>4, PutGood
<1>6. Good(p3, e)
    BY <1>1, <1>5, PutGood
<1>7. Good(p4, e)
    BY <1>1, <1>6, PutGood
<1>8. Good(p5, e) /\ (Plain(e["dbname"]) => p5.at = "between")
    BY <1>1, <1>7, PutGood
<1> DEFINE q == ReadAll(p5, Path3)
<1>9. q.at = "bare" /\ Arrives(e, Set(q))
    BY <1>8, LastGood
<1>10. ConnStr(e) = ((((a1 \o a2) \o a3) \o a4) \o a5) \o Path3
    BY DEF ConnStr, Path3
<1> HIDE DEF a1, a2, a3, a4, a5
<1> DEFINE c2 == a1 \o a2  c3 == c2 \o a3  c4 == c3 \o a4  c5 == c4 \o a5
<1>11. c2 \in Seq(Atom) /\ ReadAll(b, c2) = p2
    BY <1>2, ReadConcat, ConcatProperties
<1> HIDE DEF c2, p2
<1>12. c3 \in Seq(Atom) /\ ReadAll(b, c3) = p3
    BY <1>2, <1>11, ReadConcat, ConcatProperties
<1> HIDE DEF c3, p3
<1>13. c4 \in Seq(Atom) /\ ReadAll(b, c4) = p4
    BY <1>2, <1>12, ReadConcat, ConcatProperties
<1> HIDE DEF c4, p4
<1>14. c5 \in Seq(Atom) /\ ReadAll(b, c5) = p5
    BY <1>2, <1>13, ReadConcat, ConcatProperties
<1> HIDE DEF c5, p5
<1>15. ReadAll(b, c5 \o Path3) = q
    BY <1>2, <1>14, ReadConcat
<1>16. ConnStr(e) = c5 \o Path3
    BY <1>10 DEF c2, c3, c4, c5
<1>17. Opts(e) = Set(q)
    BY <1>9, <1>15, <1>16 DEF Opts, ParseOpts
<1> QED BY <1>9, <1>17

-----------------------------------------------------------------------------
(* The pool.  A request meets each dead connection at most once, for it is *)
(* dropped then: those it has met, holds and can meet are no more than the *)
(* pool keeps, unless the database stopped during the request.             *)
Held(r) == IF r.conn = "dead" THEN 1 ELSE 0

ReqInv(c) ==
    /\ req[c].at = "query" <=> req[c].conn # None
    /\ req[c].conn = "live" => up
    /\ req[c].at # "none" =>
          /\ req[c].status = 0 /\ (up \/ req[c].excused)
          /\ req[c].excused \/ req[c].tries + idle.dead + Held(req[c]) <= MaxIdle

IInv ==
    /\ TypeOK /\ env \in Environments /\ opts = Opts(env)
    /\ idle.live + idle.dead <= MaxIdle /\ \A c \in Client : ReqInv(c)

LEMMA Bounds == MaxIdle \in Nat /\ MaxTries \in Nat /\ MaxTries > MaxIdle /\ MaxOutages \in Nat
                /\ None \notin {"live", "dead"}
BY BoundsAssumption, RetryAssumption, NoneAssumption

LEMMA Start0 == Init => IInv
<1> SUFFICES ASSUME Init PROVE IInv
    OBVIOUS
<1>1. 0 \in 0..MaxTries - 1 /\ outages \in 0..MaxOutages
    BY Bounds DEF Init
<1>2. req \in [Client -> Request]
    BY <1>1 DEF Init, Request
<1>3. idle \in [live : Nat, dead : Nat] /\ idle.live + idle.dead <= MaxIdle /\ idle.live = 0
    BY Bounds DEF Init
<1>4. \A c \in Client : req[c].at = "none" /\ req[c].conn = None
    BY DEF Init
<1>5. TypeOK
    BY <1>1, <1>2, <1>3, <1>4, Bounds DEF Init, TypeOK
<1>6. \A c \in Client : ReqInv(c)
    BY <1>4, Bounds DEF ReqInv
<1> QED BY <1>3, <1>5, <1>6 DEF Init, IInv

(* A request that does not step keeps what holds of it.                    *)
LEMMA Kept ==
    ASSUME TypeOK, NEW d \in Client, ReqInv(d), req'[d] = req[d], up => up',
           idle'.dead \in Nat, idle'.dead <= idle.dead
    PROVE  ReqInv(d)'
<1>1. req[d].tries \in Nat /\ idle.dead \in Nat /\ Held(req[d]) \in Nat
    BY Bounds DEF TypeOK, Request, Held
<1>2. Held(req[d])' = Held(req[d])
    BY DEF Held
<1>3. req[d].tries + idle.dead + Held(req[d]) <= MaxIdle
         => req[d].tries + idle'.dead + Held(req[d]) <= MaxIdle
    BY <1>1, Bounds
<1> QED BY <1>2, <1>3 DEF ReqInv

LEMMA Fields ==
    ASSUME NEW q \in Request
    PROVE  /\ q.at \in {"none", "conn", "query"} /\ q.path \in Path \cup {None}
           /\ q.conn \in {"live", "dead", None} /\ q.tries \in 0..MaxTries - 1
           /\ q.status \in {0, 200, 500} /\ q.excused \in BOOLEAN
BY DEF Request

(* The three ways a request is changed.                                    *)
AsAnswered(q, z) == [q EXCEPT !.at = "none", !.conn = None, !.tries = 0, !.status = z]
AsConnected(q, k) == [q EXCEPT !.at = "query", !.conn = k]
AsTriedAgain(q) == [q EXCEPT !.at = "conn", !.conn = None, !.tries = q.tries + 1]

LEMMA Answered ==
    ASSUME NEW q \in Request, NEW z \in {200, 500}, NEW r,
           r = AsAnswered(q, z)
    PROVE  r \in Request /\ r.at = "none" /\ r.conn = None /\ r.status = z
<1>1. r = [at |-> "none", path |-> q.path, conn |-> None, tries |-> 0, status |-> z, excused |-> q.excused]
    BY DEF Request, AsAnswered
<1>2. 0 \in 0..MaxTries - 1
    BY Bounds
<1>3. q.path \in Path \cup {None} /\ q.excused \in BOOLEAN
    BY Fields
<1> QED BY <1>1, <1>2, <1>3 DEF Request

LEMMA Connected ==
    ASSUME NEW q \in Request, NEW k \in {"live", "dead"}, NEW r,
           r = AsConnected(q, k)
    PROVE  /\ r \in Request /\ r.at = "query" /\ r.conn = k /\ r.tries = q.tries
           /\ r.status = q.status /\ r.excused = q.excused
<1>1. r = [at |-> "query", path |-> q.path, conn |-> k, tries |-> q.tries,
           status |-> q.status, excused |-> q.excused]
    BY DEF Request, AsConnected
<1>2. q.tries \in 0..MaxTries - 1
    BY Fields
<1>3. q.path \in Path \cup {None} /\ q.excused \in BOOLEAN /\ q.status \in {0, 200, 500}
    BY Fields
<1> QED BY <1>1, <1>2, <1>3 DEF Request

LEMMA TriedAgain ==
    ASSUME NEW q \in Request, q.tries + 1 < MaxTries, NEW r,
           r = AsTriedAgain(q)
    PROVE  /\ r \in Request /\ r.at = "conn" /\ r.conn = None /\ r.tries = q.tries + 1
           /\ r.status = q.status /\ r.excused = q.excused
<1>1. r = [at |-> "conn", path |-> q.path, conn |-> None, tries |-> q.tries + 1,
           status |-> q.status, excused |-> q.excused]
    BY DEF Request, AsTriedAgain
<1>2. q.tries + 1 \in 0..MaxTries - 1
    BY Fields, Bounds
<1>3. q.path \in Path \cup {None} /\ q.excused \in BOOLEAN /\ q.status \in {0, 200, 500}
    BY Fields
<1> QED BY <1>1, <1>2, <1>3 DEF Request

LEMMA AnswerStep ==
    ASSUME TypeOK, NEW c \in Client, NEW status \in {200, 500}, Answer(c, status)
    PROVE  /\ req' \in [Client -> Request]
           /\ req'[c].at = "none" /\ req'[c].conn = None /\ req'[c].status = status
           /\ \A d \in Client : d # c => req'[d] = req[d]
<1> DEFINE r == AsAnswered(req[c], status)
<1>1. req[c] \in Request
    BY DEF TypeOK
<1>3. req' = [req EXCEPT ![c] = r]
    BY DEF Answer, AsAnswered
<1>2. r \in Request /\ r.at = "none" /\ r.conn = None /\ r.status = status
    BY <1>1, Answered
<1> HIDE DEF r
<1>4. /\ req' \in [Client -> Request] /\ req'[c] = r
      /\ \A d \in Client : d # c => req'[d] = req[d]
    BY <1>2, <1>3 DEF TypeOK
<1> QED BY <1>2, <1>4

(* What a step of one client has to show.                                  *)
LEMMA ClientStep ==
    ASSUME IInv, NEW c \in Client, ReqInv(c)',
           req' \in [Client -> Request], \A d \in Client : d # c => req'[d] = req[d],
           idle' \in [live : Nat, dead : Nat], idle'.dead <= idle.dead, up \/ idle'.live = 0,
           idle'.live + idle'.dead <= MaxIdle,
           UNCHANGED <<env, opts, started, up, outages, rows>>
    PROVE  IInv'
<1>1. \A d \in Client : ReqInv(d)'
    <2> SUFFICES ASSUME NEW d \in Client, d # c PROVE ReqInv(d)'
        OBVIOUS
    <2>1. TypeOK /\ ReqInv(d) /\ req'[d] = req[d] /\ up' = up /\ idle'.dead \in Nat
        BY DEF IInv
    <2> QED BY <2>1, Kept
<1>2. TypeOK'
    <2>2. started' \in BOOLEAN /\ up' \in BOOLEAN /\ outages' \in 0..MaxOutages
        BY DEF IInv, TypeOK
    <2>3. View' = View
        BY DEF View
    <2>4. rows' \subseteq View'
        BY <2>3 DEF IInv, TypeOK
    <2>5. [Client -> Request]' = [Client -> Request]
        BY DEF Request
    <2>6. idle' \in [live : Nat, dead : Nat] /\ (up' \/ idle'.live = 0) /\ req' \in [Client -> Request]'
        BY <2>5
    <2>7. ASSUME NEW d \in Client
          PROVE  (req'[d].at = "query" <=> req'[d].conn # None) /\ (req'[d].conn = "live" => up')
        <3>1. ReqInv(d)'
            BY <1>1
        <3> QED BY <3>1, Zenon DEF ReqInv
    <2> QED BY <2>2, <2>4, <2>6, <2>7 DEF TypeOK
<1> QED BY <1>1, <1>2 DEF IInv

LEMMA FreeStep ==
    ASSUME TypeOK, idle.live + idle.dead <= MaxIdle, idle' = Free
    PROVE  /\ idle' \in [live : Nat, dead : Nat] /\ idle'.dead = idle.dead
           /\ idle'.live + idle'.dead <= MaxIdle
<1>1. idle \in [live : Nat, dead : Nat] /\ idle.live \in Nat /\ idle.dead \in Nat
    BY DEF TypeOK
<1>2. CASE idle.live + idle.dead < MaxIdle
    <2>1. idle' = [idle EXCEPT !.live = idle.live + 1]
        BY <1>2 DEF Free
    <2>2. idle' \in [live : Nat, dead : Nat] /\ idle'.live = idle.live + 1 /\ idle'.dead = idle.dead
        BY <1>1, <2>1
    <2> QED BY <1>1, <1>2, <2>2, Bounds
<1>3. CASE ~(idle.live + idle.dead < MaxIdle)
    BY <1>1, <1>3 DEF Free
<1> QED BY <1>2, <1>3

LEMMA AskStep == ASSUME IInv, NEW c \in Client, NEW path \in Path, Ask(c, path) PROVE IInv'
<1> DEFINE r == [at |-> IF ViewOf(path) = None THEN "none" ELSE "conn", path |-> path,
                 conn |-> None, tries |-> 0, excused |-> ~up,
                 status |-> IF ViewOf(path) = None THEN 200 ELSE 0]
<1>1. TypeOK /\ idle.dead \in Nat /\ idle.live \in Nat /\ idle.live + idle.dead <= MaxIdle /\ 0 \in 0..MaxTries - 1
    BY Bounds DEF IInv, TypeOK
<1>2. r \in Request
    BY <1>1 DEF Request
<1>3. /\ r.at # "query" /\ r.conn = None /\ r.excused = ~up /\ r.tries = 0
      /\ r.at # "none" => r.status = 0
    OBVIOUS
<1>4. req' = [req EXCEPT ![c] = r] /\ UNCHANGED <<env, opts, started, up, outages, rows, idle>>
    BY DEF Ask
<1> HIDE DEF r
<1>5. /\ req' \in [Client -> Request] /\ req'[c] = r
      /\ \A d \in Client : d # c => req'[d] = req[d]
    BY <1>1, <1>2, <1>4 DEF TypeOK
<1>6. idle.dead <= MaxIdle
    BY <1>1, Bounds
<1>7. ReqInv(c)'
    <2>1. Held(r) = 0
        BY <1>3, Bounds DEF Held
    <2>2. r.tries + idle.dead + Held(r) <= MaxIdle
        BY <1>1, <1>3, <1>6, <2>1, Bounds
    <2>3. up \/ r.excused
        BY <1>3
    <2> QED BY <1>3, <1>4, <1>5, <2>2, <2>3, Bounds DEF ReqInv, Held
<1>8. idle' \in [live : Nat, dead : Nat] /\ idle'.dead <= idle.dead /\ (up \/ idle'.live = 0)
      /\ idle'.live + idle'.dead <= MaxIdle
    BY <1>1, <1>4 DEF TypeOK
<1> QED BY <1>4, <1>5, <1>7, <1>8, ClientStep

LEMMA ConnStep == ASSUME IInv, NEW c \in Client, Conn(c) PROVE IInv'
<1>1. /\ TypeOK /\ idle \in [live : Nat, dead : Nat] /\ idle.dead \in Nat /\ idle.live \in Nat
      /\ idle.live + idle.dead <= MaxIdle /\ req[c] \in Request /\ req[c].tries \in Nat
      /\ ReqInv(c) /\ req[c].at = "conn" /\ UNCHANGED <<env, opts, started, up, outages, rows>>
      /\ (up \/ idle.live = 0)
    BY Bounds DEF IInv, TypeOK, Conn, Request
<1>0. req[c].tries \in Nat /\ idle.dead \in Nat
    BY <1>1
<1>2. /\ req[c].status = 0 /\ (up \/ req[c].excused)
      /\ req[c].excused \/ req[c].tries + idle.dead <= MaxIdle
    <2>1. Held(req[c]) = 0
        BY <1>1, Bounds DEF ReqInv, Held
    <2> QED BY <1>1, <2>1, Bounds DEF ReqInv
<1>3. ASSUME NEW k \in {"live", "dead"}, req' = [req EXCEPT ![c].at = "query", ![c].conn = k]
      PROVE  /\ req' \in [Client -> Request] /\ \A d \in Client : d # c => req'[d] = req[d]
             /\ req'[c].at = "query" /\ req'[c].conn = k /\ req'[c].tries = req[c].tries
             /\ req'[c].status = req[c].status /\ req'[c].excused = req[c].excused
    <2> DEFINE r == AsConnected(req[c], k)
    <2>2. req' = [req EXCEPT ![c] = r]
        BY <1>1, <1>3 DEF TypeOK, AsConnected
    <2>1. /\ r \in Request /\ r.at = "query" /\ r.conn = k /\ r.tries = req[c].tries
          /\ r.status = req[c].status /\ r.excused = req[c].excused
        BY <1>1, Connected
    <2> HIDE DEF r
    <2>3. /\ req' \in [Client -> Request] /\ req'[c] = r
          /\ \A d \in Client : d # c => req'[d] = req[d]
        BY <1>1, <2>1, <2>2 DEF TypeOK
    <2> QED BY <2>1, <2>3
<1>4. ASSUME NEW k \in {"live", "dead"}, idle[k] > 0, idle' = [idle EXCEPT ![k] = @ - 1],
             req' = [req EXCEPT ![c].at = "query", ![c].conn = k]
      PROVE  IInv'
    <2>1. CASE k = "live"
        <3>1. idle' = [idle EXCEPT !.live = idle.live - 1] /\ idle.live > 0
            BY <1>1, <1>4, <2>1
        <3>2. idle' \in [live : Nat, dead : Nat] /\ idle'.live = idle.live - 1 /\ idle'.dead = idle.dead /\ up
            BY <1>1, <3>1
        <3>3. idle'.live + idle'.dead <= MaxIdle /\ idle'.dead <= idle.dead
            BY <1>1, <3>1, <3>2, Bounds
        <3>4. Held(req'[c]) = 0
            BY <1>3, <1>4, <2>1 DEF Held
        <3>5. req[c].tries + idle.dead <= MaxIdle => req'[c].tries + idle'.dead + Held(req'[c]) <= MaxIdle
            <4>1. req'[c].tries = req[c].tries
                BY <1>3, <1>4
            <4> QED BY <1>0, <3>2, <3>4, <4>1, Bounds
        <3>6. ReqInv(c)'
            BY <1>1, <1>2, <1>3, <1>4, <2>1, <3>2, <3>5, Bounds DEF ReqInv, Held
        <3> QED BY <1>1, <1>3, <1>4, <3>2, <3>3, <3>6, ClientStep
    <2>2. CASE k = "dead"
        <3>1. idle' = [idle EXCEPT !.dead = idle.dead - 1] /\ idle.dead > 0
            BY <1>1, <1>4, <2>2
        <3>2. idle' \in [live : Nat, dead : Nat] /\ idle'.live = idle.live /\ idle'.dead = idle.dead - 1
            BY <1>1, <3>1
        <3>3. idle'.live + idle'.dead <= MaxIdle /\ idle'.dead <= idle.dead
            BY <1>1, <3>1, <3>2, Bounds
        <3>4. Held(req'[c]) = 1
            BY <1>3, <1>4, <2>2 DEF Held
        <3>5. req[c].tries + idle.dead <= MaxIdle => req'[c].tries + idle'.dead + Held(req'[c]) <= MaxIdle
            <4>1. req'[c].tries = req[c].tries
                BY <1>3, <1>4
            <4> QED BY <1>0, <3>2, <3>4, <4>1, Bounds
        <3>6. ReqInv(c)'
            BY <1>1, <1>2, <1>3, <1>4, <2>2, <3>2, <3>5, Bounds DEF ReqInv, Held
        <3> QED BY <1>1, <1>3, <1>4, <3>2, <3>3, <3>6, ClientStep
    <2> QED BY <2>1, <2>2
<1>5. ASSUME idle' = idle, up, req' = [req EXCEPT ![c].at = "query", ![c].conn = "live"] PROVE IInv'
    <2>1. Held(req'[c]) = 0
        BY <1>3, <1>5 DEF Held
    <2>2. req[c].tries + idle.dead <= MaxIdle => req'[c].tries + idle'.dead + Held(req'[c]) <= MaxIdle
        <3>1. req'[c].tries = req[c].tries
            BY <1>3, <1>5
        <3> QED BY <1>0, <1>5, <2>1, <3>1, Bounds
    <2>3. ReqInv(c)'
        BY <1>1, <1>2, <1>3, <1>5, <2>2, Bounds DEF ReqInv, Held
    <2>4. idle'.dead <= idle.dead /\ idle'.live + idle'.dead <= MaxIdle
        BY <1>1, <1>5
    <2> QED BY <1>1, <1>3, <1>5, <2>3, <2>4, ClientStep
<1>6. ASSUME idle' = idle, Answer(c, 500) PROVE IInv'
    <2>1. /\ req' \in [Client -> Request] /\ req'[c].at = "none" /\ req'[c].conn = None
          /\ \A d \in Client : d # c => req'[d] = req[d]
        BY <1>1, <1>6, AnswerStep
    <2>2. ReqInv(c)'
        BY <2>1, Bounds DEF ReqInv
    <2>3. idle'.dead <= idle.dead /\ idle'.live + idle'.dead <= MaxIdle
        BY <1>1, <1>6
    <2> QED BY <1>1, <1>6, <2>1, <2>2, <2>3, ClientStep
<1>7. CASE \E k \in {"live", "dead"} :
             /\ idle[k] > 0 /\ idle' = [idle EXCEPT ![k] = @ - 1]
             /\ req' = [req EXCEPT ![c].at = "query", ![c].conn = k]
    BY <1>4, <1>7
<1>8. CASE /\ idle.live + idle.dead = 0 /\ UNCHANGED idle
           /\ IF up /\ Reaches THEN req' = [req EXCEPT ![c].at = "query", ![c].conn = "live"]
              ELSE Answer(c, 500)
    <2>1. CASE up /\ Reaches
        BY <1>5, <1>8, <2>1
    <2>2. CASE ~(up /\ Reaches)
        BY <1>6, <1>8, <2>2
    <2> QED BY <2>1, <2>2
<1> QED BY <1>7, <1>8 DEF Conn

LEMMA QueryStep == ASSUME IInv, NEW c \in Client, Query(c) PROVE IInv'
<1>1. /\ TypeOK /\ idle.live + idle.dead <= MaxIdle /\ ReqInv(c) /\ req[c].conn = "live"
      /\ idle' = Free /\ UNCHANGED <<env, opts, started, up, outages, rows>>
    BY DEF IInv, Query
<1>2. PICK z \in {200, 500} : Answer(c, z)
    BY DEF Query
<1>3. /\ req' \in [Client -> Request] /\ req'[c].at = "none" /\ req'[c].conn = None
      /\ \A d \in Client : d # c => req'[d] = req[d]
    BY <1>1, <1>2, AnswerStep
<1>4. ReqInv(c)'
    BY <1>3, Bounds DEF ReqInv
<1>5. /\ idle' \in [live : Nat, dead : Nat] /\ idle'.dead = idle.dead
      /\ idle'.live + idle'.dead <= MaxIdle
    BY <1>1, FreeStep
<1>6. up
    BY <1>1 DEF ReqInv
<1>7. idle'.dead <= idle.dead
    BY <1>5
<1> QED BY <1>1, <1>3, <1>4, <1>5, <1>6, <1>7, ClientStep

LEMMA QueryDeadStep == ASSUME IInv, NEW c \in Client, QueryDead(c) PROVE IInv'
<1>1. /\ TypeOK /\ idle \in [live : Nat, dead : Nat] /\ idle.dead \in Nat
      /\ idle.live + idle.dead <= MaxIdle /\ req[c] \in Request
      /\ ReqInv(c) /\ req[c].at = "query" /\ req[c].conn = "dead" /\ idle' = idle
      /\ UNCHANGED <<env, opts, started, up, outages, rows>> /\ (up \/ idle.live = 0)
    BY DEF IInv, TypeOK, QueryDead
<1>2. idle'.dead <= idle.dead /\ idle'.live + idle'.dead <= MaxIdle
    BY <1>1
<1>3. ASSUME Answer(c, 500) PROVE IInv'
    <2>1. /\ req' \in [Client -> Request] /\ req'[c].at = "none" /\ req'[c].conn = None
          /\ \A d \in Client : d # c => req'[d] = req[d]
        BY <1>1, <1>3, AnswerStep
    <2>2. ReqInv(c)'
        BY <2>1, Bounds DEF ReqInv
    <2> QED BY <1>1, <1>2, <2>1, <2>2, ClientStep
<1>4. ASSUME req[c].tries + 1 < MaxTries,
             req' = [req EXCEPT ![c].at = "conn", ![c].conn = None, ![c].tries = @ + 1]
      PROVE  IInv'
    <2> DEFINE r == AsTriedAgain(req[c])
    <2>1. req' = [req EXCEPT ![c] = r]
        BY <1>1, <1>4 DEF TypeOK, AsTriedAgain
    <2>2. /\ r \in Request /\ r.at = "conn" /\ r.conn = None /\ r.tries = req[c].tries + 1
          /\ r.status = req[c].status /\ r.excused = req[c].excused
        BY <1>1, <1>4, TriedAgain
    <2> HIDE DEF r
    <2>3. /\ req' \in [Client -> Request] /\ req'[c] = r
          /\ \A d \in Client : d # c => req'[d] = req[d]
        BY <1>1, <2>1, <2>2 DEF TypeOK
    <2>4. Held(req[c]) = 1 /\ Held(r) = 0
        BY <1>1, <2>2, Bounds DEF Held
    <2>5. /\ req[c].status = 0 /\ (up \/ req[c].excused)
          /\ req[c].excused \/ req[c].tries + idle.dead + 1 <= MaxIdle
        BY <1>1, <2>4 DEF ReqInv
    <2>6. req[c].tries \in Nat
        BY <1>1, Fields, Bounds
    <2>7. req[c].tries + idle.dead + 1 <= MaxIdle => r.tries + idle.dead + 0 <= MaxIdle
        BY <1>1, <2>2, <2>6, Bounds
    <2>8. ReqInv(c)'
        BY <1>1, <2>2, <2>3, <2>4, <2>5, <2>7, Bounds DEF ReqInv, Held
    <2> QED BY <1>1, <1>2, <2>3, <2>8, ClientStep
<1> QED BY <1>3, <1>4 DEF QueryDead

(* What a step of no client has to show.                                   *)
LEMMA PoolStep ==
    ASSUME IInv, req' = req, idle' \in [live : Nat, dead : Nat], idle'.dead = idle.dead,
           idle'.live + idle'.dead <= MaxIdle, up => up', up' \/ idle'.live = 0,
           started' \in BOOLEAN, up' \in BOOLEAN, outages' \in 0..MaxOutages, rows' \subseteq View,
           UNCHANGED <<env, opts>>
    PROVE  IInv'
<1>1. \A d \in Client : ReqInv(d)'
    <2> SUFFICES ASSUME NEW d \in Client PROVE ReqInv(d)'
        OBVIOUS
    <2>1. TypeOK /\ ReqInv(d) /\ req'[d] = req[d] /\ idle'.dead \in Nat /\ idle'.dead <= idle.dead
        BY DEF IInv
    <2> QED BY <2>1, Kept
<1>2. TypeOK'
    <2>1. View' = View /\ [Client -> Request]' = [Client -> Request]
        BY DEF View, Request
    <2>2. req' \in [Client -> Request]' /\ rows' \subseteq View'
        BY <2>1 DEF IInv, TypeOK
    <2>3. ASSUME NEW d \in Client
          PROVE  (req'[d].at = "query" <=> req'[d].conn # None) /\ (req'[d].conn = "live" => up')
        <3>1. ReqInv(d)'
            BY <1>1
        <3> QED BY <3>1, Zenon DEF ReqInv
    <2> QED BY <2>2, <2>3 DEF TypeOK
<1> QED BY <1>1, <1>2 DEF IInv

LEMMA StartStep == ASSUME IInv, Start PROVE IInv'
<1>1. /\ TypeOK /\ idle \in [live : Nat, dead : Nat] /\ idle.live + idle.dead <= MaxIdle
      /\ started' \in BOOLEAN /\ up \in BOOLEAN /\ outages \in 0..MaxOutages /\ rows \subseteq View
      /\ UNCHANGED <<env, opts, up, outages, rows, req>> /\ (up \/ idle.live = 0)
    BY DEF IInv, TypeOK, Start
<1>2. CASE up /\ Reaches
    <2>1. idle' = Free
        BY <1>2 DEF Start
    <2>2. /\ idle' \in [live : Nat, dead : Nat] /\ idle'.dead = idle.dead
          /\ idle'.live + idle'.dead <= MaxIdle
        BY <1>1, <2>1, FreeStep
    <2> QED BY <1>1, <1>2, <2>2, PoolStep
<1>3. CASE ~(up /\ Reaches)
    <2>1. idle' = idle
        BY <1>3 DEF Start
    <2> QED BY <1>1, <2>1, PoolStep
<1> QED BY <1>2, <1>3

LEMMA RestartStep == ASSUME IInv, Restart PROVE IInv'
<1>1. /\ idle \in [live : Nat, dead : Nat] /\ idle.live + idle.dead <= MaxIdle /\ started \in BOOLEAN
      /\ up' /\ up' \in BOOLEAN /\ outages \in 0..MaxOutages /\ rows \subseteq View
      /\ UNCHANGED <<env, opts, started, outages, rows, idle, req>>
    BY DEF IInv, TypeOK, Restart
<1> QED BY <1>1, PoolStep

LEMMA ChangeStep == ASSUME IInv, NEW v \in View, Change(v) PROVE IInv'
<1>1. /\ idle \in [live : Nat, dead : Nat] /\ idle.live + idle.dead <= MaxIdle /\ started \in BOOLEAN
      /\ up \in BOOLEAN /\ outages \in 0..MaxOutages /\ rows' \subseteq View /\ (up \/ idle.live = 0)
      /\ UNCHANGED <<env, opts, started, up, outages, idle, req>>
    BY DEF IInv, TypeOK, Change
<1> QED BY <1>1, PoolStep

LEMMA Stuttering == ASSUME IInv, UNCHANGED vars PROVE IInv'
<1>1. /\ idle \in [live : Nat, dead : Nat] /\ idle.live + idle.dead <= MaxIdle /\ started \in BOOLEAN
      /\ up \in BOOLEAN /\ outages \in 0..MaxOutages /\ rows \subseteq View /\ (up \/ idle.live = 0)
      /\ UNCHANGED <<env, opts, started, up, outages, rows, idle, req>>
    BY DEF IInv, TypeOK, vars
<1> QED BY <1>1, PoolStep

(* What an outage makes of a request.                                      *)
AsStopped(q) ==
    [q EXCEPT !.excused = (q.at # "none"), !.conn = IF q.conn = "live" THEN "dead" ELSE q.conn]

LEMMA Stopped ==
    ASSUME NEW q \in Request, NEW r, r = AsStopped(q), q.at = "query" <=> q.conn # None
    PROVE  /\ r \in Request /\ r.at = q.at /\ r.status = q.status /\ r.conn # "live"
           /\ r.excused = (q.at # "none") /\ (r.at = "query" <=> r.conn # None)
<1> DEFINE k == IF q.conn = "live" THEN "dead" ELSE q.conn
           x == (q.at # "none")
<1>1. r = [at |-> q.at, path |-> q.path, conn |-> k, tries |-> q.tries, status |-> q.status, excused |-> x]
    BY DEF Request, AsStopped
<1>2. x \in BOOLEAN
    OBVIOUS
<1>3. k \in {"live", "dead", None} /\ k # "live" /\ (k # None <=> q.conn # None)
    BY Fields, Bounds
<1> HIDE DEF k, x
<1>4. r \in Request
    BY <1>1, <1>2, <1>3, Fields DEF Request
<1>5. r.at = q.at /\ r.status = q.status /\ r.conn = k
    BY <1>1
<1>6. r.excused = x
    BY <1>1
<1> QED BY <1>3, <1>4, <1>5, <1>6 DEF x

LEMMA StopStep == ASSUME IInv, Stop PROVE IInv'
<1>1. /\ TypeOK /\ idle \in [live : Nat, dead : Nat] /\ idle.live \in Nat /\ idle.dead \in Nat
      /\ idle.live + idle.dead <= MaxIdle /\ started \in BOOLEAN /\ outages \in 0..MaxOutages
      /\ rows \subseteq View /\ \A d \in Client : req[d] \in Request /\ ReqInv(d)
    BY DEF IInv, TypeOK
<1>2. /\ UNCHANGED <<env, opts, started, rows>> /\ ~up' /\ up' \in BOOLEAN
      /\ outages' = outages + 1 /\ outages < MaxOutages
    BY DEF Stop
<1>3. idle' \in [live : Nat, dead : Nat] /\ idle'.live = 0 /\ idle'.dead = idle.live + idle.dead
    <2>1. idle' = [live |-> 0, dead |-> idle.live + idle.dead]
        BY DEF Stop
    <2> QED BY <1>1, <2>1
<1>4. req' = [d \in Client |-> AsStopped(req[d])]
    BY DEF Stop, AsStopped
<1>5. ASSUME NEW d \in Client
      PROVE  /\ req'[d] \in Request /\ req'[d].conn # "live"
             /\ req'[d].at = "query" <=> req'[d].conn # None
             /\ req'[d].at # "none" => req'[d].status = 0 /\ req'[d].excused
    <2>1. req'[d] = AsStopped(req[d]) /\ req[d] \in Request
        BY <1>1, <1>4
    <2>2. (req[d].at = "query" <=> req[d].conn # None) /\ (req[d].at # "none" => req[d].status = 0)
        BY <1>1 DEF ReqInv
    <2> QED BY <2>1, <2>2, Stopped
<1>6. \A d \in Client : ReqInv(d)'
    BY <1>5 DEF ReqInv
<1>7. TypeOK'
    <2>1. View' = View /\ [Client -> Request]' = [Client -> Request]
        BY DEF View, Request
    <2>2. req' \in [Client -> Request]' /\ rows' \subseteq View'
        BY <1>1, <1>2, <1>4, <1>5, <2>1
    <2>3. outages' \in 0..MaxOutages
        BY <1>1, <1>2, Bounds
    <2> QED BY <1>1, <1>2, <1>3, <1>5, <2>2, <2>3 DEF TypeOK
<1>8. idle'.live + idle'.dead <= MaxIdle
    BY <1>1, <1>3, Bounds
<1>9. env' \in Environments' /\ opts' = Opts(env)'
    BY <1>2 DEF IInv
<1> QED BY <1>6, <1>7, <1>8, <1>9 DEF IInv

LEMMA Step == IInv /\ [Next]_vars => IInv'
<1> SUFFICES ASSUME IInv, [Next]_vars PROVE IInv'
    OBVIOUS
<1>1. CASE Start
    BY <1>1, StartStep
<1>2. CASE Stop
    BY <1>2, StopStep
<1>3. CASE Restart
    BY <1>3, RestartStep
<1>4. CASE \E v \in View : Change(v)
    BY <1>4, ChangeStep
<1>5. ASSUME NEW c \in Client, Handle(c) PROVE IInv'
    BY <1>5, ConnStep, QueryStep, QueryDeadStep DEF Handle
<1>6. ASSUME NEW c \in Client, NEW path \in Path, Ask(c, path) PROVE IInv'
    BY <1>6, AskStep
<1>7. CASE UNCHANGED vars
    BY <1>7, Stuttering
<1> QED BY <1>1, <1>2, <1>3, <1>4, <1>5, <1>6, <1>7 DEF Next
-----------------------------------------------------------------------------
(* What the options are, for every environment.                            *)
LEMMA OptionsArrive == IInv => OptionsExact
<1> SUFFICES ASSUME IInv, \A o \in DOMAIN env : Unset(env[o]) \/ Plain(env[o])
             PROVE  /\ opts # None /\ opts[None] = None
                    /\ \A o \in DOMAIN env : Plain(env[o]) => opts[o] = env[o]
                    /\ Plain(env["dbname"]) => FindsViews
    BY DEF OptionsExact
<1>1. env \in [Names -> Value] /\ opts = Opts(env)
    BY EnvironmentsAssumption DEF IInv, Names
<1>2. DOMAIN env = Names /\ "dbname" \in Names
    BY <1>1 DEF Names, Option
<1>3. Arrives(env, opts)
    BY <1>1, <1>2, TextArrives
<1>4. opts # None
    BY <1>3, NoneAssumption DEF Arrives
<1> QED BY <1>2, <1>3, <1>4 DEF Arrives, FindsViews

LEMMA AllPlain ==
    ASSUME IInv, \A o \in DOMAIN env : Plain(env[o])
    PROVE  Reaches /\ FindsViews
<1>1. OptionsExact /\ "dbname" \in DOMAIN env
    BY OptionsArrive, EnvironmentsAssumption DEF IInv, Option
<1>2. /\ opts # None /\ opts[None] = None /\ FindsViews
      /\ \A o \in DOMAIN env : opts[o] = env[o]
    BY <1>1 DEF OptionsExact
<1>3. \A o \in DOMAIN env : Getenv(env[o]) = env[o]
    BY DEF Plain, Unset, Getenv
<1> QED BY <1>2, <1>3 DEF Reaches

(* A refused request, as FailuresExplained has it.                         *)
Explained(c) ==
    \/ ViewOf(req[c].path) \notin rows
    \/ req[c].excused
    \/ \E o \in DOMAIN env : ~Plain(env[o])

LEMMA Explain ==
    ASSUME IInv, [Next]_vars, NEW c \in Client, req[c].at # "none", req'[c].status = 500
    PROVE  Explained(c)
<1>1. /\ TypeOK /\ ReqInv(c) /\ req[c] \in Request /\ req[c].status = 0 /\ (up \/ req[c].excused)
      /\ req[c].excused \/ req[c].tries + idle.dead + Held(req[c]) <= MaxIdle
      /\ idle.dead \in Nat /\ req[c].tries \in Nat
    BY Bounds DEF IInv, ReqInv, TypeOK, Request
<1>2. req'[c].status # req[c].status
    BY <1>1
<1>3. CASE Start
    BY <1>2, <1>3 DEF Start
<1>4. CASE Stop
    <2>1. req'[c] = AsStopped(req[c])
        BY <1>4 DEF Stop, AsStopped
    <2> QED BY <1>1, <1>2, <2>1, Stopped DEF ReqInv
<1>5. CASE Restart
    BY <1>2, <1>5 DEF Restart
<1>6. CASE \E v \in View : Change(v)
    BY <1>2, <1>6 DEF Change
<1>7. ASSUME NEW d \in Client, NEW path \in Path, Ask(d, path) PROVE FALSE
    <2>1. d # c
        BY <1>7 DEF Ask
    <2>2. req'[c] = req[c]
        BY <1>1, <1>7, <2>1 DEF Ask, TypeOK
    <2> QED BY <1>2, <2>2
<1>8. ASSUME NEW d \in Client, Handle(d), d # c PROVE FALSE
    <2>1. req'[c] = req[c]
        BY <1>1, <1>8 DEF Handle, Conn, Query, QueryDead, Answer, TypeOK
    <2> QED BY <1>2, <2>1
<1>9. ASSUME Conn(c) PROVE Explained(c)
    <2>1. ASSUME NEW k \in {"live", "dead"}, req' = [req EXCEPT ![c].at = "query", ![c].conn = k]
          PROVE  FALSE
        <3>1. req'[c] = AsConnected(req[c], k)
            BY <1>1, <2>1 DEF AsConnected, TypeOK
        <3>2. req'[c].status = req[c].status
            BY <1>1, <3>1, Connected
        <3> QED BY <1>2, <3>2
    <2>2. ~(up /\ Reaches)
        BY <1>9, <2>1 DEF Conn
    <2>3. CASE ~up
        BY <1>1, <2>3 DEF Explained
    <2>4. CASE ~Reaches
        BY <2>4, AllPlain DEF Explained
    <2> QED BY <2>2, <2>3, <2>4
<1>10. ASSUME Query(c) PROVE Explained(c)
    <2>1. CASE FindsViews /\ ViewOf(req[c].path) \in rows
        <3>1. Answer(c, 200)
            BY <1>10, <2>1 DEF Query
        <3>2. req'[c].status = 200
            BY <1>1, <3>1, AnswerStep
        <3> QED BY <3>2
    <2>2. CASE ~FindsViews
        BY <2>2, AllPlain DEF Explained
    <2>3. CASE ViewOf(req[c].path) \notin rows
        BY <2>3 DEF Explained
    <2> QED BY <2>1, <2>2, <2>3
<1>11. ASSUME QueryDead(c) PROVE Explained(c)
    <2>1. PICK e \in DriverErrors(c) :
             IF e = "ErrBadConn" /\ req[c].tries + 1 < MaxTries
               THEN req' = [req EXCEPT ![c].at = "conn", ![c].conn = None, ![c].tries = @ + 1]
               ELSE Answer(c, 500)
        BY <1>11 DEF QueryDead
    <2>2. CASE req[c].excused
        BY <2>2 DEF Explained
    <2>3. CASE ~req[c].excused
        <3>1. e = "ErrBadConn"
            BY <2>3 DEF DriverErrors
        <3>2. Held(req[c]) = 1
            BY <1>11 DEF QueryDead, Held
        <3>3. req[c].tries + 1 < MaxTries
            BY <1>1, <2>3, <3>2, Bounds
        <3>4. req'[c] = AsTriedAgain(req[c])
            <4>1. req' = [req EXCEPT ![c].at = "conn", ![c].conn = None, ![c].tries = @ + 1]
                BY <2>1, <3>1, <3>3
            <4> QED BY <1>1, <4>1 DEF AsTriedAgain, TypeOK
        <3>5. req'[c].status = req[c].status
            BY <1>1, <3>3, <3>4, TriedAgain
        <3> QED BY <1>2, <3>5
    <2> QED BY <2>2, <2>3
<1>12. CASE UNCHANGED vars
    BY <1>2, <1>12 DEF vars
<1>13. ASSUME NEW d \in Client, Handle(d) PROVE Explained(c)
    BY <1>8, <1>9, <1>10, <1>11, <1>13 DEF Handle
<1> QED BY <1>3, <1>4, <1>5, <1>6, <1>7, <1>12, <1>13 DEF Next

-----------------------------------------------------------------------------
(* What the handlers and the pool start from holds in every state: no      *)
(* request is left without the connection its query needs, no connection   *)
(* counts as live in an outage, no query is tried more often than sql.DB   *)
(* tries it.                                                               *)
THEOREM Invariance == Spec => []IInv
<1>1. Init => IInv
    BY Start0
<1>2. IInv /\ [Next]_vars => IInv'
    BY Step
<1> QED BY <1>1, <1>2, PTL DEF Spec

(* DialOpen's options, in every state and for every environment, be its    *)
(* values of whatever length: if each is unset, empty or plain, parseOpts  *)
(* takes apart what connect put together, each plain value is the option's *)
(* and, unless the name of the database is missing, the views are found.   *)
THEOREM SiteSound == Spec => []SiteInv
<1>1. IInv => SiteInv
    BY OptionsArrive DEF SiteInv, IInv
<1> QED BY <1>1, Invariance, PTL

(* A handler refuses a page for the reasons it should and no other: a      *)
(* connection that died in an outage before the request is tried again     *)
(* with another, and the retries suffice for all the pool can keep.        *)
THEOREM RefusalsExplained == Spec => FailuresExplained
<1>1. IInv /\ [Next]_vars
        => \A c \in Client :
              (req[c].at # "none" /\ req'[c].status = 500) =>
                  \/ ViewOf(req[c].path) \notin rows
                  \/ req[c].excused
                  \/ \E o \in DOMAIN env : ~Plain(env[o])
    BY Explain DEF Explained
<1>2. IInv /\ [Next]_vars
        => [\A c \in Client :
              (req[c].at # "none" /\ req'[c].status = 500) =>
                  \/ ViewOf(req[c].path) \notin rows
                  \/ req[c].excused
                  \/ \E o \in DOMAIN env : ~Plain(env[o])]_vars
    BY <1>1
<1> QED BY <1>2, Invariance, PTL DEF Spec, FailuresExplained
=============================================================================
