-------------------------- MODULE HostQueries_proofs --------------------------
(***************************************************************************)
(* HostQueries, for any panes, scripts, clients and bounds: every variable *)
(* keeps its type, and no output of a program is lost, doubled or          *)
(* reordered on its way to the screen.                                     *)
(*                                                                         *)
(* FlattenSeq is a fold, so its facts are proved by induction.  The        *)
(* induction theorems of the library take an operator; here induction      *)
(* is over sets (Induction, SeqInduction), from the theorem that every     *)
(* set of numbers has a minimum.                                           *)
(***************************************************************************)
EXTENDS HostQueries, WellFoundedInduction, FiniteSetTheorems, SequenceTheorems, TLAPS

(* Numbers and sequences. *)

LEMMA MinExists ==
  ASSUME NEW S \in SUBSET Nat, S # {}
  PROVE  \E n \in S : \A m \in S : n <= m
  <1>1. IsWellFoundedOn(OpToRel(<, Nat), Nat)
    BY NatLessThanWellFounded
  <1>2. \E x \in S : \A y \in S : ~(<<y, x>> \in OpToRel(<, Nat))
    BY <1>1, WFMin
  <1>3. PICK x \in S : \A y \in S : ~(<<y, x>> \in OpToRel(<, Nat))
    BY <1>2
  <1>4. \A y \in S : ~(y < x)
    BY <1>3 DEF OpToRel
  <1>q. QED
    BY <1>4

LEMMA Induction ==
  ASSUME NEW S, 0 \in S, \A n \in Nat : n \in S => n + 1 \in S
  PROVE  Nat \subseteq S
  <1>1. SUFFICES ASSUME Nat \ S # {} PROVE FALSE
    OBVIOUS
  <1>2. PICK n \in Nat \ S : \A m \in Nat \ S : n <= m
    BY <1>1, MinExists
  <1>3. n # 0
    BY <1>2
  <1>4. n - 1 \in Nat /\ ~(n <= n - 1) /\ (n - 1) + 1 = n
    BY <1>3
  <1>5. n - 1 \in S
    BY <1>2, <1>4
  <1>q. QED
    BY <1>2, <1>4, <1>5

LEMMA SeqInduction ==
  ASSUME NEW S, NEW T, <<>> \in T,
         \A s \in Seq(S), x \in S : s \in T => Append(s, x) \in T
  PROVE  Seq(S) \subseteq T
  <1> DEFINE N == {n \in Nat : \A s \in Seq(S) : Len(s) = n => s \in T}
  <1>1. 0 \in N
    OBVIOUS
  <1>2. ASSUME NEW n \in Nat, n \in N PROVE n + 1 \in N
    <2>1. ASSUME NEW s \in Seq(S), Len(s) = n + 1 PROVE s \in T
      <3>1. PICK r \in Seq(S), x \in S : s = Append(r, x)
        <4>1. s # <<>>
          BY <2>1
        <4>q. QED
          BY <4>1, SequenceEmptyOrAppend
      <3>2. Len(r) = n
        BY <2>1, <3>1
      <3>q. QED
        BY <1>2, <3>1, <3>2
    <2>q. QED
      BY <2>1
  <1>3. Nat \subseteq N
    <2> HIDE DEF N
    <2>q. QED
      BY <1>1, <1>2, Induction
  <1>q. QED
    BY <1>3

LEMMA SplitAt ==
  ASSUME NEW S, NEW s \in Seq(S), NEW n \in 0 .. Len(s)
  PROVE  /\ SubSeq(s, 1, n) \in Seq(S) /\ SubSeq(s, n + 1, Len(s)) \in Seq(S)
         /\ SubSeq(s, 1, n) \o SubSeq(s, n + 1, Len(s)) = s
         /\ n = 0 => SubSeq(s, 1, n) = <<>> /\ SubSeq(s, n + 1, Len(s)) = s
         /\ n = Len(s) => SubSeq(s, n + 1, Len(s)) = <<>>
  <1>1. Len(s) \in Nat
    OBVIOUS
  <1>2. SubSeq(s, 1, n) \in Seq(S) /\ SubSeq(s, n + 1, Len(s)) \in Seq(S)
    OBVIOUS
  <1>3. SubSeq(s, 1, n) \o SubSeq(s, n + 1, Len(s)) = s
    <2>1. 1 \in 1 .. Len(s) + 1 /\ n \in 1 - 1 .. Len(s) /\ Len(s) \in n .. Len(s)
      BY <1>1
    <2>2. SubSeq(s, 1, n) \o SubSeq(s, n + 1, Len(s)) = SubSeq(s, 1, Len(s))
      BY <2>1, ConcatAdjacentSubSeq
    <2>q. QED
      BY <2>2, SubSeqFull
  <1>4. n = 0 => SubSeq(s, 1, n) = <<>> /\ SubSeq(s, n + 1, Len(s)) = s
    BY <1>1
  <1>5. n = Len(s) => SubSeq(s, n + 1, Len(s)) = <<>>
    BY <1>1
  <1>q. QED
    BY <1>2, <1>3, <1>4, <1>5

\* Sequences flattened
Flattens(f, s, n) ==
  f = [i \in 1 .. n |-> IF i = 1 THEN s[i] ELSE f[i - 1] \o s[i]]

LEMMA FlattensUnique ==
  ASSUME NEW s, NEW m \in Nat, NEW n \in Nat, m <= n, NEW f, NEW g,
         Flattens(f, s, m), Flattens(g, s, n)
  PROVE  \A i \in 1 .. m : f[i] = g[i]
  <1> DEFINE N == {i \in Nat : i \in 1 .. m => f[i] = g[i]}
  <1>1. 0 \in N
    OBVIOUS
  <1>2. ASSUME NEW i \in Nat, i \in N PROVE i + 1 \in N
    <2>1. CASE i + 1 \in 1 .. m
      <3>1. i + 1 \in 1 .. n /\ (i + 1) - 1 = i /\ (i = 0 \/ i \in 1 .. m)
        BY <2>1
      <3>2. f[i + 1] = IF i + 1 = 1 THEN s[i + 1] ELSE f[(i + 1) - 1] \o s[i + 1]
        BY <2>1 DEF Flattens
      <3>3. g[i + 1] = IF i + 1 = 1 THEN s[i + 1] ELSE g[(i + 1) - 1] \o s[i + 1]
        BY <3>1 DEF Flattens
      <3>4. i = 0 \/ f[i] = g[i]
        BY <1>2, <3>1
      <3>q. QED
        BY <3>1, <3>2, <3>3, <3>4
    <2>q. QED
      BY <2>1
  <1>3. Nat \subseteq N
    <2> HIDE DEF N
    <2>q. QED
      BY <1>1, <1>2, Induction
  <1>q. QED
    BY <1>3

LEMMA FlattensExists ==
  ASSUME NEW s
  PROVE  \A n \in Nat : \E f : Flattens(f, s, n)
  <1> DEFINE N == {n \in Nat : \E f : Flattens(f, s, n)}
  <1>1. 0 \in N
    <2> DEFINE f == [i \in 1 .. 0 |-> 0]
    <2>1. Flattens(f, s, 0)
      BY DEF Flattens
    <2>q. QED
      BY <2>1
  <1>2. ASSUME NEW n \in Nat, n \in N PROVE n + 1 \in N
    <2>1. PICK f : Flattens(f, s, n)
      BY <1>2
    <2> DEFINE x == IF n = 0 THEN s[1] ELSE f[n] \o s[n + 1]
               g == [i \in 1 .. n + 1 |-> IF i = n + 1 THEN x ELSE f[i]]
    <2>2. ASSUME NEW i \in 1 .. n + 1
          PROVE  g[i] = IF i = 1 THEN s[i] ELSE g[i - 1] \o s[i]
      <3>1. CASE i = n + 1
        <4>1. g[i] = x
          BY <3>1
        <4>2. n # 0 => g[i - 1] = f[n]
          BY <3>1
        <4>q. QED
          BY <3>1, <4>1, <4>2
      <3>2. CASE i # n + 1
        <4>1. i \in 1 .. n /\ g[i] = f[i]
          BY <3>2
        <4>2. i # 1 => i - 1 \in 1 .. n + 1 /\ i - 1 # n + 1 /\ g[i - 1] = f[i - 1]
          BY <4>1
        <4>3. f[i] = IF i = 1 THEN s[i] ELSE f[i - 1] \o s[i]
          BY <2>1, <4>1 DEF Flattens
        <4> HIDE DEF g
        <4>q. QED
          BY <4>1, <4>2, <4>3
      <3>q. QED
        BY <3>1, <3>2
    <2>3. Flattens(g, s, n + 1)
      <3>1. g = [i \in 1 .. n + 1 |-> g[i]]
        OBVIOUS
      <3> HIDE DEF g
      <3>q. QED
        BY <2>2, <3>1 DEF Flattens
    <2>q. QED
      BY <2>3
  <1>3. Nat \subseteq N
    <2> HIDE DEF N
    <2>q. QED
      BY <1>1, <1>2, Induction
  <1>q. QED
    BY <1>3

LEMMA FlattenIs ==
  ASSUME NEW s, Len(s) \in Nat, Len(s) # 0, NEW f, Flattens(f, s, Len(s))
  PROVE  FlattenSeq(s) = f[Len(s)]
  <1> DEFINE F == CHOOSE g : g = [i \in 1 .. Len(s) |-> IF i = 1 THEN s[i] ELSE g[i - 1] \o s[i]]
  <1>1. FlattenSeq(s) = F[Len(s)]
    BY DEF FlattenSeq
  <1>2. Flattens(F, s, Len(s))
    <2>1. f = [i \in 1 .. Len(s) |-> IF i = 1 THEN s[i] ELSE f[i - 1] \o s[i]]
      BY DEF Flattens
    <2>2. F = [i \in 1 .. Len(s) |-> IF i = 1 THEN s[i] ELSE F[i - 1] \o s[i]]
      BY <2>1
    <2>q. QED
      BY <2>2 DEF Flattens
  <1> HIDE DEF F
  <1>3. \A i \in 1 .. Len(s) : F[i] = f[i]
    BY <1>2, FlattensUnique
  <1>4. Len(s) \in 1 .. Len(s)
    OBVIOUS
  <1>q. QED
    BY <1>1, <1>3, <1>4

LEMMA FlattenAppend ==
  ASSUME NEW S, NEW s \in Seq(Seq(S)), NEW x \in Seq(S)
  PROVE  FlattenSeq(Append(s, x)) = FlattenSeq(s) \o x
  <1> DEFINE t == Append(s, x)
  <1>1. Len(t) = Len(s) + 1 /\ Len(s) \in Nat /\ t[Len(s) + 1] = x
        /\ \A i \in 1 .. Len(s) : t[i] = s[i]
    OBVIOUS
  <1> HIDE DEF t
  <1>20. Len(t) \in Nat
    BY <1>1
  <1>2. PICK f : Flattens(f, t, Len(t))
    BY <1>20, FlattensExists
  <1>3. FlattenSeq(t) = f[Len(s) + 1]
    BY <1>1, <1>2, FlattenIs
  <1>4. CASE Len(s) = 0
    <2>1. s = <<>>
      BY <1>4
    <2>2. FlattenSeq(s) = <<>>
      BY <2>1, <1>4 DEF FlattenSeq
    <2>3. f[1] = t[1]
      BY <1>1, <1>2, <1>4 DEF Flattens
    <2>4. <<>> \o x = x
      OBVIOUS
    <2>q. QED
      BY <1>1, <1>3, <1>4, <2>2, <2>3, <2>4 DEF t
  <1>5. CASE Len(s) # 0
    <2>0. Len(s) + 1 \in 1 .. Len(t) /\ Len(s) + 1 # 1
      BY <1>1, <1>5
    <2>1. f[Len(s) + 1] = f[(Len(s) + 1) - 1] \o t[Len(s) + 1]
      BY <2>0, <1>2 DEF Flattens
    <2>2. (Len(s) + 1) - 1 = Len(s)
      BY <1>1
    <2>3. PICK g : Flattens(g, s, Len(s))
      BY <1>1, FlattensExists
    <2>4. FlattenSeq(s) = g[Len(s)]
      BY <1>1, <1>5, <2>3, FlattenIs
    <2>5. Flattens(g, t, Len(s))
      <3>1. g = [i \in 1 .. Len(s) |-> IF i = 1 THEN s[i] ELSE g[i - 1] \o s[i]]
        BY <2>3 DEF Flattens
      <3>2. \A i \in 1 .. Len(s) : s[i] = t[i]
        BY <1>1
      <3>3. [i \in 1 .. Len(s) |-> IF i = 1 THEN s[i] ELSE g[i - 1] \o s[i]]
              = [i \in 1 .. Len(s) |-> IF i = 1 THEN t[i] ELSE g[i - 1] \o t[i]]
        BY <3>2
      <3>q. QED
        BY <3>1, <3>3 DEF Flattens
    <2>6. Len(s) \in 1 .. Len(s) /\ Len(s) <= Len(t) /\ Len(t) \in Nat
      BY <1>1, <1>5
    <2>7. g[Len(s)] = f[Len(s)]
      BY <1>1, <1>2, <2>5, <2>6, FlattensUnique
    <2>q. QED
      BY <1>1, <1>3, <2>1, <2>2, <2>4, <2>7 DEF t
  <1>q. QED
    BY <1>4, <1>5

LEMMA FlattenEmpty == FlattenSeq(<<>>) = <<>>
  BY DEF FlattenSeq

LEMMA FlattenType ==
  ASSUME NEW S, NEW s \in Seq(Seq(S))
  PROVE  FlattenSeq(s) \in Seq(S)
  <1> DEFINE T == {t \in Seq(Seq(S)) : FlattenSeq(t) \in Seq(S)}
  <1>1. <<>> \in T
    <2>1. <<>> \in Seq(Seq(S)) /\ <<>> \in Seq(S)
      OBVIOUS
    <2>2. FlattenSeq(<<>>) \in Seq(S)
      BY ONLY <2>1, FlattenEmpty
    <2>q. QED
      BY ONLY <2>1, <2>2, Zenon
  <1>2. ASSUME NEW t \in Seq(Seq(S)), NEW x \in Seq(S), t \in T
        PROVE  Append(t, x) \in T
    <2>1. FlattenSeq(Append(t, x)) = FlattenSeq(t) \o x
      BY FlattenAppend
    <2>2. FlattenSeq(t) \in Seq(S)
      BY ONLY <1>2, Zenon
    <2>3. FlattenSeq(t) \o x \in Seq(S)
      BY <2>2
    <2>4. Append(t, x) \in Seq(Seq(S))
      OBVIOUS
    <2>q. QED
      BY ONLY <2>1, <2>3, <2>4, Zenon
  <1>3. Seq(Seq(S)) \subseteq T
    <2> HIDE DEF T
    <2>q. QED
      BY <1>1, <1>2, SeqInduction
  <1>q. QED
    BY <1>3

LEMMA Associative ==
  ASSUME NEW S, NEW a \in Seq(S), NEW b \in Seq(S), NEW c \in Seq(S)
  PROVE  (a \o b) \o c = a \o (b \o c)
  <1> DEFINE x == (a \o b) \o c
             y == a \o (b \o c)
  <1>1. /\ x \in Seq(S) /\ y \in Seq(S)
        /\ Len(x) = Len(a) + Len(b) + Len(c) /\ Len(y) = Len(x)
    OBVIOUS
  <1>2. ASSUME NEW i \in 1 .. Len(x) PROVE x[i] = y[i]
    OBVIOUS
  <1> HIDE DEF x, y
  <1>3. x = y
    BY <1>1, <1>2, SeqEqual
  <1>q. QED
    BY <1>3 DEF x, y

LEMMA ConcatAppend ==
  ASSUME NEW S, NEW s \in Seq(S), NEW t \in Seq(S), NEW x \in S
  PROVE  s \o Append(t, x) = Append(s \o t, x)
  OBVIOUS

\* Associativity, for the provers in one piece
AllIn(S, a, b, x) == a \in Seq(S) /\ b \in Seq(S) /\ x \in Seq(S)
Joins(a, b, x, f, g, h) == f = a \o b /\ g = b \o x /\ h = f \o x

LEMMA JoinsAgree ==
  ASSUME NEW S, NEW a, NEW b, NEW x, NEW f, NEW g, NEW h,
         AllIn(S, a, b, x), Joins(a, b, x, f, g, h)
  PROVE  h = a \o g
  BY Associative, SMTT(30) DEF AllIn, Joins

LEMMA FlattenConcat ==
  ASSUME NEW S, NEW s \in Seq(Seq(S)), NEW t \in Seq(Seq(S))
  PROVE  FlattenSeq(s \o t) = FlattenSeq(s) \o FlattenSeq(t)
  <1> DEFINE T == {u \in Seq(Seq(S)) : FlattenSeq(s \o u) = FlattenSeq(s) \o FlattenSeq(u)}
  <1>1. <<>> \in T
    <2>1. s \o <<>> = s /\ FlattenSeq(s) \o <<>> = FlattenSeq(s)
      BY FlattenType
    <2>2. <<>> \in Seq(Seq(S))
      OBVIOUS
    <2>q. QED
      BY ONLY <2>1, <2>2, FlattenEmpty, Zenon
  <1>2. ASSUME NEW u \in Seq(Seq(S)), NEW x \in Seq(S), u \in T
        PROVE  Append(u, x) \in T
    <2>0. s \in Seq(Seq(S)) /\ u \in Seq(Seq(S))
      OBVIOUS
    <2>1. s \o Append(u, x) = Append(s \o u, x)
      BY ONLY <2>0, x \in Seq(S), ConcatAppend, SMTT(30)
    <2>2. s \o u \in Seq(Seq(S))
      BY SMTT(30)
    <2>3. FlattenSeq(Append(s \o u, x)) = FlattenSeq(s \o u) \o x
      BY <2>2, FlattenAppend
    <2>4. FlattenSeq(Append(u, x)) = FlattenSeq(u) \o x
      BY FlattenAppend
    <2>5. FlattenSeq(s) \in Seq(S) /\ FlattenSeq(u) \in Seq(S)
      BY FlattenType
    <2>6. (FlattenSeq(s) \o FlattenSeq(u)) \o x = FlattenSeq(s) \o (FlattenSeq(u) \o x)
      <3> DEFINE a == FlattenSeq(s)
                 b == FlattenSeq(u)
      <3>1. a \in Seq(S) /\ b \in Seq(S) /\ x \in Seq(S)
        BY <2>5
      <3> HIDE DEF T, a, b
      <3>2. (a \o b) \o x = a \o (b \o x)
        <4> DEFINE f == a \o b
                   g == b \o x
                   h == f \o x
        <4>1. AllIn(S, a, b, x) /\ Joins(a, b, x, f, g, h)
          BY <3>1 DEF AllIn, Joins
        <4> HIDE DEF f, g, h
        <4>2. h = a \o g
          BY ONLY <4>1, JoinsAgree, Zenon
        <4>q. QED
          BY <4>2 DEF f, g, h
      <3>q. QED
        BY ONLY <3>2, Zenon DEF a, b
    <2>7. FlattenSeq(s \o u) = FlattenSeq(s) \o FlattenSeq(u)
      BY ONLY <1>2, Zenon
    <2>8. Append(u, x) \in Seq(Seq(S))
      OBVIOUS
    <2>9. FlattenSeq(s \o Append(u, x)) = FlattenSeq(s) \o FlattenSeq(Append(u, x))
      BY ONLY <2>1, <2>3, <2>4, <2>6, <2>7, Zenon
    <2>q. QED
      BY ONLY <2>8, <2>9, Zenon
  <1>3. Seq(Seq(S)) \subseteq T
    <2> HIDE DEF T
    <2>q. QED
      BY <1>1, <1>2, SeqInduction
  <1>q. QED
    BY <1>3

LEMMA FlattenOne ==
  ASSUME NEW S, NEW x \in Seq(S)
  PROVE  FlattenSeq(<<x>>) = x
  <1>1. <<x>> = Append(<<>>, x) /\ <<>> \in Seq(Seq(S)) /\ <<>> \o x = x
    OBVIOUS
  <1>q. QED
    BY <1>1, FlattenAppend, FlattenEmpty

LEMMA MapType ==
  ASSUME NEW S, NEW T, NEW s \in Seq(S), NEW f, \A i \in 1 .. Len(s) : f[i] \in T,
         f = [i \in 1 .. Len(s) |-> f[i]]
  PROVE  f \in Seq(T) /\ Len(f) = Len(s)
  <1>1. Len(s) \in Nat /\ f \in [1 .. Len(s) -> T]
    OBVIOUS
  <1>q. QED
    BY <1>1, SeqDef

LEMMA FlattenNone ==
  ASSUME NEW S, NEW s \in Seq(Seq(S)), \A i \in 1 .. Len(s) : s[i] = <<>>
  PROVE  FlattenSeq(s) = <<>>
  <1> DEFINE T == {t \in Seq(Seq(S)) : (\A i \in 1 .. Len(t) : t[i] = <<>>) => FlattenSeq(t) = <<>>}
  <1>1. <<>> \in T
    <2>1. <<>> \in Seq(Seq(S))
      OBVIOUS
    <2>q. QED
      BY ONLY <2>1, FlattenEmpty, Zenon
  <1>2. ASSUME NEW t \in Seq(Seq(S)), NEW x \in Seq(S), t \in T
        PROVE  Append(t, x) \in T
    <2>1. ASSUME \A i \in 1 .. Len(Append(t, x)) : Append(t, x)[i] = <<>>
          PROVE  FlattenSeq(Append(t, x)) = <<>>
      <3>1. Len(Append(t, x)) = Len(t) + 1 /\ Len(t) \in Nat /\ Append(t, x)[Len(t) + 1] = x
            /\ \A i \in 1 .. Len(t) : Append(t, x)[i] = t[i]
        OBVIOUS
      <3>2. x = <<>> /\ \A i \in 1 .. Len(t) : t[i] = <<>>
        BY <2>1, <3>1
      <3>3. FlattenSeq(t) = <<>>
        BY ONLY <1>2, <3>2, Zenon
      <3>4. <<>> \o <<>> = <<>>
        OBVIOUS
      <3>q. QED
        BY <3>2, <3>3, <3>4, FlattenAppend
    <2>2. Append(t, x) \in Seq(Seq(S))
      OBVIOUS
    <2>q. QED
      BY ONLY <2>1, <2>2, Zenon
  <1>3. Seq(Seq(S)) \subseteq T
    <2> HIDE DEF T
    <2>q. QED
      BY <1>1, <1>2, SeqInduction
  <1>q. QED
    BY <1>3

\* What the elements of a sequence are mapped to, put together.
FlatMap(g, s) == FlattenSeq([i \in 1 .. Len(s) |-> g[s[i]]])
Maps(g, S, T) == g \in [S -> Seq(T)]

LEMMA FlatMapMap ==
  ASSUME NEW S, NEW T, NEW g, NEW s \in Seq(S), \A i \in 1 .. Len(s) : g[s[i]] \in Seq(T)
  PROVE  [i \in 1 .. Len(s) |-> g[s[i]]] \in Seq(Seq(T))
  <1> DEFINE f == [i \in 1 .. Len(s) |-> g[s[i]]]
  <1>1. \A i \in 1 .. Len(s) : f[i] \in Seq(T)
    OBVIOUS
  <1>2. f = [i \in 1 .. Len(s) |-> f[i]]
    OBVIOUS
  <1> HIDE DEF f
  <1>3. f \in Seq(Seq(T))
    BY <1>1, <1>2, MapType
  <1>q. QED
    BY <1>3 DEF f

LEMMA FlatMapType ==
  ASSUME NEW S, NEW T, NEW g, NEW s \in Seq(S), \A i \in 1 .. Len(s) : g[s[i]] \in Seq(T)
  PROVE  FlatMap(g, s) \in Seq(T)
  BY FlatMapMap, FlattenType DEF FlatMap

LEMMA FlatMapConcat ==
  ASSUME NEW S, NEW T, NEW g, Maps(g, S, T), NEW s \in Seq(S),
         NEW t \in Seq(S)
  PROVE  FlatMap(g, s \o t) = FlatMap(g, s) \o FlatMap(g, t)
  <1> DEFINE f(u) == [i \in 1 .. Len(u) |-> g[u[i]]]
  <1>1. ASSUME NEW u \in Seq(S) PROVE f(u) \in Seq(Seq(T)) /\ Len(f(u)) = Len(u)
    <2>1. \A i \in 1 .. Len(u) : g[u[i]] \in Seq(T)
      BY DEF Maps
    <2>2. f(u) \in Seq(Seq(T))
      BY <2>1, FlatMapMap
    <2>q. QED
      BY <2>2
  <1>2. s \o t \in Seq(S) /\ Len(s \o t) = Len(s) + Len(t) /\ Len(s) \in Nat /\ Len(t) \in Nat
    OBVIOUS
  <1>3. f(s \o t) = f(s) \o f(t)
    <2>1. f(s) \in Seq(Seq(T)) /\ Len(f(s)) = Len(s) /\ f(t) \in Seq(Seq(T)) /\ Len(f(t)) = Len(t)
          /\ f(s \o t) \in Seq(Seq(T)) /\ Len(f(s \o t)) = Len(s) + Len(t)
      BY <1>1, <1>2
    <2>2. /\ \A i \in 1 .. Len(s) : f(s)[i] = g[s[i]]
          /\ \A i \in 1 .. Len(t) : f(t)[i] = g[t[i]]
          /\ \A i \in 1 .. Len(s) + Len(t) : f(s \o t)[i] = g[(s \o t)[i]]
      BY <1>2
    <2> DEFINE x == f(s)
               y == f(t)
               z == f(s \o t)
    <2>3. /\ x \in Seq(Seq(T)) /\ Len(x) = Len(s) /\ y \in Seq(Seq(T)) /\ Len(y) = Len(t)
          /\ z \in Seq(Seq(T)) /\ Len(z) = Len(s) + Len(t)
          /\ \A i \in 1 .. Len(s) : x[i] = g[s[i]]
          /\ \A i \in 1 .. Len(t) : y[i] = g[t[i]]
          /\ \A i \in 1 .. Len(s) + Len(t) : z[i] = g[(s \o t)[i]]
      BY <2>1, <2>2
    <2> HIDE DEF x, y, z
    <2>4. x \o y \in Seq(Seq(T)) /\ Len(x \o y) = Len(s) + Len(t)
          /\ \A i \in 1 .. Len(s) + Len(t) :
               (x \o y)[i] = IF i <= Len(s) THEN x[i] ELSE y[i - Len(s)]
      <3> DEFINE U == Seq(T)
      <3>1. x \in Seq(U) /\ y \in Seq(U)
        BY <2>3
      <3> HIDE DEF U
      <3>2. x \o y \in Seq(U)
        BY <3>1
      <3>3. Len(x \o y) = Len(x) + Len(y)
        BY <3>1
      <3>4. \A i \in 1 .. Len(x) + Len(y) :
              (x \o y)[i] = IF i <= Len(x) THEN x[i] ELSE y[i - Len(x)]
        BY <3>1
      <3>q. QED
        BY <2>3, <3>2, <3>3, <3>4 DEF U
    <2>5. ASSUME NEW i \in 1 .. Len(s) + Len(t) PROVE z[i] = (x \o y)[i]
      <3>1. (s \o t)[i] = IF i <= Len(s) THEN s[i] ELSE t[i - Len(s)]
        BY <1>2
      <3>2. CASE i <= Len(s)
        <4>1. i \in 1 .. Len(s)
          BY <1>2, <3>2
        <4>q. QED
          BY <2>3, <2>4, <3>1, <3>2, <4>1, ZenonT(40)
      <3>3. CASE ~(i <= Len(s))
        <4>1. i - Len(s) \in 1 .. Len(t)
          BY <1>2, <3>3
        <4>q. QED
          BY <2>3, <2>4, <3>1, <3>3, <4>1
      <3>q. QED
        BY <3>2, <3>3
    <2>6. z = x \o y
      BY <2>3, <2>4, <2>5, SeqEqual
    <2>q. QED
      BY <2>6 DEF x, y, z
  <1>4. FlattenSeq(f(s) \o f(t)) = FlattenSeq(f(s)) \o FlattenSeq(f(t))
    <2>1. f(s) \in Seq(Seq(T)) /\ f(t) \in Seq(Seq(T))
      BY <1>1
    <2> HIDE DEF f
    <2>q. QED
      BY <2>1, FlattenConcat
  <1>q. QED
    BY <1>3, <1>4, Zenon DEF FlatMap

LEMMA FlatMapOne ==
  ASSUME NEW S, NEW T, NEW g, Maps(g, S, T), NEW x \in S
  PROVE  FlatMap(g, <<x>>) = g[x]
  <1>1. [i \in 1 .. Len(<<x>>) |-> g[<<x>>[i]]] = <<g[x]>> /\ g[x] \in Seq(T)
    BY DEF Maps
  <1>q. QED
    BY <1>1, FlattenOne DEF FlatMap

LEMMA FlatMapNone ==
  ASSUME NEW S, NEW T, NEW g, NEW s \in Seq(S), \A i \in 1 .. Len(s) : g[s[i]] = <<>>
  PROVE  FlatMap(g, s) = <<>>
  <1> DEFINE f == [i \in 1 .. Len(s) |-> g[s[i]]]
  <1>1. f \in Seq(Seq(T))
    <2>0. <<>> \in Seq(T)
      OBVIOUS
    <2>1. \A i \in 1 .. Len(s) : g[s[i]] \in Seq(T)
      BY <2>0
    <2>q. QED
      BY <2>1, FlatMapMap
  <1>2. Len(f) = Len(s) /\ \A i \in 1 .. Len(s) : f[i] = <<>>
    OBVIOUS
  <1> HIDE DEF f
  <1>3. FlattenSeq(f) = <<>>
    BY <1>1, <1>2, FlattenNone
  <1>q. QED
    BY <1>3 DEF f, FlatMap

LEMMA FlatMapHead ==
  ASSUME NEW S, NEW T, NEW g, Maps(g, S, T), NEW s \in Seq(S), s # <<>>
  PROVE  FlatMap(g, s) = g[Head(s)] \o FlatMap(g, Tail(s))
  <1>1. Head(s) \in S /\ Tail(s) \in Seq(S) /\ <<Head(s)>> \in Seq(S)
        /\ s = <<Head(s)>> \o Tail(s)
    OBVIOUS
  <1> DEFINE h == <<Head(s)>>
             r == Tail(s)
  <1>4. h \in Seq(S) /\ r \in Seq(S)
    BY <1>1
  <1>2. FlatMap(g, h \o r) = FlatMap(g, h) \o FlatMap(g, r)
    <2> HIDE DEF h, r
    <2>q. QED
      BY <1>4, FlatMapConcat
  <1>3. FlatMap(g, <<Head(s)>>) = g[Head(s)]
    BY <1>1, FlatMapOne
  <1>q. QED
    BY <1>1, <1>2, <1>3

-----------------------------------------------------------------------------
(* The types. *)

Writes == [to : Panes, units : Seq(Units)]
\* The forwards that have a token.
Asked == [token : 1 .. nextToken, query : Units]
\* A slot, and what a terminal has been asked.
Slots == [token : Nat, answers : Seq(Units)]
Questions == [token : Nat, query : Units, barrier : BOOLEAN]
Requests == [what : {"forward"}, to : Asked] \cup [what : {"remove"}, client : Clients]

WriterTypes ==
  /\ open \subseteq Panes /\ writer \in Seq(Writes)
  /\ pending \in [Panes -> Seq(Units)] /\ received \in [Panes -> Seq(Units)]
  /\ \A t \in Panes : Len(pending[t]) <= MaxPending
PaneTypes ==
  /\ script \in [Panes -> Seq(Seq(Kinds))] /\ printed \in [Panes -> Seq(Kinds)]
  /\ shown \in [Panes -> Items] /\ buffered \in [Panes -> Items]
  /\ paused \subseteq Panes /\ scrolled \subseteq Panes
  /\ held \in [Panes -> Seq(Items)]
InboxTypes == inbox \in Seq(Messages)
ForwardTypes ==
  /\ nextToken \in Nat \ {0} /\ timers \subseteq 1 .. nextToken
  /\ forward \in Seq(Asked) /\ Len(forward) <= 1
  /\ waiting \in Seq(Asked) /\ (forward = <<>> => waiting = <<>>)
ServerTypes ==
  /\ server \in Seq(Requests) /\ clients \subseteq Clients
  /\ owner \subseteq (1 .. nextToken) \X Clients
ClientTypes ==
  /\ kind \in [Clients -> {"none", "terminal", "web", "old"}]
  /\ inbound \in [Clients -> Seq(Forwards)]
  /\ slot \in [Clients -> Seq(Slots)]
  /\ \A c \in Clients : Len(slot[c]) <= 1
  /\ host \in [Clients -> Seq(Questions)]
  /\ outbound \in [Clients -> Seq(Outbound)]
HistoryTypes == surprised \in BOOLEAN /\ disturbed \subseteq Panes /\ troubles \in Nat

TypeInv ==
  /\ WriterTypes /\ PaneTypes /\ InboxTypes /\ ForwardTypes
  /\ ServerTypes /\ ClientTypes /\ HistoryTypes

LEMMA ForwardedType ==
  ASSUME NEW p \in Panes, NEW item \in Nat
  PROVE  Forwarded(p, item) \in Seq(Units)
  <1>1. Query(p, item, 1) \in Units /\ Query(p, item, 2) \in Units
    BY DEF Query, Units
  <1>q. QED
    BY <1>1 DEF Forwarded

LEMMA ParsedIs ==
  ASSUME NEW p \in Panes, NEW items \in Items
  PROVE  /\ Parsed(p, items, TRUE) = 0
         /\ Parsed(p, items, FALSE) \in 0 .. Len(items)
         /\ \/ Parsed(p, items, FALSE) = Len(items)
            \/ /\ Parsed(p, items, FALSE) \in 1 .. Len(items)
               /\ Forwarded(p, items[Parsed(p, items, FALSE)]) # <<>>
         /\ \A i \in 1 .. Len(items) :
              i < Parsed(p, items, FALSE) => Forwarded(p, items[i]) = <<>>
  <1> DEFINE S == Stops(p, items) \cup {Len(items)}
  <1>1. Len(items) \in Nat
    BY DEF Items
  <1>2. S \in SUBSET Nat /\ S # {} /\ S \subseteq 0 .. Len(items) /\ Len(items) \in S
    BY <1>1 DEF Stops
  <1>3. Min(S) \in S /\ \A m \in S : Min(S) <= m
    <2> HIDE DEF S
    <2>q. QED
      BY <1>2, MinExists DEF Min
  <1>4. Parsed(p, items, TRUE) = 0 /\ Parsed(p, items, FALSE) = Min(S)
    BY DEF Parsed
  <1>5. Min(S) \in Stops(p, items) \/ Min(S) = Len(items)
    BY <1>3
  <1>6. ASSUME NEW i \in 1 .. Len(items), i < Min(S) PROVE Forwarded(p, items[i]) = <<>>
    <2>1. i \notin S
      <3> HIDE DEF S
      <3>0. Min(S) \in Nat
        BY <1>2, <1>3, Zenon
      <3>1. Min(S) \in Nat /\ i \in Nat
        BY <1>1, <3>0
      <3>2. i < Min(S)
        BY <1>6
      <3>3. i \in S => Min(S) <= i
        BY <1>3
      <3>q. QED
        BY <3>1, <3>2, <3>3
    <2>q. QED
      BY <2>1 DEF Stops
  <1> HIDE DEF S
  <1>q. QED
    BY <1>2, <1>3, <1>4, <1>5, <1>6 DEF Stops

LEMMA AnswersType ==
  ASSUME NEW p \in Panes, NEW items \in Items
  PROVE  Answers(p, items) \in Seq(Writes)
  <1> DEFINE f == [i \in 1 .. Len(items) |-> Answer(p, items[i])]
  <1>1. ASSUME NEW i \in 1 .. Len(items) PROVE f[i] \in Seq(Writes)
    <2>1. Query(p, items[i], 1) \in Units
      BY DEF Query, Units, Items
    <2> DEFINE u == Query(p, items[i], 1)
    <2> HIDE DEF u
    <2>2. <<u>> \in Seq(Units) /\ <<u>> # <<>>
      BY <2>1 DEF u
    <2>3. [to |-> p, units |-> <<u>>] \in Writes
      BY <2>2 DEF Writes
    <2>4. WriteTo(p, <<u>>) = <<[to |-> p, units |-> <<u>>]>>
      BY <2>2, Zenon DEF WriteTo
    <2>5. f[i] = IF KindOf(p, items[i]) = "sync" THEN WriteTo(p, <<u>>) ELSE <<>>
      BY DEF Answer, u
    <2>6. <<[to |-> p, units |-> <<u>>]>> \in Seq(Writes) /\ <<>> \in Seq(Writes)
      BY <2>3
    <2> HIDE DEF f
    <2>q. QED
      BY <2>4, <2>5, <2>6, Zenon
  <1>2. f = [i \in 1 .. Len(items) |-> f[i]]
    OBVIOUS
  <1>3. Answers(p, items) = FlattenSeq(f)
    BY DEF Answers
  <1>4. f \in Seq(Seq(Writes))
    <2> HIDE DEF f
    <2>q. QED
      BY <1>1, <1>2, MapType DEF Items
  <1> HIDE DEF f
  <1>q. QED
    BY <1>3, <1>4, FlattenType

LEMMA DrainTypes ==
  ASSUME WriterTypes, NEW queue \in [Panes -> Seq(Units)],
         \A t \in Panes : Len(queue[t]) <= MaxPending, Drain(queue)
  PROVE  /\ pending' \in [Panes -> Seq(Units)] /\ received' \in [Panes -> Seq(Units)]
         /\ \A t \in Panes : Len(pending'[t]) <= MaxPending
  <1>1. PICK n \in [open -> 0 .. MaxPending] :
          /\ \A t \in open : n[t] <= Len(queue[t])
          /\ received' = [t \in Panes |->
               IF t \in open THEN received[t] \o SubSeq(queue[t], 1, n[t])
               ELSE received[t]]
          /\ pending' = [t \in Panes |->
               IF t \in open THEN SubSeq(queue[t], n[t] + 1, Len(queue[t])) ELSE <<>>]
    BY DEF Drain
  <1>2. ASSUME NEW t \in Panes
        PROVE  received'[t] \in Seq(Units) /\ pending'[t] \in Seq(Units)
               /\ Len(pending'[t]) <= MaxPending
    <2>1. CASE t \in open
      <3> DEFINE k == n[t]
                 q == queue[t]
      <3>1. k \in 0 .. MaxPending /\ q \in Seq(Units) /\ k <= Len(q) /\ Len(q) <= MaxPending
        BY <1>1, <2>1
      <3>2. received'[t] = received[t] \o SubSeq(q, 1, k)
            /\ pending'[t] = SubSeq(q, k + 1, Len(q))
        BY <1>1, <2>1
      <3>3. received[t] \in Seq(Units)
        BY DEF WriterTypes
      <3> HIDE DEF k, q
      <3>4. SubSeq(q, 1, k) \in Seq(Units) /\ SubSeq(q, k + 1, Len(q)) \in Seq(Units)
            /\ Len(SubSeq(q, k + 1, Len(q))) = Len(q) - k
        BY <3>1, PendingAssumption
      <3>q. QED
        BY <3>1, <3>2, <3>3, <3>4, PendingAssumption
    <2>2. CASE t \notin open
      BY <1>1, <2>2, PendingAssumption DEF WriterTypes
    <2>q. QED
      BY <2>1, <2>2
  <1>3. pending' = [t \in Panes |-> pending'[t]] /\ received' = [t \in Panes |-> received'[t]]
    BY <1>1
  <1>q. QED
    BY <1>2, <1>3

LEMMA WriteToType ==
  ASSUME NEW p \in Panes, NEW answers \in Seq(Units)
  PROVE  WriteTo(p, answers) \in Seq(Writes)
  <1>1. [to |-> p, units |-> answers] \in Writes
    BY DEF Writes
  <1>2. <<[to |-> p, units |-> answers]>> \in Seq(Writes) /\ <<>> \in Seq(Writes)
    BY <1>1
  <1>q. QED
    BY <1>2, Zenon DEF WriteTo

\* The questions of one item become messages of the Screen thread.
Asks(p, item) ==
  [k \in 1 .. Len(Forwarded(p, item)) |->
     [what |-> "query", mode |-> KindOf(p, item) = "mode", query |-> Forwarded(p, item)[k]]]

LEMMA AsksType ==
  ASSUME NEW p \in Panes, NEW item \in Nat
  PROVE  Asks(p, item) \in Seq(Messages)
  <1> DEFINE q == Forwarded(p, item)
             mode == KindOf(p, item) = "mode"
             ask(k) == [what |-> "query", mode |-> mode, query |-> q[k]]
             f == [k \in 1 .. Len(q) |-> ask(k)]
  <1>1. q \in Seq(Units)
    BY ForwardedType
  <1>2. mode \in BOOLEAN
    BY Zenon
  <1>3. Asks(p, item) = f
    BY Zenon DEF Asks
  <1> HIDE DEF q, mode
  <1>4. ASSUME NEW k \in 1 .. Len(q) PROVE ask(k) \in Messages
    BY <1>1, <1>2 DEF Messages
  <1>5. f \in Seq(Messages)
    <2> HIDE DEF ask
    <2>1. \A k \in 1 .. Len(q) : f[k] \in Messages
      BY <1>4
    <2>2. f = [k \in 1 .. Len(q) |-> f[k]]
      OBVIOUS
    <2> HIDE DEF f
    <2>q. QED
      BY <1>1, <2>1, <2>2, MapType
  <1>q. QED
    BY <1>3, <1>5

\* What Process does, with the number of items it parses.
Did(p, items, b, kept, answers, rest, n) ==
  /\ b => n = 0
  /\ ~b => n = Len(items) \/ (n # 0 /\ Forwarded(p, items[n]) # <<>>)
  /\ \A i \in 1 .. Len(items) : i < n => Forwarded(p, items[i]) = <<>>
  /\ shown' = [shown EXCEPT ![p] = @ \o SubSeq(items, 1, n)]
  /\ buffered' = [buffered EXCEPT ![p] = kept \o SubSeq(items, n + 1, Len(items))]
  /\ paused' = IF b \/ (n # 0 /\ Forwarded(p, items[n]) # <<>>)
               THEN paused \cup {p} ELSE paused \ {p}
  /\ writer' = writer \o WriteTo(p, answers) \o Answers(p, SubSeq(items, 1, n))
  /\ inbox' = rest \o (IF n = 0 THEN <<>> ELSE Asks(p, items[n]))

LEMMA ProcessIs ==
  ASSUME NEW p \in Panes, NEW items \in Items, NEW b \in BOOLEAN, NEW kept, NEW answers,
         NEW rest, Process(p, items, b, kept, answers, rest)
  PROVE  \E n \in 0 .. Len(items) : Did(p, items, b, kept, answers, rest, n)
  <1> DEFINE n == Parsed(p, items, b)
             queries == IF n = 0 THEN <<>> ELSE Forwarded(p, items[n])
  <1>1. n \in 0 .. Len(items) /\ (b => n = 0)
        /\ (~b => n = Len(items) \/ (n # 0 /\ Forwarded(p, items[n]) # <<>>))
        /\ \A i \in 1 .. Len(items) : i < n => Forwarded(p, items[i]) = <<>>
    <2>1. Len(items) \in Nat
      BY DEF Items
    <2>2. CASE b = TRUE
      <3>1. n = 0
        BY <2>2, ParsedIs
      <3> HIDE DEF n
      <3>q. QED
        BY <2>1, <2>2, <3>1
    <2>3. CASE b = FALSE
      <3> DEFINE m == Parsed(p, items, FALSE)
      <3>1. n = m
        BY <2>3, Zenon
      <3>2. /\ m \in 0 .. Len(items)
            /\ m = Len(items) \/ (m \in 1 .. Len(items) /\ Forwarded(p, items[m]) # <<>>)
            /\ \A i \in 1 .. Len(items) : i < m => Forwarded(p, items[i]) = <<>>
        BY ParsedIs
      <3> HIDE DEF m
      <3>3. m \in 1 .. Len(items) => m # 0
        BY <2>1
      <3>q. QED
        BY <2>3, <3>1, <3>2, <3>3, Zenon
    <2>q. QED
      BY <2>2, <2>3
  <1>2. /\ shown' = [shown EXCEPT ![p] = @ \o SubSeq(items, 1, n)]
        /\ buffered' = [buffered EXCEPT ![p] = kept \o SubSeq(items, n + 1, Len(items))]
        /\ paused' = IF b \/ queries # <<>> THEN paused \cup {p} ELSE paused \ {p}
        /\ writer' = writer \o WriteTo(p, answers) \o Answers(p, SubSeq(items, 1, n))
        /\ inbox' = rest \o [k \in 1 .. Len(queries) |->
             [what |-> "query", mode |-> KindOf(p, items[n]) = "mode", query |-> queries[k]]]
    BY Zenon DEF Process
  <1> HIDE DEF n
  <1>3. [k \in 1 .. Len(queries) |->
          [what |-> "query", mode |-> KindOf(p, items[n]) = "mode", query |-> queries[k]]]
          = IF n = 0 THEN <<>> ELSE Asks(p, items[n])
    <2>1. CASE n = 0
      <3>1. queries = <<>>
        BY <2>1
      <3>q. QED
        BY <2>1, <3>1
    <2>2. CASE n # 0
      <3>1. queries = Forwarded(p, items[n])
        BY <2>2
      <3>q. QED
        BY <2>2, <3>1, Zenon DEF Asks
    <2>q. QED
      BY <2>1, <2>2
  <1>4. queries # <<>> <=> n # 0 /\ Forwarded(p, items[n]) # <<>>
    OBVIOUS
  <1>5. paused' = IF b \/ (n # 0 /\ Forwarded(p, items[n]) # <<>>)
                  THEN paused \cup {p} ELSE paused \ {p}
    BY <1>2, <1>4, Zenon
  <1>6. inbox' = rest \o (IF n = 0 THEN <<>> ELSE Asks(p, items[n]))
    BY <1>2, <1>3, Zenon
  <1>q. QED
    BY <1>1, <1>2, <1>5, <1>6, Zenon DEF Did

LEMMA ProcessTypes ==
  ASSUME NEW p \in Panes, NEW items \in Items, NEW b \in BOOLEAN, NEW kept \in Items,
         NEW answers \in Seq(Units), NEW rest \in Seq(Messages),
         shown \in [Panes -> Items], buffered \in [Panes -> Items],
         paused \subseteq Panes, writer \in Seq(Writes),
         Process(p, items, b, kept, answers, rest)
  PROVE  /\ shown' \in [Panes -> Items] /\ buffered' \in [Panes -> Items]
         /\ paused' \subseteq Panes /\ writer' \in Seq(Writes) /\ inbox' \in Seq(Messages)
  <1>0. PICK n \in 0 .. Len(items) : Did(p, items, b, kept, answers, rest, n)
    BY ProcessIs, Zenon
  <1>1. /\ shown' = [shown EXCEPT ![p] = @ \o SubSeq(items, 1, n)]
        /\ buffered' = [buffered EXCEPT ![p] = kept \o SubSeq(items, n + 1, Len(items))]
        /\ paused' \subseteq paused \cup {p}
        /\ writer' = writer \o WriteTo(p, answers) \o Answers(p, SubSeq(items, 1, n))
        /\ inbox' = rest \o (IF n = 0 THEN <<>> ELSE Asks(p, items[n]))
    BY <1>0 DEF Did
  <1>2. Len(items) \in Nat /\ SubSeq(items, 1, n) \in Items
        /\ SubSeq(items, n + 1, Len(items)) \in Items
    BY SMTT(30) DEF Items
  <1>3. shown' \in [Panes -> Items] /\ buffered' \in [Panes -> Items]
    <2>1. shown[p] \o SubSeq(items, 1, n) \in Items
          /\ kept \o SubSeq(items, n + 1, Len(items)) \in Items
      <3>1. shown[p] \in Items
        OBVIOUS
      <3>q. QED
        BY <1>2, <3>1 DEF Items
    <2>q. QED
      BY <1>1, <2>1
  <1>4. writer' \in Seq(Writes)
    BY <1>1, <1>2, WriteToType, AnswersType
  <1>5. (IF n = 0 THEN <<>> ELSE Asks(p, items[n])) \in Seq(Messages)
    <2>1. n # 0 => items[n] \in Nat
      BY <1>2 DEF Items
    <2>2. n # 0 => Asks(p, items[n]) \in Seq(Messages)
      BY <2>1, AsksType
    <2>q. QED
      BY <2>2
  <1>6. inbox' \in Seq(Messages)
    BY <1>1, <1>5
  <1>q. QED
    BY <1>1, <1>3, <1>4, <1>6

-----------------------------------------------------------------------------
(* Every step keeps the types. *)

LEMMA KeptTypes ==
  ASSUME TypeInv
  PROVE  /\ UNCHANGED <<open, writerVars>> => WriterTypes'
         /\ UNCHANGED paneVars => PaneTypes'
         /\ UNCHANGED inbox => InboxTypes'
         /\ UNCHANGED forwardVars => ForwardTypes'
         /\ UNCHANGED <<serverVars, nextToken>> => ServerTypes'
         /\ UNCHANGED clientVars => ClientTypes'
         /\ UNCHANGED history => HistoryTypes'
  <1>1. UNCHANGED <<open, writerVars>> => WriterTypes'
    BY DEF TypeInv, WriterTypes, writerVars, queueVars
  <1>2. UNCHANGED paneVars => PaneTypes'
    BY DEF TypeInv, PaneTypes, paneVars
  <1>3. UNCHANGED inbox => InboxTypes'
    BY DEF TypeInv, InboxTypes
  <1>4. UNCHANGED forwardVars => ForwardTypes'
    BY DEF TypeInv, ForwardTypes, forwardVars, Asked
  <1>5. UNCHANGED <<serverVars, nextToken>> => ServerTypes'
    BY DEF TypeInv, ServerTypes, serverVars, Requests, Asked
  <1>6. UNCHANGED clientVars => ClientTypes'
    BY DEF TypeInv, ClientTypes, clientVars
  <1>7. UNCHANGED history => HistoryTypes'
    BY DEF TypeInv, HistoryTypes, history
  <1>q. QED
    BY <1>1, <1>2, <1>3, <1>4, <1>5, <1>6, <1>7

LEMMA InitTypes == Init => TypeInv
  <1> SUFFICES ASSUME Init PROVE TypeInv
    OBVIOUS
  <1>1. WriterTypes
    BY PendingAssumption DEF Init, WriterInit, WriterTypes
  <1>2. PaneTypes
    <2>1. script \in [Panes -> Seq(Seq(Kinds))]
      BY ScriptsAssumption DEF Init
    <2>q. QED
      BY <2>1 DEF Init, WriterInit, PaneTypes, Items
  <1>3. InboxTypes /\ ForwardTypes /\ ServerTypes
    BY DEF Init, InboxTypes, ForwardTypes, ServerTypes
  <1>4. ClientTypes
    BY DEF Init, ClientTypes
  <1>5. HistoryTypes
    BY DEF Init, HistoryTypes
  <1>q. QED
    BY <1>1, <1>2, <1>3, <1>4, <1>5 DEF TypeInv

LEMMA PrintsTypes ==
  ASSUME TypeInv, NEW p \in Panes, Prints(p)
  PROVE  TypeInv'
  <1> DEFINE chunk == Head(script[p])
             items == [i \in 1 .. Len(chunk) |-> Len(printed[p]) + i]
  <1>1. chunk \in Seq(Kinds) /\ Tail(script[p]) \in Seq(Seq(Kinds))
    BY DEF Prints, TypeInv, PaneTypes
  <1>2. items \in Items
    <2>1. printed[p] \in Seq(Kinds) /\ Len(printed[p]) \in Nat
      BY DEF TypeInv, PaneTypes
    <2> HIDE DEF chunk
    <2>2. \A i \in 1 .. Len(chunk) : items[i] \in Nat
      BY <1>1, <2>1
    <2>3. items = [i \in 1 .. Len(chunk) |-> items[i]]
      OBVIOUS
    <2> HIDE DEF items
    <2>q. QED
      BY <1>1, <2>2, <2>3, MapType DEF Items
  <1>3. /\ printed' = [printed EXCEPT ![p] = @ \o chunk]
        /\ inbox' = Append(inbox, [what |-> "bytes", pane |-> p, items |-> items])
        /\ script' = [script EXCEPT ![p] = Tail(@)]
    BY DEF Prints
  <1>4. UNCHANGED <<writerVars, open, shown, buffered, paused, scrolled, held,
                    forwardVars, serverVars, clientVars, history>>
    BY DEF Prints
  <1>5. InboxTypes'
    <2> HIDE DEF items
    <2>q. QED
      BY <1>2, <1>3 DEF TypeInv, InboxTypes, Messages
  <1> HIDE DEF items
  <1>6. PaneTypes'
    BY <1>1, <1>3, <1>4 DEF TypeInv, PaneTypes
  <1>q. QED
    BY <1>4, <1>5, <1>6, KeptTypes DEF TypeInv, forwardVars

\* The trouble that a command, a timer or a late answer makes.
LEMMA TroubleType ==
  ASSUME HistoryTypes, NEW n \in Nat, Trouble(n)
  PROVE  troubles' \in Nat
  BY DEF HistoryTypes, Trouble

LEMMA CommandTypes ==
  ASSUME TypeInv, Command
  PROVE  /\ UNCHANGED <<pending, received, script, printed, surprised>>
         /\ ForwardTypes' /\ ServerTypes' /\ ClientTypes' /\ troubles' \in Nat
  <1>1. UNCHANGED <<queueVars, script, printed, surprised, forwardVars, serverVars,
                    clientVars>> /\ Trouble(1)
    BY DEF Command
  <1>2. troubles' \in Nat
    BY <1>1, TroubleType DEF TypeInv
  <1>q. QED
    BY <1>1, <1>2, KeptTypes DEF queueVars, forwardVars

\* What a step that parses output leaves of the types.
LEMMA ParsingTypes ==
  ASSUME TypeInv, NEW p \in Panes, NEW items \in Items, NEW b \in BOOLEAN,
         NEW kept \in Items, NEW answers \in Seq(Units), NEW rest \in Seq(Messages),
         Process(p, items, b, kept, answers, rest),
         UNCHANGED <<pending, received, script, printed, open>>,
         scrolled' \subseteq Panes, held' \in [Panes -> Seq(Items)]
  PROVE  WriterTypes' /\ PaneTypes' /\ InboxTypes'
  <1>1. /\ shown' \in [Panes -> Items] /\ buffered' \in [Panes -> Items]
        /\ paused' \subseteq Panes /\ writer' \in Seq(Writes) /\ inbox' \in Seq(Messages)
    BY ProcessTypes DEF TypeInv, PaneTypes, WriterTypes
  <1>q. QED
    BY <1>1 DEF TypeInv, PaneTypes, WriterTypes, InboxTypes

LEMMA ResumeTypes ==
  ASSUME TypeInv, NEW p \in Panes, NEW answers \in Seq(Units), NEW rest \in Seq(Messages),
         Resume(p, answers, rest),
         UNCHANGED <<pending, received, script, printed, open, scrolled, held>>
  PROVE  WriterTypes' /\ PaneTypes' /\ InboxTypes'
  <1>1. CASE p \in open
    <2>1. Process(p, buffered[p], FALSE, <<>>, answers, rest)
      BY <1>1, Zenon DEF Resume
    <2>2. buffered[p] \in Items /\ <<>> \in Items /\ FALSE \in BOOLEAN
      BY DEF TypeInv, PaneTypes, Items
    <2>3. scrolled' \subseteq Panes /\ held' \in [Panes -> Seq(Items)]
      BY DEF TypeInv, PaneTypes
    <2>q. QED
      BY <2>1, <2>2, <2>3, ParsingTypes, Zenon
  <1>2. CASE p \notin open
    <2>1. writer' = writer \o WriteTo(p, answers) /\ inbox' = rest
          /\ UNCHANGED <<shown, buffered, paused>>
      BY <1>2 DEF Resume
    <2>q. QED
      BY <2>1, WriteToType DEF TypeInv, WriterTypes, PaneTypes, InboxTypes
  <1>q. QED
    BY <1>1, <1>2

LEMMA InboxHead ==
  ASSUME TypeInv, inbox # <<>>
  PROVE  Head(inbox) \in Messages /\ Tail(inbox) \in Seq(Messages)
  BY DEF TypeInv, InboxTypes

LEMMA PtyBytesTypes ==
  ASSUME TypeInv, HandlePtyBytes
  PROVE  TypeInv'
  <1> DEFINE p == Head(inbox).pane
             items == Head(inbox).items
             chunks == Append(held[p], items)
  <1>1. UNCHANGED <<queueVars, script, printed, open, forwardVars, serverVars,
                    clientVars, history>>
    BY DEF HandlePtyBytes
  <1>2. p \in Panes /\ items \in Items /\ Tail(inbox) \in Seq(Messages)
    BY InboxHead DEF HandlePtyBytes, Messages
  <1>3. chunks \in Seq(Items) /\ FlattenSeq(chunks) \in Items /\ buffered[p] \in Items
        /\ <<>> \in Seq(Units) /\ Len(chunks) \in Nat
    <2>1. held[p] \in Seq(Items) /\ buffered[p] \in Items
      BY <1>2 DEF TypeInv, PaneTypes
    <2> HIDE DEF p, items
    <2>2. chunks \in Seq(Items)
      BY <1>2, <2>1
    <2>3. FlattenSeq(chunks) \in Items
      <3> HIDE DEF chunks
      <3>q. QED
        BY <2>2, FlattenType DEF Items
    <2>q. QED
      BY <2>1, <2>2, <2>3
  <1>4. \/ /\ inbox' = Tail(inbox)
           /\ UNCHANGED <<shown, buffered, paused, scrolled, held, writer>>
        \/ /\ held' = [held EXCEPT ![p] = chunks]
           /\ inbox' = Tail(inbox)
           /\ UNCHANGED <<shown, buffered, paused, scrolled, writer>>
        \/ /\ held' = [held EXCEPT ![p] = <<>>]
           /\ scrolled' = scrolled \ {p}
           /\ Process(p, FlattenSeq(chunks), p \in paused, buffered[p], <<>>, Tail(inbox))
        \/ /\ Process(p, items, p \in paused, buffered[p], <<>>, Tail(inbox))
           /\ UNCHANGED <<scrolled, held>>
    <2>1. p \notin open \/ (p \in open \cap scrolled /\ Len(chunks) < MaxHeld)
          \/ (p \in open \cap scrolled /\ Len(chunks) >= MaxHeld) \/ p \in open \ scrolled
      <3> HIDE DEF chunks
      <3>q. QED
        BY <1>3, HeldAssumption
    <2>q. QED
      BY <2>1, Zenon DEF HandlePtyBytes
  <1> HIDE DEF p, items, chunks
  <1>5. (p \in paused) \in BOOLEAN
    OBVIOUS
  <1>6. WriterTypes' /\ PaneTypes' /\ InboxTypes'
    <2>1. CASE /\ inbox' = Tail(inbox)
               /\ UNCHANGED <<shown, buffered, paused, scrolled, held, writer>>
      BY <1>1, <1>2, <2>1 DEF TypeInv, WriterTypes, PaneTypes, InboxTypes, queueVars
    <2>2. CASE /\ held' = [held EXCEPT ![p] = chunks]
               /\ inbox' = Tail(inbox)
               /\ UNCHANGED <<shown, buffered, paused, scrolled, writer>>
      BY <1>1, <1>2, <1>3, <2>2 DEF TypeInv, WriterTypes, PaneTypes, InboxTypes, queueVars
    <2>3. CASE /\ held' = [held EXCEPT ![p] = <<>>]
               /\ scrolled' = scrolled \ {p}
               /\ Process(p, FlattenSeq(chunks), p \in paused, buffered[p], <<>>, Tail(inbox))
      <3>0. <<>> \in Seq(Items) /\ held \in [Panes -> Seq(Items)] /\ scrolled \subseteq Panes
        BY DEF TypeInv, PaneTypes
      <3>1. scrolled' \subseteq Panes /\ held' \in [Panes -> Seq(Items)]
        BY <2>3, <3>0
      <3>2. UNCHANGED <<pending, received, script, printed, open>>
        BY <1>1 DEF queueVars
      <3>q. QED
        BY <1>2, <1>3, <1>5, <2>3, <3>1, <3>2, ParsingTypes, Zenon
    <2>4. CASE /\ Process(p, items, p \in paused, buffered[p], <<>>, Tail(inbox))
               /\ UNCHANGED <<scrolled, held>>
      <3>1. scrolled' \subseteq Panes /\ held' \in [Panes -> Seq(Items)]
        BY <2>4 DEF TypeInv, PaneTypes
      <3>2. UNCHANGED <<pending, received, script, printed, open>>
        BY <1>1 DEF queueVars
      <3>q. QED
        BY <1>2, <1>3, <1>5, <2>4, <3>1, <3>2, ParsingTypes, Zenon
    <2>q. QED
      BY <1>4, <2>1, <2>2, <2>3, <2>4
  <1>q. QED
    BY <1>1, <1>6, KeptTypes DEF TypeInv, forwardVars

LEMMA CommandsTypes ==
  ASSUME TypeInv, NEW p \in Panes,
         \/ ScrollUp(p) \/ ScrollTerminalDown(p) \/ MoveToTab(p) \/ ClosePane(p)
  PROVE  TypeInv'
  <1>1. Command
    BY DEF ScrollUp, ScrollTerminalDown, MoveToTab, ClosePane
  <1>2. /\ writer' = writer /\ inbox' = inbox /\ shown' = shown
        /\ open' \subseteq open /\ paused' \subseteq paused
        /\ scrolled' \subseteq scrolled \cup {p}
        /\ disturbed' \subseteq disturbed \cup {p}
        /\ (held' = held \/ held' = [held EXCEPT ![p] = <<>>])
        /\ (buffered' = buffered \/ buffered' = [buffered EXCEPT ![p] = <<>>])
    BY DEF ScrollUp, ScrollTerminalDown, MoveToTab, ClosePane, Disturb
  <1>3. UNCHANGED <<pending, received, script, printed, surprised>>
        /\ ForwardTypes' /\ ServerTypes' /\ ClientTypes' /\ troubles' \in Nat
    BY <1>1, CommandTypes
  <1>4. WriterTypes'
    BY <1>2, <1>3 DEF TypeInv, WriterTypes
  <1>5. PaneTypes'
    <2>1. <<>> \in Seq(Items) /\ <<>> \in Items
      BY DEF Items
    <2>q. QED
      BY <1>2, <1>3, <2>1 DEF TypeInv, PaneTypes
  <1>6. InboxTypes' /\ HistoryTypes'
    BY <1>2, <1>3 DEF TypeInv, InboxTypes, HistoryTypes
  <1>q. QED
    BY <1>3, <1>4, <1>5, <1>6 DEF TypeInv

LEMMA ScrollToBottomTypes ==
  ASSUME TypeInv, NEW p \in Panes, ScrollToBottom(p)
  PROVE  TypeInv'
  <1>1. /\ Process(p, FlattenSeq(held[p]), p \in paused, buffered[p], <<>>, inbox)
        /\ UNCHANGED <<open, disturbed>> /\ scrolled' = scrolled \ {p}
        /\ held' = [held EXCEPT ![p] = <<>>] /\ Command
    BY DEF ScrollToBottom
  <1>2. /\ held[p] \in Seq(Items) /\ buffered[p] \in Items /\ <<>> \in Seq(Units)
        /\ <<>> \in Seq(Items) /\ (p \in paused) \in BOOLEAN /\ inbox \in Seq(Messages)
    BY DEF TypeInv, PaneTypes, InboxTypes
  <1>3. FlattenSeq(held[p]) \in Items
    BY <1>2, FlattenType DEF Items
  <1>4. UNCHANGED <<pending, received, script, printed, surprised>>
        /\ ForwardTypes' /\ ServerTypes' /\ ClientTypes' /\ troubles' \in Nat
    BY <1>1, CommandTypes
  <1>5. scrolled' \subseteq Panes /\ held' \in [Panes -> Seq(Items)]
    BY <1>1, <1>2 DEF TypeInv, PaneTypes
  <1>6. UNCHANGED <<pending, received, script, printed, open>>
    BY <1>1, <1>4
  <1>7. WriterTypes' /\ PaneTypes' /\ InboxTypes'
    BY <1>1, <1>2, <1>3, <1>5, <1>6, ParsingTypes, Zenon
  <1>8. HistoryTypes'
    BY <1>1, <1>4 DEF TypeInv, HistoryTypes
  <1>q. QED
    BY <1>4, <1>7, <1>8 DEF TypeInv

\* Tokens are only added.
LEMMA MoreAsked ==
  ASSUME TypeInv, nextToken' = nextToken + 1
  PROVE  \A s \in Seq(Asked) : s \in Seq(Asked')
  <1>1. Asked \subseteq Asked'
    BY DEF TypeInv, ForwardTypes, Asked
  <1>q. QED
    BY <1>1, SeqMonotonic

LEMMA ForwardHostQueryTypes ==
  ASSUME TypeInv, ForwardHostQuery
  PROVE  TypeInv'
  <1> DEFINE f == [token |-> nextToken, query |-> Head(inbox).query]
  <1>1. /\ nextToken' = nextToken + 1
        /\ inbox' = Tail(inbox)
        /\ UNCHANGED <<writerVars, paneVars, clients, owner, clientVars, history>>
        /\ IF forward # <<>>
           THEN /\ waiting' = Append(waiting, f)
                /\ UNCHANGED <<forward, server, timers>>
           ELSE /\ Dispatch(f)
                /\ UNCHANGED waiting
    BY Zenon DEF ForwardHostQuery
  <1>2. Head(inbox) \in Messages /\ Head(inbox).what = "query" /\ Tail(inbox) \in Seq(Messages)
    BY InboxHead DEF ForwardHostQuery
  <1>3. Head(inbox).query \in Units
    BY <1>2 DEF Messages
  <1>4. nextToken \in Nat \ {0} /\ 1 .. nextToken \subseteq 1 .. nextToken'
        /\ nextToken \in 1 .. nextToken'
    BY <1>1 DEF TypeInv, ForwardTypes
  <1>5. f \in Asked'
    BY <1>3, <1>4 DEF Asked
  <1>6. Requests \subseteq Requests'
    BY <1>4 DEF Requests, Asked
  <1>7. server \in Seq(Requests')
    BY <1>6, SeqMonotonic DEF TypeInv, ServerTypes
  <1>8. forward \in Seq(Asked') /\ waiting \in Seq(Asked')
    BY <1>1, MoreAsked DEF TypeInv, ForwardTypes
  <1> HIDE DEF f
  <1>9. [what |-> "forward", to |-> f] \in Requests'
    BY <1>5 DEF Requests
  <1>10. /\ forward' \in Seq(Asked') /\ Len(forward') <= 1
         /\ waiting' \in Seq(Asked') /\ (forward' = <<>> => waiting' = <<>>)
         /\ timers' \subseteq 1 .. nextToken' /\ server' \in Seq(Requests')
    <2>1. timers \subseteq 1 .. nextToken' /\ Len(forward) <= 1
          /\ (forward = <<>> => waiting = <<>>)
      BY <1>4 DEF TypeInv, ForwardTypes
    <2>2. CASE forward # <<>>
      <3>1. waiting' = Append(waiting, f) /\ UNCHANGED <<forward, server, timers>>
        BY <1>1, <2>2
      <3>q. QED
        BY <1>5, <1>7, <1>8, <2>1, <2>2, <3>1
    <2>3. CASE forward = <<>>
      <3>1. forward' = <<f>> /\ server' = Append(server, [what |-> "forward", to |-> f])
            /\ timers' = timers \cup {f.token} /\ waiting' = waiting
        BY <1>1, <2>3 DEF Dispatch
      <3>2. f.token \in 1 .. nextToken'
        BY <1>5 DEF Asked
      <3>3. <<f>> \in Seq(Asked') /\ Len(<<f>>) = 1 /\ <<f>> # <<>>
        BY <1>5
      <3>4. server' \in Seq(Requests')
        BY <1>7, <1>9, <3>1
      <3>5. forward' \in Seq(Asked') /\ Len(forward') <= 1 /\ forward' # <<>>
        <4>1. Len(<<f>>) <= 1
          BY <3>3
        <4>q. QED
          BY ONLY <3>1, <3>3, <4>1, Zenon
      <3>6. timers' \subseteq 1 .. nextToken'
        BY ONLY <2>1, <3>1, <3>2, Zenon
      <3>q. QED
        BY <1>8, <3>1, <3>4, <3>5, <3>6, Zenon
    <2>q. QED
      BY <2>2, <2>3
  <1>11. ForwardTypes'
    BY <1>1, <1>4, <1>10 DEF ForwardTypes
  <1>12. ServerTypes'
    <2>1. (1 .. nextToken) \X Clients \subseteq (1 .. nextToken') \X Clients
      BY <1>4
    <2>q. QED
      BY <1>1, <1>10, <2>1 DEF TypeInv, ServerTypes
  <1>13. InboxTypes'
    BY <1>1, <1>2 DEF InboxTypes
  <1>q. QED
    BY <1>1, <1>11, <1>12, <1>13, KeptTypes DEF TypeInv, paneVars

LEMMA AnswerColorModeTypes ==
  ASSUME TypeInv, AnswerColorMode
  PROVE  TypeInv'
  <1> DEFINE q == Head(inbox).query
  <1>1. UNCHANGED <<queueVars, script, printed, open, scrolled, held, forwardVars,
                    serverVars, clientVars, history>>
    BY DEF AnswerColorMode
  <1>2. Head(inbox) \in Messages /\ Head(inbox).what = "query" /\ Tail(inbox) \in Seq(Messages)
    BY InboxHead DEF AnswerColorMode
  <1>3. q \in Units /\ q.pane \in Panes
    BY <1>2 DEF Messages, Units
  <1>4. \/ Resume(q.pane, <<q>>, Tail(inbox))
        \/ Resume(q.pane, <<>>, Tail(inbox))
        \/ /\ inbox' = Tail(inbox)
           /\ UNCHANGED <<writer, shown, buffered, paused>>
    BY Zenon DEF AnswerColorMode
  <1> HIDE DEF q
  <1>5. <<q>> \in Seq(Units) /\ <<>> \in Seq(Units)
    BY <1>3
  <1>6. UNCHANGED <<pending, received, script, printed, open, scrolled, held>>
    BY <1>1 DEF queueVars
  <1>7. WriterTypes' /\ PaneTypes' /\ InboxTypes'
    <2>1. ASSUME NEW answers \in Seq(Units), Resume(q.pane, answers, Tail(inbox))
          PROVE  WriterTypes' /\ PaneTypes' /\ InboxTypes'
      BY <1>2, <1>3, <1>6, <2>1, ResumeTypes, Zenon
    <2>2. CASE /\ inbox' = Tail(inbox)
               /\ UNCHANGED <<writer, shown, buffered, paused>>
      BY <1>2, <1>6, <2>2 DEF TypeInv, WriterTypes, PaneTypes, InboxTypes
    <2>q. QED
      BY <1>4, <1>5, <2>1, <2>2, Zenon
  <1>q. QED
    BY <1>1, <1>7, KeptTypes DEF TypeInv, forwardVars

LEMMA ForwardedReplyTypes ==
  ASSUME TypeInv, HandleForwardedReply
  PROVE  TypeInv'
  <1> DEFINE reply == Head(inbox)
             q == forward[1].query
  <1>1. UNCHANGED <<queueVars, script, printed, open, scrolled, held, nextToken,
                    clients, owner, clientVars, history>>
    BY DEF HandleForwardedReply
  <1>2. reply \in Messages /\ reply.what = "reply" /\ Tail(inbox) \in Seq(Messages)
    BY InboxHead DEF HandleForwardedReply
  <1>3. reply.answers \in Seq(Units)
    BY <1>2 DEF Messages
  <1>4. UNCHANGED <<pending, received, script, printed, open, scrolled, held>>
    BY <1>1 DEF queueVars
  <1>5. CASE IsStale(reply.token)
    <2>1. /\ inbox' = Tail(inbox)
          /\ UNCHANGED <<writer, shown, buffered, paused, forward, waiting, server, timers>>
      BY <1>5, Zenon DEF HandleForwardedReply
    <2>2. WriterTypes' /\ PaneTypes' /\ InboxTypes'
      BY <1>2, <1>4, <2>1 DEF TypeInv, WriterTypes, PaneTypes, InboxTypes
    <2>q. QED
      BY <1>1, <2>1, <2>2, KeptTypes DEF TypeInv, forwardVars, serverVars
  <1>6. CASE ~IsStale(reply.token)
    <2>1. /\ \E answers \in IF reply.answers = <<>> THEN {<<>>, <<q>>} ELSE {reply.answers} :
               Resume(q.pane, answers, Tail(inbox))
          /\ IF waiting = <<>>
             THEN forward' = <<>> /\ UNCHANGED <<waiting, server, timers>>
             ELSE Dispatch(Head(waiting)) /\ waiting' = Tail(waiting)
      BY <1>6, Zenon DEF HandleForwardedReply
    <2>2. forward # <<>> /\ forward \in Seq(Asked)
      BY <1>6 DEF IsStale, TypeInv, ForwardTypes
    <2>3. forward[1] \in Asked
      BY <2>2
    <2>4. q \in Units /\ q.pane \in Panes
      BY <2>3 DEF Asked, Units
    <2> HIDE DEF q, reply
    <2>5. <<q>> \in Seq(Units) /\ <<>> \in Seq(Units)
      BY <2>4
    <2>6. PICK answers \in Seq(Units) : Resume(q.pane, answers, Tail(inbox))
      BY <1>3, <2>1, <2>5
    <2>7. WriterTypes' /\ PaneTypes' /\ InboxTypes'
      BY <1>2, <1>4, <2>4, <2>6, ResumeTypes, Zenon DEF reply
    <2>8. ForwardTypes' /\ ServerTypes'
      <3>1. /\ nextToken' = nextToken /\ Asked' = Asked /\ Requests' = Requests
            /\ UNCHANGED <<clients, owner>>
        BY <1>1 DEF Asked, Requests
      <3>0. /\ nextToken \in Nat \ {0} /\ timers \subseteq 1 .. nextToken
            /\ waiting \in Seq(Asked) /\ server \in Seq(Requests) /\ clients \subseteq Clients
            /\ owner \subseteq (1 .. nextToken) \X Clients
        BY DEF TypeInv, ForwardTypes, ServerTypes
      <3>2. CASE waiting = <<>>
        <4>1. forward' = <<>> /\ UNCHANGED <<waiting, server, timers>>
          BY <2>1, <3>2
        <4>2. <<>> \in Seq(Asked) /\ Len(<<>>) <= 1
          OBVIOUS
        <4>3. ForwardTypes'
          BY <3>0, <3>1, <3>2, <4>1, <4>2, Zenon DEF ForwardTypes
        <4>4. ServerTypes'
          BY <3>0, <3>1, <4>1, Zenon DEF ServerTypes
        <4>q. QED
          BY <4>3, <4>4
      <3>3. CASE waiting # <<>>
        <4> DEFINE f == Head(waiting)
        <4>1. f \in Asked /\ Tail(waiting) \in Seq(Asked)
          BY <3>3 DEF TypeInv, ForwardTypes
        <4>2. /\ forward' = <<f>> /\ server' = Append(server, [what |-> "forward", to |-> f])
              /\ timers' = timers \cup {f.token} /\ waiting' = Tail(waiting)
          BY <2>1, <3>3 DEF Dispatch
        <4> HIDE DEF f
        <4>3. [what |-> "forward", to |-> f] \in Requests /\ f.token \in 1 .. nextToken
          BY <4>1 DEF Requests, Asked
        <4>4. <<f>> \in Seq(Asked) /\ Len(<<f>>) = 1 /\ <<f>> # <<>>
          BY <4>1
        <4>5. Len(<<f>>) <= 1 /\ Append(server, [what |-> "forward", to |-> f]) \in Seq(Requests)
          BY <3>0, <4>3, <4>4
        <4>6. timers' \subseteq 1 .. nextToken
          BY ONLY <3>0, <4>2, <4>3, Zenon
        <4>7. ForwardTypes'
          BY <3>0, <3>1, <4>1, <4>2, <4>4, <4>5, <4>6, Zenon DEF ForwardTypes
        <4>8. ServerTypes'
          BY <3>0, <3>1, <4>2, <4>5, Zenon DEF ServerTypes
        <4>q. QED
          BY <4>7, <4>8
      <3>q. QED
        BY <3>2, <3>3
    <2>q. QED
      BY <1>1, <2>7, <2>8, KeptTypes DEF TypeInv
  <1>q. QED
    BY <1>5, <1>6

LEMMA ReplyType ==
  ASSUME NEW token \in Nat, NEW answers \in Seq(Units)
  PROVE  Reply(token, answers) \in Messages
  BY DEF Reply, Messages

LEMMA ServerTimerTypes ==
  ASSUME TypeInv, NEW token \in timers, ServerTimer(token)
  PROVE  TypeInv'
  <1>1. /\ timers' = timers \ {token} /\ inbox' = Append(inbox, Reply(token, <<>>))
        /\ UNCHANGED <<writerVars, paneVars, forward, waiting, nextToken,
                       serverVars, clientVars, disturbed>>
    BY DEF ServerTimer
  <1>2. token \in Nat /\ <<>> \in Seq(Units)
    BY DEF TypeInv, ForwardTypes
  <1>3. InboxTypes'
    <2>1. Reply(token, <<>>) \in Messages
      BY <1>2, ReplyType
    <2>q. QED
      BY <1>1, <2>1 DEF TypeInv, InboxTypes
  <1>4. ForwardTypes'
    BY <1>1 DEF TypeInv, ForwardTypes, Asked
  <1>5. HistoryTypes'
    <2>1. (UNCHANGED <<surprised, troubles>>) \/ (surprised' = TRUE /\ Trouble(2))
      BY Zenon DEF ServerTimer, Surprise
    <2>2. troubles' \in Nat
      BY <2>1, TroubleType DEF TypeInv, HistoryTypes
    <2>q. QED
      BY <1>1, <2>1, <2>2 DEF TypeInv, HistoryTypes
  <1>q. QED
    BY <1>1, <1>3, <1>4, <1>5, KeptTypes DEF TypeInv, paneVars

LEMMA ForwardQueryToHostTypes ==
  ASSUME TypeInv, ForwardQueryToHost
  PROVE  TypeInv'
  <1> DEFINE f == Head(server).to
  <1>1. /\ server' = Tail(server)
        /\ UNCHANGED <<writerVars, paneVars, forwardVars, clients, kind, slot,
                       host, outbound, history>>
        /\ \/ \E c \in clients :
                /\ owner' = owner \cup {<<f.token, c>>}
                /\ inbound' = IF kind[c] = "none" THEN inbound
                              ELSE [inbound EXCEPT ![c] = Append(@, f)]
                /\ UNCHANGED inbox
           \/ /\ inbox' = Append(inbox, Reply(f.token, <<>>))
              /\ UNCHANGED <<owner, inbound>>
    BY Zenon DEF ForwardQueryToHost
  <1>2. f \in Asked /\ Tail(server) \in Seq(Requests)
    <2>1. Head(server) \in Requests /\ Head(server).what = "forward"
          /\ Tail(server) \in Seq(Requests)
      BY DEF ForwardQueryToHost, TypeInv, ServerTypes
    <2>q. QED
      BY <2>1 DEF Requests
  <1> HIDE DEF f
  <1>3. f \in Forwards /\ f.token \in 1 .. nextToken /\ f.token \in Nat
        /\ Asked' = Asked /\ Requests' = Requests /\ nextToken' = nextToken
    BY <1>1, <1>2 DEF Asked, Forwards, Requests, forwardVars, TypeInv, ForwardTypes
  <1>4. InboxTypes' /\ owner' \subseteq (1 .. nextToken) \X Clients
        /\ inbound' \in [Clients -> Seq(Forwards)]
    <2>1. inbox \in Seq(Messages) /\ owner \subseteq (1 .. nextToken) \X Clients
          /\ inbound \in [Clients -> Seq(Forwards)] /\ clients \subseteq Clients
      BY DEF TypeInv, InboxTypes, ServerTypes, ClientTypes
    <2>2. CASE /\ inbox' = Append(inbox, Reply(f.token, <<>>))
               /\ UNCHANGED <<owner, inbound>>
      <3>1. <<>> \in Seq(Units)
        OBVIOUS
      <3>2. Reply(f.token, <<>>) \in Messages
        BY <1>3, <3>1, ReplyType
      <3>q. QED
        BY <2>1, <2>2, <3>2 DEF InboxTypes
    <2>3. ASSUME NEW c \in clients, owner' = owner \cup {<<f.token, c>>},
                 inbound' = IF kind[c] = "none" THEN inbound
                            ELSE [inbound EXCEPT ![c] = Append(@, f)],
                 UNCHANGED inbox
          PROVE  InboxTypes' /\ owner' \subseteq (1 .. nextToken) \X Clients
                 /\ inbound' \in [Clients -> Seq(Forwards)]
      <3>1. Append(inbound[c], f) \in Seq(Forwards)
        BY <1>3, <2>1
      <3>q. QED
        BY <1>3, <2>1, <2>3, <3>1 DEF InboxTypes
    <2>q. QED
      BY <1>1, <2>2, <2>3
  <1>5. ServerTypes'
    BY <1>1, <1>2, <1>3, <1>4 DEF TypeInv, ServerTypes
  <1>6. ClientTypes'
    BY <1>1, <1>4 DEF TypeInv, ClientTypes
  <1>q. QED
    BY <1>1, <1>4, <1>5, <1>6, KeptTypes DEF TypeInv, paneVars

\* A client that is removed leaves empty replies.
LEMMA Released ==
  ASSUME TypeInv, RemoveClient
  PROVE  \E f \in Seq(Messages) : /\ inbox' = inbox \o f
                                  /\ \A i \in 1 .. Len(f) :
                                       /\ f[i].what = "reply" /\ f[i].answers = <<>>
                                       /\ <<f[i].token, Head(server).client>> \in owner
  <1> DEFINE c == Head(server).client
             stuck == {t \in 1 .. nextToken : <<t, c>> \in owner}
  <1>1. PICK order \in SetToSeqs(stuck) :
          inbox' = inbox \o [i \in 1 .. Len(order) |-> Reply(order[i], <<>>)]
    BY Zenon DEF RemoveClient
  <1>2. nextToken \in Nat /\ stuck \subseteq 1 .. nextToken /\ stuck \subseteq Nat
    BY DEF TypeInv, ForwardTypes
  <1>3. order \in Seq(Nat) /\ order \in Seq(stuck)
    <2> HIDE DEF stuck
    <2>1. IsFiniteSet(1 .. nextToken)
      BY <1>2, FS_Interval
    <2>2. IsFiniteSet(stuck)
      BY <1>2, <2>1, FS_Subset
    <2>3. Cardinality(stuck) \in Nat
      BY <2>2, FS_CardinalityType
    <2>4. order \in [1 .. Cardinality(stuck) -> stuck]
      BY DEF SetToSeqs
    <2>5. order \in Seq(stuck)
      BY <2>3, <2>4
    <2>6. order \in Seq(Nat)
      BY <1>2, <2>5, SeqMonotonic
    <2>q. QED
      BY <2>5, <2>6
  <1> DEFINE f == [i \in 1 .. Len(order) |-> Reply(order[i], <<>>)]
  <1>4. ASSUME NEW i \in 1 .. Len(order)
        PROVE  /\ f[i] \in Messages /\ f[i].what = "reply" /\ f[i].answers = <<>>
               /\ <<f[i].token, c>> \in owner
    <2>1. order[i] \in Nat /\ <<>> \in Seq(Units)
      BY <1>3
    <2>2. order[i] \in stuck
      <3> HIDE DEF stuck
      <3>q. QED
        BY <1>3
    <2>3. f[i].what = "reply" /\ f[i].answers = <<>> /\ f[i].token = order[i]
      BY DEF Reply
    <2>4. f[i] \in Messages
      BY <2>1, ReplyType
    <2>q. QED
      BY <2>2, <2>3, <2>4
  <1>5. f = [i \in 1 .. Len(order) |-> f[i]] /\ Len(order) \in Nat
    BY <1>3
  <1> HIDE DEF f, stuck
  <1>6. f \in Seq(Messages)
    <2>1. \A i \in 1 .. Len(order) : f[i] \in Messages
      BY <1>4
    <2>2. f \in [1 .. Len(order) -> Messages]
      BY <1>5, <2>1, Zenon
    <2>q. QED
      BY <1>5, <2>2, SeqDef
  <1>7. Len(f) = Len(order)
    BY <1>5
  <1>8. inbox' = inbox \o f
    BY <1>1 DEF f
  <1>q. QED
    BY <1>4, <1>6, <1>7, <1>8

LEMMA RemoveClientTypes ==
  ASSUME TypeInv, RemoveClient
  PROVE  TypeInv'
  <1> DEFINE c == Head(server).client
             stuck == {t \in 1 .. nextToken : <<t, c>> \in owner}
  <1>1. /\ clients' = clients \ {c} /\ owner' = owner \ (stuck \X {c})
        /\ server' = Tail(server)
        /\ UNCHANGED <<writerVars, paneVars, forwardVars, clientVars, history>>
    BY Zenon DEF RemoveClient
  <1>3. Tail(server) \in Seq(Requests) /\ stuck \subseteq Nat
    BY DEF RemoveClient, TypeInv, ForwardTypes, ServerTypes
  <1>5. InboxTypes'
    <2>1. PICK f \in Seq(Messages) : inbox' = inbox \o f
      BY Released
    <2>q. QED
      BY <2>1 DEF TypeInv, InboxTypes
  <1> HIDE DEF stuck, c
  <1>6. ServerTypes'
    <2>1. nextToken' = nextToken /\ Requests' = Requests
      BY <1>1 DEF forwardVars, Requests, Asked
    <2>q. QED
      BY <1>1, <1>3, <2>1 DEF TypeInv, ServerTypes
  <1>q. QED
    BY <1>1, <1>5, <1>6, KeptTypes DEF TypeInv, paneVars

LEMMA RouteTypes ==
  ASSUME TypeInv, NEW c \in Clients, Route(c)
  PROVE  TypeInv'
  <1> DEFINE m == Head(outbound[c])
  <1>1. /\ outbound' = [outbound EXCEPT ![c] = Tail(@)]
        /\ UNCHANGED <<writerVars, paneVars, forwardVars, clients, kind, inbound,
                       slot, host, history>>
        /\ \/ /\ owner' = owner \ ({m.token} \X Clients)
              /\ inbox' = Append(inbox, Reply(m.token, m.answers))
              /\ UNCHANGED server
           \/ /\ server' = Append(server, [what |-> "remove", client |-> c])
              /\ UNCHANGED <<owner, inbox>>
    BY Zenon DEF Route
  <1>2. m \in Outbound /\ Tail(outbound[c]) \in Seq(Outbound)
    BY DEF Route, TypeInv, ClientTypes
  <1>3. Reply(m.token, m.answers) \in Messages
    <2>1. m.token \in Nat /\ m.answers \in Seq(Units)
      BY <1>2 DEF Outbound
    <2>q. QED
      BY <2>1, ReplyType
  <1> HIDE DEF m
  <1>4. nextToken' = nextToken /\ Requests' = Requests
        /\ [what |-> "remove", client |-> c] \in Requests
    BY <1>1 DEF forwardVars, Requests, Asked
  <1>5. InboxTypes' /\ ServerTypes'
    <2>1. /\ inbox \in Seq(Messages) /\ server \in Seq(Requests) /\ clients \subseteq Clients
          /\ owner \subseteq (1 .. nextToken) \X Clients
      BY DEF TypeInv, InboxTypes, ServerTypes
    <2>2. /\ inbox' \in Seq(Messages) /\ server' \in Seq(Requests)
          /\ owner' \subseteq owner /\ clients' = clients
      <3>1. CASE /\ owner' = owner \ ({m.token} \X Clients)
                 /\ inbox' = Append(inbox, Reply(m.token, m.answers))
                 /\ UNCHANGED server
        <4>1. Append(inbox, Reply(m.token, m.answers)) \in Seq(Messages)
          BY <1>3, <2>1, AppendProperties
        <4>2. owner' \subseteq owner
          BY ONLY <3>1
        <4>q. QED
          BY <1>1, <2>1, <3>1, <4>1, <4>2, Zenon
      <3>2. CASE /\ server' = Append(server, [what |-> "remove", client |-> c])
                 /\ UNCHANGED <<owner, inbox>>
        <4>1. Append(server, [what |-> "remove", client |-> c]) \in Seq(Requests)
          BY <1>4, <2>1, AppendProperties
        <4>q. QED
          BY <1>1, <2>1, <3>2, <4>1
      <3>q. QED
        BY <1>1, <3>1, <3>2
    <2>q. QED
      BY <1>4, <2>1, <2>2, Zenon DEF InboxTypes, ServerTypes
  <1>6. ClientTypes'
    BY <1>1, <1>2 DEF TypeInv, ClientTypes
  <1>q. QED
    BY <1>1, <1>5, <1>6, KeptTypes DEF TypeInv, paneVars

LEMMA SendType ==
  ASSUME ClientTypes, NEW c \in Clients, NEW what \in {"reply", "bye"}, NEW token \in Nat,
         NEW answers \in Seq(Units), Send(c, what, token, answers)
  PROVE  outbound' \in [Clients -> Seq(Outbound)]
  <1>1. [what |-> what, token |-> token, answers |-> answers] \in Outbound
    BY DEF Outbound
  <1>2. Append(outbound[c], [what |-> what, token |-> token, answers |-> answers])
          \in Seq(Outbound)
    BY <1>1 DEF ClientTypes
  <1>q. QED
    BY <1>2 DEF ClientTypes, Send

\* Steps of a client change its own variables only.
LEMMA ClientSteps ==
  ASSUME TypeInv, ClientTypes',
         UNCHANGED <<writerVars, paneVars, inbox, forwardVars, serverVars, disturbed>>,
         surprised' \in BOOLEAN, troubles' \in Nat
  PROVE  TypeInv'
  BY KeptTypes DEF TypeInv, HistoryTypes, paneVars, forwardVars

LEMMA ClientLeavesTypes ==
  ASSUME TypeInv, NEW c \in Clients, ClientLeaves(c)
  PROVE  TypeInv'
  <1>1. /\ kind' = [kind EXCEPT ![c] = "none"]
        /\ inbound' = [inbound EXCEPT ![c] = <<>>]
        /\ slot' = [slot EXCEPT ![c] = <<>>] /\ host' = [host EXCEPT ![c] = <<>>]
        /\ Send(c, "bye", 0, <<>>)
        /\ UNCHANGED <<writerVars, paneVars, inbox, forwardVars, serverVars, history>>
    BY DEF ClientLeaves
  <1>2. "bye" \in {"reply", "bye"} /\ 0 \in Nat /\ <<>> \in Seq(Units)
    OBVIOUS
  <1>3. outbound' \in [Clients -> Seq(Outbound)]
    BY <1>1, <1>2, SendType DEF TypeInv
  <1>4. ClientTypes'
    <2>1. /\ <<>> \in Seq(Slots) /\ Len(<<>>) <= 1 /\ <<>> \in Seq(Questions)
          /\ <<>> \in Seq(Forwards)
      OBVIOUS
    <2>q. QED
      BY <1>1, <1>3, <2>1 DEF TypeInv, ClientTypes
  <1>q. QED
    BY <1>1, <1>4, ClientSteps DEF TypeInv, HistoryTypes, history

LEMMA OpenForwardTypes ==
  ASSUME TypeInv, NEW c \in Clients, OpenForward(c)
  PROVE  TypeInv'
  <1> DEFINE f == Head(inbound[c])
             asked(b) == [token |-> f.token, query |-> f.query, barrier |-> b]
  <1>1. /\ inbound' = [inbound EXCEPT ![c] = Tail(@)]
        /\ UNCHANGED <<writerVars, paneVars, inbox, forwardVars, serverVars, kind, history>>
        /\ \/ /\ slot' = [slot EXCEPT ![c] = <<[token |-> f.token, answers |-> <<>>]>>]
              /\ host' = [host EXCEPT ![c] = @ \o <<asked(FALSE), asked(TRUE)>>]
              /\ UNCHANGED outbound
           \/ /\ Send(c, "reply", f.token, <<>>)
              /\ UNCHANGED <<slot, host>>
           \/ UNCHANGED <<slot, host, outbound>>
    BY Zenon DEF OpenForward
  <1>2. f \in Forwards /\ Tail(inbound[c]) \in Seq(Forwards)
    BY DEF OpenForward, TypeInv, ClientTypes
  <1>3. f.token \in Nat /\ f.query \in Units /\ <<>> \in Seq(Units)
    BY <1>2 DEF Forwards
  <1> HIDE DEF f
  <1>4. /\ slot' \in [Clients -> Seq(Slots)]
        /\ \A d \in Clients : Len(slot'[d]) <= 1
        /\ host' \in [Clients -> Seq(Questions)]
        /\ outbound' \in [Clients -> Seq(Outbound)]
    <2>1. /\ slot \in [Clients -> Seq(Slots)]
          /\ \A d \in Clients : Len(slot[d]) <= 1
          /\ host \in [Clients -> Seq(Questions)]
          /\ outbound \in [Clients -> Seq(Outbound)]
      BY DEF TypeInv, ClientTypes
    <2>2. CASE /\ slot' = [slot EXCEPT ![c] = <<[token |-> f.token, answers |-> <<>>]>>]
               /\ host' = [host EXCEPT ![c] = @ \o <<asked(FALSE), asked(TRUE)>>]
               /\ UNCHANGED outbound
      <3> DEFINE new == [token |-> f.token, answers |-> <<>>]
      <3>1. new \in Slots /\ asked(FALSE) \in Questions /\ asked(TRUE) \in Questions
        BY <1>3 DEF Slots, Questions
      <3>3. slot' = [slot EXCEPT ![c] = <<new>>]
        BY <2>2
      <3> HIDE DEF asked, new
      <3>2. <<new>> \in Seq(Slots) /\ Len(<<new>>) <= 1
            /\ host[c] \o <<asked(FALSE), asked(TRUE)>>
                 \in Seq(Questions)
        <4> DEFINE a == asked(FALSE)
                   b == asked(TRUE)
        <4>1. a \in Questions /\ b \in Questions /\ host[c] \in Seq(Questions)
          BY <2>1, <3>1, Zenon
        <4> HIDE DEF a, b
        <4>2. <<a, b>> \in Seq(Questions)
          BY <4>1
        <4>3. host[c] \o <<a, b>> \in Seq(Questions)
          BY <4>1, <4>2, ConcatProperties
        <4>4. <<new>> \in Seq(Slots) /\ Len(<<new>>) <= 1
          BY <3>1
        <4>q. QED
          BY <4>3, <4>4, Zenon DEF a, b
      <3>q. QED
        BY <2>1, <2>2, <3>2, <3>3
    <2>3. CASE /\ Send(c, "reply", f.token, <<>>)
               /\ UNCHANGED <<slot, host>>
      <3>1. outbound' \in [Clients -> Seq(Outbound)]
        BY <1>3, <2>3, SendType DEF TypeInv
      <3>q. QED
        BY <2>1, <2>3, <3>1
    <2>4. CASE UNCHANGED <<slot, host, outbound>>
      BY <2>1, <2>4
    <2>q. QED
      BY <1>1, <2>2, <2>3, <2>4
  <1>5. ClientTypes'
    BY <1>1, <1>2, <1>4 DEF TypeInv, ClientTypes
  <1>q. QED
    BY <1>1, <1>5, ClientSteps DEF TypeInv, HistoryTypes, history

LEMMA HostTerminalTypes ==
  ASSUME TypeInv, NEW c \in Clients, HostTerminal(c)
  PROVE  TypeInv'
  <1> DEFINE answer == Head(host[c])
  <1>1. /\ host' = [host EXCEPT ![c] = Tail(@)]
        /\ UNCHANGED <<writerVars, paneVars, inbox, forwardVars, serverVars,
                       kind, inbound, history>>
        /\ \/ UNCHANGED <<slot, outbound>>
           \/ /\ slot[c] # <<>>
              /\ slot' = [slot EXCEPT ![c][1].answers = Append(@, answer.query)]
              /\ UNCHANGED outbound
           \/ /\ slot[c] # <<>>
              /\ slot' = [slot EXCEPT ![c] = <<>>]
              /\ Send(c, "reply", slot[c][1].token, slot[c][1].answers)
    BY Zenon DEF HostTerminal, Feed
  <1>2. answer.query \in Units
        /\ Tail(host[c]) \in Seq(Questions)
    <2>1. host[c] \in Seq(Questions) /\ host[c] # <<>>
      BY DEF HostTerminal, TypeInv, ClientTypes
    <2>2. answer \in Questions /\ Tail(host[c]) \in Seq(Questions)
      BY <2>1
    <2> HIDE DEF answer
    <2>q. QED
      BY <2>2 DEF Questions
  <1> HIDE DEF answer
  <1>3. slot \in [Clients -> Seq(Slots)] /\ (\A d \in Clients : Len(slot[d]) <= 1)
        /\ outbound \in [Clients -> Seq(Outbound)]
    BY DEF TypeInv, ClientTypes
  <1>4. slot[c] # <<>> => slot[c][1] \in Slots
    BY <1>3
  <1>5. /\ slot' \in [Clients -> Seq(Slots)] /\ \A d \in Clients : Len(slot'[d]) <= 1
        /\ outbound' \in [Clients -> Seq(Outbound)]
    <2>1. CASE UNCHANGED <<slot, outbound>>
      BY <1>3, <2>1
    <2>2. CASE /\ slot[c] # <<>>
               /\ slot' = [slot EXCEPT ![c][1].answers = Append(@, answer.query)]
               /\ UNCHANGED outbound
      <3> DEFINE s == slot[c]
                 r == [s[1] EXCEPT !.answers = Append(@, answer.query)]
      <3>1. s[1] \in Slots /\ s \in Seq(Slots) /\ Len(s) <= 1 /\ s # <<>>
        BY <1>3, <1>4, <2>2
      <3>2. slot' = [slot EXCEPT ![c] = [s EXCEPT ![1] = r]]
        BY <2>2
      <3> HIDE DEF s
      <3>3. r \in Slots
        <4>1. s[1].answers \in Seq(Units) /\ s[1].token \in Nat
          BY <3>1 DEF Slots
        <4>2. Append(s[1].answers, answer.query) \in Seq(Units)
          BY <1>2, <4>1
        <4>q. QED
          BY <3>1, <4>2 DEF Slots
      <3> HIDE DEF r
      <3>4. 1 \in 1 .. Len(s)
        BY <3>1
      <3>5. [s EXCEPT ![1] = r] \in Seq(Slots) /\ Len([s EXCEPT ![1] = r]) <= 1
        BY <3>1, <3>3, <3>4, ExceptSeq
      <3> DEFINE e == [s EXCEPT ![1] = r]
      <3> HIDE DEF e
      <3>6. slot' = [slot EXCEPT ![c] = e] /\ e \in Seq(Slots) /\ Len(e) <= 1
        BY <3>2, <3>5 DEF e
      <3>q. QED
        BY <1>3, <2>2, <3>6
    <2>3. CASE /\ slot[c] # <<>>
               /\ slot' = [slot EXCEPT ![c] = <<>>]
               /\ Send(c, "reply", slot[c][1].token, slot[c][1].answers)
      <3>1. slot[c][1].token \in Nat /\ slot[c][1].answers \in Seq(Units)
        BY <1>4, <2>3 DEF Slots
      <3>2. outbound' \in [Clients -> Seq(Outbound)]
        BY <2>3, <3>1, SendType DEF TypeInv
      <3>3. <<>> \in Seq(Slots) /\ Len(<<>>) <= 1
        OBVIOUS
      <3>q. QED
        BY <1>3, <2>3, <3>2, <3>3
    <2>q. QED
      BY <1>1, <2>1, <2>2, <2>3
  <1>6. ClientTypes'
    BY <1>1, <1>2, <1>5 DEF TypeInv, ClientTypes
  <1>q. QED
    BY <1>1, <1>6, ClientSteps DEF TypeInv, HistoryTypes, history

LEMMA ClientTimerTypes ==
  ASSUME TypeInv, NEW c \in Clients, ClientTimer(c)
  PROVE  TypeInv'
  <1>1. /\ slot[c] # <<>> /\ slot' = [slot EXCEPT ![c] = <<>>]
        /\ Send(c, "reply", slot[c][1].token, slot[c][1].answers)
        /\ UNCHANGED <<writerVars, paneVars, inbox, forwardVars, serverVars,
                       kind, inbound, host, disturbed>>
        /\ ((UNCHANGED <<surprised, troubles>>) \/ (surprised' = TRUE /\ Trouble(2)))
    BY Zenon DEF ClientTimer, Surprise
  <1>2. slot[c][1] \in Slots
    <2>1. slot[c] \in Seq(Slots)
      BY DEF TypeInv, ClientTypes
    <2>q. QED
      BY <1>1, <2>1
  <1>3. slot[c][1].token \in Nat /\ slot[c][1].answers \in Seq(Units)
    BY <1>2 DEF Slots
  <1>4. outbound' \in [Clients -> Seq(Outbound)]
    BY <1>1, <1>3, SendType DEF TypeInv
  <1>5. ClientTypes'
    <2>1. <<>> \in Seq(Slots) /\ Len(<<>>) <= 1
      OBVIOUS
    <2>q. QED
      BY <1>1, <1>4, <2>1 DEF TypeInv, ClientTypes
  <1>6. surprised' \in BOOLEAN /\ troubles' \in Nat
    <2>1. troubles' \in Nat
      BY <1>1, TroubleType DEF TypeInv, HistoryTypes
    <2>q. QED
      BY <1>1, <2>1 DEF TypeInv, HistoryTypes
  <1>q. QED
    BY <1>1, <1>5, <1>6, ClientSteps

LEMMA WriterStepTypes ==
  ASSUME TypeInv, WriterStep
  PROVE  TypeInv'
  <1>1. UNCHANGED <<script, printed, shown, buffered, paused, scrolled, held, inbox,
                    forwardVars, serverVars, clientVars, history>> /\ UNCHANGED open
    BY DEF WriterStep, HandleWrite, Retry
  <1>2. WriterTypes'
    <2>0. WriterTypes
      BY DEF TypeInv
    <2>1. CASE Retry
      <3>1. Drain(pending) /\ writer' = writer
        BY <2>1 DEF Retry
      <3>q. QED
        BY <1>1, <2>0, <3>1, DrainTypes DEF WriterTypes
    <2>2. CASE HandleWrite
      <3> DEFINE w == Head(writer)
                 queue == [pending EXCEPT ![w.to] = Enqueue(@, w.units)]
      <3>1. Drain(queue) /\ writer' = Tail(writer) /\ writer # <<>>
        BY <2>2, Zenon DEF HandleWrite
      <3>2. w \in Writes /\ Tail(writer) \in Seq(Writes)
        BY <2>0, <3>1 DEF WriterTypes
      <3>3. w.to \in Panes /\ w.units \in Seq(Units)
        BY <3>2 DEF Writes
      <3> HIDE DEF w
      <3>4. Enqueue(pending[w.to], w.units) \in Seq(Units)
            /\ Len(Enqueue(pending[w.to], w.units)) <= MaxPending
        <4>1. pending[w.to] \in Seq(Units)
          BY <2>0, <3>3 DEF WriterTypes
        <4>2. CASE Len(pending[w.to]) + Len(w.units) > MaxPending
          BY <4>2, PendingAssumption DEF Enqueue
        <4>3. CASE ~(Len(pending[w.to]) + Len(w.units) > MaxPending)
          <5> DEFINE u == w.units
                     v == pending[w.to]
          <5>1. u \in Seq(Units) /\ v \in Seq(Units) /\ ~(Len(v) + Len(u) > MaxPending)
            BY <3>3, <4>1, <4>3
          <5>2. Enqueue(v, u) = v \o u
            BY <4>3 DEF Enqueue
          <5> HIDE DEF u, v
          <5>3. v \o u \in Seq(Units) /\ Len(v \o u) = Len(v) + Len(u)
                /\ Len(v) \in Nat /\ Len(u) \in Nat
            BY <5>1
          <5>4. Enqueue(v, u) \in Seq(Units) /\ Len(Enqueue(v, u)) <= MaxPending
            BY <5>1, <5>2, <5>3, PendingAssumption
          <5>q. QED
            BY <5>4 DEF u, v
        <4>q. QED
          BY <4>2, <4>3
      <3>5. queue \in [Panes -> Seq(Units)] /\ \A t \in Panes : Len(queue[t]) <= MaxPending
        BY <2>0, <3>3, <3>4 DEF WriterTypes
      <3> HIDE DEF queue
      <3>6. /\ pending' \in [Panes -> Seq(Units)] /\ received' \in [Panes -> Seq(Units)]
            /\ \A t \in Panes : Len(pending'[t]) <= MaxPending
        BY <2>0, <3>1, <3>5, DrainTypes
      <3>q. QED
        BY <1>1, <2>0, <3>1, <3>2, <3>6 DEF WriterTypes
    <2>q. QED
      BY <2>1, <2>2 DEF WriterStep
  <1>q. QED
    BY <1>1, <1>2, KeptTypes DEF TypeInv, paneVars, forwardVars

LEMMA TypesKept == TypeInv /\ [Next]_vars => TypeInv'
  <1> SUFFICES ASSUME TypeInv, [Next]_vars PROVE TypeInv'
    OBVIOUS
  <1>1. CASE User
    <2>1. ASSUME NEW p \in Panes, Prints(p) \/ ScrollUp(p) \/ ScrollToBottom(p)
                 \/ ScrollTerminalDown(p) \/ MoveToTab(p) \/ ClosePane(p)
          PROVE  TypeInv'
      BY <2>1, PrintsTypes, CommandsTypes, ScrollToBottomTypes
    <2>q. QED
      BY <1>1, <2>1, ClientLeavesTypes DEF User
  <1>2. CASE ScreenStep
    BY <1>2, PtyBytesTypes, ForwardHostQueryTypes, AnswerColorModeTypes, ForwardedReplyTypes
       DEF ScreenStep
  <1>3. CASE ServerStep
    BY <1>3, ForwardQueryToHostTypes, RemoveClientTypes DEF ServerStep
  <1>4. CASE WriterStep
    BY <1>4, WriterStepTypes
  <1>5. ASSUME NEW token \in timers, ServerTimer(token) PROVE TypeInv'
    BY <1>5, ServerTimerTypes
  <1>6. ASSUME NEW c \in Clients,
               Route(c) \/ OpenForward(c) \/ HostTerminal(c) \/ ClientTimer(c)
        PROVE  TypeInv'
    BY <1>6, RouteTypes, OpenForwardTypes, HostTerminalTypes, ClientTimerTypes
  <1>7. CASE UNCHANGED vars
    BY <1>7, KeptTypes DEF TypeInv, vars, paneVars, forwardVars
  <1>q. QED
    BY <1>1, <1>2, <1>3, <1>4, <1>5, <1>6, <1>7 DEF Next

LEMMA TypesSuffice == TypeInv => TypeOK
  <1> SUFFICES ASSUME TypeInv PROVE TypeOK
    OBVIOUS
  <1>1. WriterTypeOK
    BY DEF TypeInv, WriterTypes, WriterTypeOK, Writes
  <1>2. Asked \subseteq Forwards
    BY DEF Asked, Forwards
  <1>3. forward \in Seq(Forwards) /\ waiting \in Seq(Forwards)
    BY <1>2, SeqMonotonic DEF TypeInv, ForwardTypes
  <1>4. Requests \subseteq [what : {"forward"}, to : Forwards]
                             \cup [what : {"remove"}, client : Clients]
    BY <1>2 DEF Requests
  <1>5. server \in Seq([what : {"forward"}, to : Forwards]
                       \cup [what : {"remove"}, client : Clients])
    BY <1>4, SeqMonotonic DEF TypeInv, ServerTypes
  <1>q. QED
    BY <1>1, <1>3, <1>5
       DEF TypeInv, PaneTypes, InboxTypes, ForwardTypes, ServerTypes, ClientTypes,
           HistoryTypes, TypeOK, Slots, Questions

\* Every variable keeps its type: of the messages that are underway in any
\* channel, and of the queues, which never hold more than the writer allows.
THEOREM TypeCorrect == Spec => []TypeOK
  <1>1. Init => TypeInv
    BY InitTypes
  <1>2. TypeInv /\ [Next]_vars => TypeInv'
    BY TypesKept
  <1>3. TypeInv => TypeOK
    BY TypesSuffice
  <1>q. QED
    BY <1>1, <1>2, <1>3, PTL DEF Spec

-----------------------------------------------------------------------------
(* The output of the programs.  What is on its way to a pane is what the   *)
(* Screen thread has yet to take from its channel, behind what the tab     *)
(* holds back, behind what the pane has buffered.                          *)

LEMMA ItemsEmpty ==
  /\ <<>> \in Items
  /\ \A s \in Items : s \o <<>> = s /\ <<>> \o s = s
  BY DEF Items

LEMMA ItemsClosed ==
  ASSUME NEW s \in Items, NEW t \in Items
  PROVE  s \o t \in Items
  BY DEF Items

LEMMA ItemsIndex ==
  ASSUME NEW s \in Items, NEW t \in Items
  PROVE  /\ Len(s \o t) = Len(s) + Len(t)
         /\ \A i \in 1 .. Len(s) + Len(t) :
              (s \o t)[i] = IF i <= Len(s) THEN s[i] ELSE t[i - Len(s)]
  BY DEF Items

LEMMA ItemsAssociative ==
  ASSUME NEW s \in Items, NEW t \in Items, NEW u \in Items
  PROVE  (s \o t) \o u = s \o (t \o u)
  <1> DEFINE f == s \o t
             g == t \o u
             h == f \o u
  <1>1. AllIn(Nat, s, t, u) /\ Joins(s, t, u, f, g, h)
    BY Zenon DEF AllIn, Joins, Items
  <1> HIDE DEF f, g, h
  <1>2. h = s \o g
    BY <1>1, JoinsAgree, Zenon
  <1>q. QED
    BY <1>2 DEF f, g, h

LEMMA ItemsSplit ==
  ASSUME NEW items \in Items, NEW n \in 0 .. Len(items)
  PROVE  /\ SubSeq(items, 1, n) \in Items /\ SubSeq(items, n + 1, Len(items)) \in Items
         /\ SubSeq(items, 1, n) \o SubSeq(items, n + 1, Len(items)) = items
         /\ n = 0 => SubSeq(items, 1, n) = <<>> /\ SubSeq(items, n + 1, Len(items)) = items
         /\ n = Len(items) => SubSeq(items, n + 1, Len(items)) = <<>>
  BY SplitAt DEF Items

OutputOf(p) == [m \in Messages |-> Output(p, m)]

LEMMA OutputMaps ==
  ASSUME NEW p
  PROVE  /\ Maps(OutputOf(p), Messages, Nat)
         /\ \A ms \in Seq(Messages) : Arriving(p, ms) = FlatMap(OutputOf(p), ms)
  <1>1. ASSUME NEW m \in Messages PROVE Output(p, m) \in Seq(Nat)
    BY DEF Output, Messages, Items
  <1>2. Maps(OutputOf(p), Messages, Nat)
    BY <1>1 DEF Maps, OutputOf
  <1>3. ASSUME NEW ms \in Seq(Messages) PROVE Arriving(p, ms) = FlatMap(OutputOf(p), ms)
    <2>1. \A i \in 1 .. Len(ms) : Output(p, ms[i]) = OutputOf(p)[ms[i]]
      BY DEF OutputOf
    <2>q. QED
      BY <2>1 DEF Arriving, FlatMap
  <1>q. QED
    BY <1>2, <1>3

LEMMA ArrivingType ==
  ASSUME NEW p, NEW ms \in Seq(Messages)
  PROVE  Arriving(p, ms) \in Items
  <1>1. \A i \in 1 .. Len(ms) : OutputOf(p)[ms[i]] \in Seq(Nat)
    BY OutputMaps DEF Maps
  <1>2. FlatMap(OutputOf(p), ms) \in Seq(Nat)
    BY <1>1, FlatMapType
  <1>q. QED
    BY <1>2, OutputMaps DEF Items

LEMMA ArrivingConcat ==
  ASSUME NEW p, NEW ms \in Seq(Messages), NEW ns \in Seq(Messages)
  PROVE  Arriving(p, ms \o ns) = Arriving(p, ms) \o Arriving(p, ns)
  <1>1. ms \o ns \in Seq(Messages)
    OBVIOUS
  <1>2. FlatMap(OutputOf(p), ms \o ns) = FlatMap(OutputOf(p), ms) \o FlatMap(OutputOf(p), ns)
    BY OutputMaps, FlatMapConcat
  <1>q. QED
    BY <1>1, <1>2, OutputMaps

LEMMA ArrivingHead ==
  ASSUME NEW p, NEW ms \in Seq(Messages), ms # <<>>
  PROVE  Arriving(p, ms) = Output(p, Head(ms)) \o Arriving(p, Tail(ms))
  <1>1. Head(ms) \in Messages /\ Tail(ms) \in Seq(Messages)
    OBVIOUS
  <1>2. FlatMap(OutputOf(p), ms) = OutputOf(p)[Head(ms)] \o FlatMap(OutputOf(p), Tail(ms))
    BY OutputMaps, FlatMapHead
  <1>3. OutputOf(p)[Head(ms)] = Output(p, Head(ms))
    BY <1>1 DEF OutputOf
  <1>q. QED
    BY <1>1, <1>2, <1>3, OutputMaps

LEMMA ArrivingNone ==
  ASSUME NEW p, NEW ms \in Seq(Messages), NEW ns \in Seq(Messages),
         \A i \in 1 .. Len(ns) : ns[i].what # "bytes"
  PROVE  Arriving(p, ms \o ns) = Arriving(p, ms)
  <1>1. \A i \in 1 .. Len(ns) : OutputOf(p)[ns[i]] = <<>>
    BY DEF OutputOf, Output
  <1>2. FlatMap(OutputOf(p), ns) = <<>>
    BY <1>1, FlatMapNone
  <1>3. Arriving(p, ns) = <<>> /\ Arriving(p, ms) \in Items
    BY <1>2, OutputMaps, ArrivingType
  <1>4. Arriving(p, ms \o ns) = Arriving(p, ms) \o Arriving(p, ns)
    BY ArrivingConcat
  <1>q. QED
    BY <1>3, <1>4, ItemsEmpty

LEMMA ArrivingAppend ==
  ASSUME NEW p, NEW ms \in Seq(Messages), NEW m \in Messages, m.what # "bytes"
  PROVE  Arriving(p, Append(ms, m)) = Arriving(p, ms)
  <1>1. Append(ms, m) = ms \o <<m>> /\ <<m>> \in Seq(Messages)
        /\ \A i \in 1 .. Len(<<m>>) : <<m>>[i].what # "bytes"
    OBVIOUS
  <1>q. QED
    BY <1>1, ArrivingNone

\* A call of Process: what is buffered is not parsed unless the pane is paused
Call(p, items, b, kept, answers, rest) ==
  /\ p \in Panes /\ items \in Items /\ b \in BOOLEAN /\ kept \in Items
  /\ rest \in Seq(Messages) /\ (b \/ kept = <<>>)
  /\ Process(p, items, b, kept, answers, rest)

\* what it does to the output of the panes
Outcome(p, items, kept, rest) ==
  /\ shown'[p] \o buffered'[p] = shown[p] \o (kept \o items)
  /\ p \notin paused' => buffered'[p] = <<>>
  /\ \A q \in Panes \ {p} : /\ shown'[q] = shown[q] /\ buffered'[q] = buffered[q]
                           /\ (q \in paused' <=> q \in paused)
  /\ \A q \in Panes : Arriving(q, inbox') = Arriving(q, rest)

\* What a step that parses output does to the output of the panes.
LEMMA ProcessKeeps ==
  ASSUME TypeInv, NEW p, NEW items, NEW b, NEW kept, NEW answers, NEW rest,
         Call(p, items, b, kept, answers, rest)
  PROVE  Outcome(p, items, kept, rest)
  <1>a. /\ p \in Panes /\ items \in Items /\ b \in BOOLEAN /\ kept \in Items
        /\ rest \in Seq(Messages) /\ (b \/ kept = <<>>)
        /\ Process(p, items, b, kept, answers, rest)
    BY DEF Call
  <1>0. PICK n \in 0 .. Len(items) : Did(p, items, b, kept, answers, rest, n)
    BY <1>a, ProcessIs, Zenon
  <1>1. /\ b => n = 0
        /\ ~b => n = Len(items) \/ (n # 0 /\ Forwarded(p, items[n]) # <<>>)
        /\ shown' = [shown EXCEPT ![p] = @ \o SubSeq(items, 1, n)]
        /\ buffered' = [buffered EXCEPT ![p] = kept \o SubSeq(items, n + 1, Len(items))]
        /\ paused' = IF b \/ (n # 0 /\ Forwarded(p, items[n]) # <<>>)
                     THEN paused \cup {p} ELSE paused \ {p}
        /\ inbox' = rest \o (IF n = 0 THEN <<>> ELSE Asks(p, items[n]))
    BY <1>0, Zenon DEF Did
  <1>2. /\ Len(items) \in Nat /\ shown[p] \in Items
        /\ shown \in [Panes -> Items] /\ buffered \in [Panes -> Items]
    BY <1>a DEF Items, TypeInv, PaneTypes
  <1> DEFINE x == SubSeq(items, 1, n)
             y == SubSeq(items, n + 1, Len(items))
  <1>3. x \in Items /\ y \in Items /\ x \o y = items
        /\ (n = 0 => x = <<>> /\ y = items) /\ (n = Len(items) => y = <<>>)
    BY <1>a, ItemsSplit
  <1>4. shown'[p] = shown[p] \o x /\ buffered'[p] = kept \o y
    BY <1>a, <1>1, <1>2
  <1> HIDE DEF x, y
  <1>5. shown'[p] \o buffered'[p] = shown[p] \o (kept \o items)
    <2>1. CASE n = 0
      <3>1. shown[p] \o <<>> = shown[p]
        BY <1>2, ItemsEmpty
      <3>q. QED
        BY <1>3, <1>4, <2>1, <3>1
    <2>2. CASE kept = <<>>
      <3>1. <<>> \o y = y /\ <<>> \o items = items
        BY <1>a, <1>3, ItemsEmpty
      <3>2. (shown[p] \o x) \o y = shown[p] \o (x \o y)
        BY <1>2, <1>3, ItemsAssociative
      <3>q. QED
        BY <1>3, <1>4, <2>2, <3>1, <3>2
    <2>q. QED
      BY <1>a, <1>1, <2>1, <2>2
  <1>6. p \notin paused' => buffered'[p] = <<>>
    <2>1. SUFFICES ASSUME p \notin paused' PROVE buffered'[p] = <<>>
      OBVIOUS
    <2>2. ~(b \/ (n # 0 /\ Forwarded(p, items[n]) # <<>>))
      BY <1>1, <2>1
    <2>3. n = Len(items) /\ kept = <<>>
      BY <1>a, <1>1, <2>2
    <2>4. <<>> \o <<>> = <<>>
      OBVIOUS
    <2>q. QED
      BY <1>3, <1>4, <2>3, <2>4
  <1>7. ASSUME NEW q \in Panes \ {p}
        PROVE  /\ shown'[q] = shown[q] /\ buffered'[q] = buffered[q]
               /\ (q \in paused' <=> q \in paused)
    BY <1>a, <1>1, <1>2
  <1>8. ASSUME NEW q \in Panes PROVE Arriving(q, inbox') = Arriving(q, rest)
    <2>1. CASE n = 0
      <3>1. rest \o <<>> = rest
        BY <1>a
      <3>q. QED
        BY <1>1, <2>1, <3>1
    <2>2. CASE n # 0
      <3>1. items[n] \in Nat
        BY <1>a, <1>2, <2>2 DEF Items
      <3>2. Asks(p, items[n]) \in Seq(Messages)
        BY <1>a, <3>1, AsksType
      <3>3. Forwarded(p, items[n]) \in Seq(Units)
        BY <1>a, <3>1, ForwardedType
      <3>4. \A i \in 1 .. Len(Asks(p, items[n])) : Asks(p, items[n])[i].what # "bytes"
        BY <3>3 DEF Asks
      <3>5. inbox' = rest \o Asks(p, items[n])
        BY <1>a, <1>1, <2>2
      <3>q. QED
        BY <1>a, <3>2, <3>4, <3>5, ArrivingNone
    <2>q. QED
      BY <2>1, <2>2
  <1>q. QED
    BY <1>5, <1>6, <1>7, <1>8, Zenon DEF Outcome

Whole(p) == shown[p] \o buffered[p] \o FlattenSeq(held[p]) \o Arriving(p, inbox)

\* A pane that is not paused has nothing buffered, and one that is not scrolled
\* has nothing held back.
KeptAt(p) ==
  /\ p \in open => p \in paused \/ buffered[p] = <<>>
  /\ p \in open \ disturbed =>
       /\ p \in scrolled \/ held[p] = <<>>
       /\ Whole(p) = [i \in 1 .. Len(printed[p]) |-> i]
KeptInv == \A p \in Panes : KeptAt(p)

\* Output that is held back and output that arrives may be taken together, and
\* what is buffered with both.
Parts(s, k, h, i, a) ==
  s \in Items /\ k \in Items /\ h \in Items /\ i \in Items /\ a \in Items
Regrouped(s, k, h, i, a) ==
  /\ s \o k \o h \o (i \o a) = s \o k \o (h \o i) \o a
  /\ s \o k \o (h \o i) \o a = (s \o (k \o (h \o i))) \o <<>> \o a

LEMMA Regroup ==
  ASSUME NEW s, NEW k, NEW h, NEW i, NEW a, Parts(s, k, h, i, a)
  PROVE  Regrouped(s, k, h, i, a)
  <1>1. s \in Items /\ k \in Items /\ h \in Items /\ i \in Items /\ a \in Items
    BY Zenon DEF Parts
  <1> DEFINE x == s \o k
             y == h \o i
  <1>2. x \in Items
    BY <1>1, ItemsClosed
  <1>2a. y \in Items
    BY <1>1, ItemsClosed
  <1> HIDE DEF x
  <1> DEFINE w == x \o h
  <1>3. w \in Items
    BY <1>1, <1>2, ItemsClosed
  <1>3a. w \o i = x \o y
    BY <1>1, <1>2, ItemsAssociative
  <1> HIDE DEF w, y
  <1>4. (w \o i) \o a = w \o (i \o a)
    BY <1>1, <1>3, ItemsAssociative
  <1> DEFINE v == k \o y
  <1>5. v \in Items
    BY <1>1, <1>2a, ItemsClosed
  <1>5a. (s \o k) \o y = s \o (k \o y)
    <2>1. s \in Items /\ k \in Items
      BY <1>1
    <2>q. QED
      BY <1>2a, <2>1, ItemsAssociative
  <1> DEFINE u == s \o v
  <1>5b. x \o y = u
    BY <1>5a DEF x
  <1> HIDE DEF v
  <1>6. u \in Items
    BY <1>1, <1>5, ItemsClosed
  <1> HIDE DEF u
  <1>7. u \o <<>> = u
    BY <1>6, ItemsEmpty
  <1>8. w \o (i \o a) = x \o y \o a
    BY <1>3a, <1>4
  <1>9. x \o y \o a = u \o <<>> \o a
    BY <1>5b, <1>7
  <1>q. QED
    BY <1>8, <1>9, Zenon DEF Regrouped, x, y, w, v, u

\* The parts of a pane's output are sequences of items.
LEMMA WholeTypes ==
  ASSUME TypeInv, NEW p \in Panes
  PROVE  /\ shown[p] \in Items /\ buffered[p] \in Items /\ held[p] \in Seq(Items)
         /\ FlattenSeq(held[p]) \in Items /\ Arriving(p, inbox) \in Items
         /\ printed[p] \in Seq(Kinds) /\ Len(printed[p]) \in Nat
  <1>1. /\ shown[p] \in Items /\ buffered[p] \in Items /\ held[p] \in Seq(Items)
        /\ printed[p] \in Seq(Kinds) /\ Len(printed[p]) \in Nat
    BY DEF TypeInv, PaneTypes
  <1>2. FlattenSeq(held[p]) \in Items
    BY <1>1, FlattenType DEF Items
  <1>3. Arriving(p, inbox) \in Items
    BY ArrivingType DEF TypeInv, InboxTypes
  <1>q. QED
    BY <1>1, <1>2, <1>3

LEMMA KeptElsewhere ==
  ASSUME NEW p, KeptAt(p), open' \subseteq open, disturbed \subseteq disturbed',
         p \in open' => (p \in paused => p \in paused'),
         p \in scrolled => p \in scrolled' \/ p \in disturbed',
         p \in open' => UNCHANGED <<shown[p], buffered[p], printed[p]>>,
         held'[p] = held[p] \/ p \in disturbed', Arriving(p, inbox') = Arriving(p, inbox)
  PROVE  KeptAt(p)'
  BY DEF KeptAt, Whole

LEMMA InitKept == Init => KeptInv
  <1> SUFFICES ASSUME Init, NEW p \in Panes PROVE KeptAt(p)
    BY DEF KeptInv
  <1>1. /\ shown[p] = <<>> /\ buffered[p] = <<>> /\ held[p] = <<>> /\ inbox = <<>>
        /\ printed[p] = <<>>
    BY DEF Init
  <1>2. FlattenSeq(<<>>) = <<>> /\ Arriving(p, <<>>) = <<>>
    <2>1. [i \in 1 .. Len(<<>>) |-> Output(p, <<>>[i])] = <<>>
      OBVIOUS
    <2>q. QED
      BY <2>1, FlattenEmpty DEF Arriving
  <1>3. <<>> \o <<>> = <<>> /\ [i \in 1 .. Len(<<>>) |-> i] = <<>>
    OBVIOUS
  <1>4. Whole(p) = <<>>
    BY <1>1, <1>2, <1>3 DEF Whole
  <1>q. QED
    BY <1>1, <1>3, <1>4 DEF KeptAt

LEMMA PrintsKept ==
  ASSUME TypeInv, KeptInv, NEW p \in Panes, Prints(p)
  PROVE  KeptInv'
  <1> DEFINE chunk == Head(script[p])
             items == [i \in 1 .. Len(chunk) |-> Len(printed[p]) + i]
             m == [what |-> "bytes", pane |-> p, items |-> items]
  <1>1. /\ printed' = [printed EXCEPT ![p] = @ \o chunk] /\ inbox' = Append(inbox, m)
        /\ UNCHANGED <<open, shown, buffered, paused, scrolled, held, disturbed>>
    BY DEF Prints, history
  <1>2. chunk \in Seq(Kinds) /\ Len(chunk) \in Nat
    BY DEF Prints, TypeInv, PaneTypes
  <1>3. items \in Items
    <2>1. Len(printed[p]) \in Nat
      BY WholeTypes
    <2> HIDE DEF chunk
    <2>2. \A i \in 1 .. Len(chunk) : items[i] \in Nat
      BY <1>2, <2>1
    <2>3. items = [i \in 1 .. Len(chunk) |-> items[i]]
      OBVIOUS
    <2> HIDE DEF items
    <2>q. QED
      BY <1>2, <2>2, <2>3, MapType DEF Items
  <1>4. Len(items) = Len(chunk) /\ \A i \in 1 .. Len(chunk) : items[i] = Len(printed[p]) + i
    <2> HIDE DEF chunk
    <2>q. QED
      BY <1>2
  <1> HIDE DEF chunk, items
  <1>5. m \in Messages
    BY <1>3 DEF Messages
  <1>6. ASSUME NEW q \in Panes PROVE Arriving(q, inbox') = Arriving(q, inbox) \o Output(q, m)
    <2>1. inbox \in Seq(Messages)
      BY DEF TypeInv, InboxTypes
    <2> HIDE DEF m
    <2>2. inbox' = inbox \o <<m>> /\ <<m>> \in Seq(Messages) /\ <<m>> # <<>>
          /\ Head(<<m>>) = m /\ Tail(<<m>>) = <<>>
      BY <1>1, <1>5, <2>1
    <2>3. Arriving(q, <<m>>) = Output(q, m) \o Arriving(q, <<>>)
      BY <2>2, ArrivingHead
    <2>4. Arriving(q, <<>>) = <<>>
      <3>1. [i \in 1 .. Len(<<>>) |-> Output(q, <<>>[i])] = <<>>
        OBVIOUS
      <3>q. QED
        BY <3>1, FlattenEmpty DEF Arriving
    <2>5. Output(q, m) \in Items
      BY <1>5, ItemsEmpty DEF Output, Messages
    <2>6. Output(q, m) \o <<>> = Output(q, m)
      BY <2>5, ItemsEmpty
    <2>7. Arriving(q, inbox \o <<m>>) = Arriving(q, inbox) \o Arriving(q, <<m>>)
      BY <2>1, <2>2, ArrivingConcat
    <2>q. QED
      BY <2>2, <2>3, <2>4, <2>6, <2>7
  <1>7. ASSUME NEW q \in Panes \ {p} PROVE KeptAt(q)'
    <2>1. Output(q, m) = <<>>
      BY DEF Output
    <2>2. Arriving(q, inbox') = Arriving(q, inbox)
      BY <1>6, <2>1, WholeTypes, ItemsEmpty
    <2>3. printed'[q] = printed[q]
      BY <1>1 DEF TypeInv, PaneTypes
    <2>q. QED
      BY <1>1, <2>2, <2>3, KeptElsewhere DEF KeptInv
  <1>8. KeptAt(p)'
    <2>1. Output(p, m) = items
      BY DEF Output
    <2> DEFINE x == shown[p] \o buffered[p] \o FlattenSeq(held[p])
               a == Arriving(p, inbox)
               n == Len(printed[p])
    <2>2. x \in Items /\ a \in Items /\ n \in Nat
      <3>1. /\ shown[p] \in Items /\ buffered[p] \in Items /\ FlattenSeq(held[p]) \in Items
            /\ a \in Items /\ n \in Nat
        BY WholeTypes
      <3>2. shown[p] \o buffered[p] \in Items
        BY <3>1, ItemsClosed
      <3>q. QED
        BY <3>1, <3>2, ItemsClosed
    <2>3. Whole(p)' = x \o (a \o items) /\ Whole(p) = x \o a
      BY <1>1, <1>6, <2>1 DEF Whole
    <2>4. printed'[p] = printed[p] \o chunk
      BY <1>1 DEF TypeInv, PaneTypes
    <2>5. Len(printed'[p]) = n + Len(chunk)
      BY <1>2, <2>4, WholeTypes
    <2> HIDE DEF x, a, n
    <2>6. x \o (a \o items) = (x \o a) \o items
      BY <1>3, <2>2, ItemsAssociative
    <2>7. ASSUME Whole(p) = [i \in 1 .. n |-> i]
          PROVE  Whole(p)' = [i \in 1 .. Len(printed'[p]) |-> i]
      <3> DEFINE y == [i \in 1 .. n |-> i]
                 z == [i \in 1 .. n + Len(chunk) |-> i]
      <3>1. y \in Seq(Nat) /\ z \in Seq(Nat) /\ Len(y) = n /\ Len(z) = n + Len(chunk)
            /\ (\A i \in 1 .. n : y[i] = i) /\ \A i \in 1 .. n + Len(chunk) : z[i] = i
        BY <1>2, <2>2
      <3> HIDE DEF y, z
      <3>2. items \in Seq(Nat) /\ Len(items) = Len(chunk)
            /\ \A i \in 1 .. Len(chunk) : items[i] = n + i
        BY <1>3, <1>4 DEF n, Items
      <3>3. y \o items \in Seq(Nat) /\ Len(y \o items) = n + Len(chunk)
            /\ \A i \in 1 .. n + Len(chunk) :
                 (y \o items)[i] = IF i <= n THEN y[i] ELSE items[i - n]
        <4>1. /\ Len(y \o items) = Len(y) + Len(items)
              /\ \A i \in 1 .. Len(y) + Len(items) :
                   (y \o items)[i] = IF i <= Len(y) THEN y[i] ELSE items[i - Len(y)]
          BY <3>1, <3>2, ItemsIndex DEF Items
        <4>2. y \o items \in Seq(Nat)
          BY <3>1, <3>2
        <4>q. QED
          BY <3>1, <3>2, <4>1, <4>2
      <3>4. ASSUME NEW i \in 1 .. n + Len(chunk) PROVE (y \o items)[i] = z[i]
        <4>1. CASE i <= n
          BY <1>2, <2>2, <3>1, <3>3, <4>1
        <4>2. CASE ~(i <= n)
          <5>1. i - n \in 1 .. Len(chunk)
            BY <1>2, <2>2, <4>2
          <5>2. items[i - n] = n + (i - n)
            BY <3>2, <5>1
          <5>3. n + (i - n) = i
            BY <1>2, <2>2
          <5>q. QED
            BY <3>1, <3>3, <4>2, <5>2, <5>3
        <4>q. QED
          BY <4>1, <4>2
      <3>5. y \o items = z
        BY <3>1, <3>3, <3>4, SeqEqual
      <3>6. Whole(p)' = y \o items
        BY <2>3, <2>6, <2>7 DEF y
      <3>q. QED
        BY <2>5, <3>5, <3>6 DEF z
    <2>q. QED
      BY <1>1, <2>7 DEF KeptInv, KeptAt, n
  <1>q. QED
    BY <1>7, <1>8 DEF KeptInv

LEMMA ProcessKept ==
  ASSUME TypeInv, KeptInv, NEW p, NEW items, NEW b, NEW kept, NEW answers, NEW rest,
         Call(p, items, b, kept, answers, rest),
         UNCHANGED <<printed, open, disturbed>>,
         \A q \in Panes \ {p} : /\ held'[q] = held[q] /\ (q \in scrolled => q \in scrolled')
                                /\ Arriving(q, rest) = Arriving(q, inbox),
         p \in open \ disturbed =>
           /\ p \in scrolled' \/ held'[p] = <<>>
           /\ shown[p] \o (kept \o items) \o FlattenSeq(held'[p]) \o Arriving(p, rest) = Whole(p)
  PROVE  KeptInv'
  <1>0. Outcome(p, items, kept, rest)
    BY ProcessKeeps, Zenon
  <1>1. /\ shown'[p] \o buffered'[p] = shown[p] \o (kept \o items)
        /\ p \notin paused' => buffered'[p] = <<>>
        /\ \A q \in Panes \ {p} : /\ shown'[q] = shown[q] /\ buffered'[q] = buffered[q]
                                 /\ (q \in paused' <=> q \in paused)
        /\ \A q \in Panes : Arriving(q, inbox') = Arriving(q, rest)
    BY <1>0, Zenon DEF Outcome
  <1>p. p \in Panes
    BY DEF Call
  <1>2. ASSUME NEW q \in Panes \ {p} PROVE KeptAt(q)'
    <2>1. UNCHANGED <<shown[q], buffered[q], printed[q]>> /\ held'[q] = held[q]
          /\ (q \in paused => q \in paused') /\ (q \in scrolled => q \in scrolled')
          /\ Arriving(q, inbox') = Arriving(q, inbox)
      BY <1>1
    <2>q. QED
      BY <2>1, KeptElsewhere DEF KeptInv
  <1>3. KeptAt(p)'
    <2>1. Whole(p)' = shown[p] \o (kept \o items) \o FlattenSeq(held'[p]) \o Arriving(p, rest)
      BY <1>p, <1>1 DEF Whole
    <2>q. QED
      BY <1>p, <1>1, <2>1 DEF KeptInv, KeptAt
  <1>q. QED
    BY <1>2, <1>3 DEF KeptInv

LEMMA ResumeKept ==
  ASSUME TypeInv, KeptInv, NEW p \in Panes, NEW answers, inbox # <<>>,
         Head(inbox).what # "bytes", Resume(p, answers, Tail(inbox)),
         UNCHANGED <<printed, open, disturbed, scrolled, held>>
  PROVE  KeptInv'
  <1>1. Tail(inbox) \in Seq(Messages) /\ inbox \in Seq(Messages)
    BY InboxHead DEF TypeInv, InboxTypes
  <1>2. ASSUME NEW q \in Panes PROVE Arriving(q, Tail(inbox)) = Arriving(q, inbox)
    <2>1. Output(q, Head(inbox)) = <<>>
      BY DEF Output
    <2>2. Arriving(q, inbox) = <<>> \o Arriving(q, Tail(inbox))
      BY <1>1, <2>1, ArrivingHead
    <2>3. Arriving(q, Tail(inbox)) \in Items
      BY <1>1, ArrivingType
    <2>q. QED
      BY <2>2, <2>3, ItemsEmpty
  <1>3. CASE p \in open
    <2>1. Process(p, buffered[p], FALSE, <<>>, answers, Tail(inbox))
      BY <1>3, Zenon DEF Resume
    <2>2. buffered[p] \in Items /\ <<>> \in Items
      BY WholeTypes, ItemsEmpty
    <2>3. p \in open \ disturbed =>
            /\ p \in scrolled' \/ held'[p] = <<>>
            /\ shown[p] \o (<<>> \o buffered[p]) \o FlattenSeq(held'[p])
                 \o Arriving(p, Tail(inbox)) = Whole(p)
      <3>1. <<>> \o buffered[p] = buffered[p]
        BY <2>2, ItemsEmpty
      <3>q. QED
        BY <1>2, <3>1 DEF KeptInv, KeptAt, Whole
    <2>4. \A q \in Panes \ {p} : /\ held'[q] = held[q] /\ (q \in scrolled => q \in scrolled')
                                 /\ Arriving(q, Tail(inbox)) = Arriving(q, inbox)
      BY <1>2
    <2>q. QED
      <3>1. Call(p, buffered[p], FALSE, <<>>, answers, Tail(inbox))
        BY <1>1, <2>1, <2>2, Zenon DEF Call
      <3>q. QED
        BY <2>3, <2>4, <3>1, ProcessKept, Zenon
  <1>4. CASE p \notin open
    <2>1. inbox' = Tail(inbox) /\ UNCHANGED <<shown, buffered, paused>>
      BY <1>4 DEF Resume
    <2>q. QED
      BY <1>2, <2>1, KeptElsewhere DEF KeptInv
  <1>q. QED
    BY <1>3, <1>4

LEMMA PtyBytesKept ==
  ASSUME TypeInv, KeptInv, HandlePtyBytes
  PROVE  KeptInv'
  <1>1. UNCHANGED <<printed, open, disturbed>> /\ inbox # <<>> /\ Head(inbox).what = "bytes"
    BY DEF HandlePtyBytes, history
  <1>2. Tail(inbox) \in Seq(Messages) /\ inbox \in Seq(Messages) /\ Head(inbox) \in Messages
    BY <1>1, InboxHead DEF TypeInv, InboxTypes
  <1>3. PICK p \in Panes, items \in Items : p = Head(inbox).pane /\ items = Head(inbox).items
    BY <1>1, <1>2 DEF Messages
  <1>4. PICK chunks : chunks = Append(held[p], items)
    OBVIOUS
  <1>5. PICK b \in BOOLEAN : b <=> p \in paused
    OBVIOUS
  <1>6. PICK s, k, h, a, j : s = shown[p] /\ k = buffered[p] /\ h = FlattenSeq(held[p])
                              /\ a = Arriving(p, Tail(inbox)) /\ j = h \o items
    OBVIOUS
  <1>7. s \in Items /\ k \in Items /\ h \in Items /\ a \in Items /\ j \in Items
    BY <1>2, <1>6, WholeTypes, ArrivingType, ItemsClosed
  <1>8. FlattenSeq(chunks) = j
    <2>1. held[p] \in Seq(Seq(Nat)) /\ items \in Seq(Nat)
      BY WholeTypes DEF Items
    <2>q. QED
      BY <1>4, <1>6, <2>1, FlattenAppend
  <1>9. \/ /\ p \notin open
           /\ inbox' = Tail(inbox)
           /\ UNCHANGED <<shown, buffered, paused, scrolled, held>>
        \/ /\ p \in open /\ p \in scrolled
           /\ held' = [held EXCEPT ![p] = chunks]
           /\ inbox' = Tail(inbox)
           /\ UNCHANGED <<shown, buffered, paused, scrolled>>
        \/ /\ p \in open /\ p \in scrolled
           /\ held' = [held EXCEPT ![p] = <<>>]
           /\ scrolled' = scrolled \ {p}
           /\ Process(p, j, b, k, <<>>, Tail(inbox))
        \/ /\ p \in open /\ p \notin scrolled
           /\ Process(p, items, b, k, <<>>, Tail(inbox))
           /\ UNCHANGED <<scrolled, held>>
    <2>1. Len(chunks) \in Nat
      BY <1>4, WholeTypes
    <2>2. p \notin open \/ (p \in open \cap scrolled /\ Len(chunks) < MaxHeld)
          \/ (p \in open \cap scrolled /\ Len(chunks) >= MaxHeld) \/ p \in open \ scrolled
      BY <2>1, HeldAssumption
    <2>3. b = (p \in paused)
      BY <1>5
    <2>4. (p \in open \cap scrolled => p \in open /\ p \in scrolled)
          /\ (p \in open \ scrolled => p \in open /\ p \notin scrolled)
      OBVIOUS
    <2>5. \/ /\ p \notin open
             /\ inbox' = Tail(inbox)
             /\ UNCHANGED <<shown, buffered, paused, scrolled, held, writer>>
          \/ /\ p \in open \cap scrolled
             /\ held' = [held EXCEPT ![p] = chunks]
             /\ inbox' = Tail(inbox)
             /\ UNCHANGED <<shown, buffered, paused, scrolled, writer>>
          \/ /\ p \in open \cap scrolled
             /\ held' = [held EXCEPT ![p] = <<>>]
             /\ scrolled' = scrolled \ {p}
             /\ Process(p, FlattenSeq(chunks), p \in paused, buffered[p], <<>>, Tail(inbox))
          \/ /\ p \in open \ scrolled
             /\ Process(p, items, p \in paused, buffered[p], <<>>, Tail(inbox))
             /\ UNCHANGED <<scrolled, held>>
      BY <1>3, <1>4, <2>2, Zenon DEF HandlePtyBytes
    <2>q. QED
      BY <1>6, <1>8, <2>3, <2>4, <2>5, Zenon
  <1>10. Arriving(p, inbox) = items \o a
    <2>1. Output(p, Head(inbox)) = items
      BY <1>1, <1>3 DEF Output
    <2>q. QED
      BY <1>1, <1>2, <1>6, <2>1, ArrivingHead
  <1>11. ASSUME NEW q \in Panes \ {p} PROVE Arriving(q, Tail(inbox)) = Arriving(q, inbox)
    <2>1. Output(q, Head(inbox)) = <<>>
      BY <1>3 DEF Output
    <2>2. Arriving(q, inbox) = <<>> \o Arriving(q, Tail(inbox))
      BY <1>1, <1>2, <2>1, ArrivingHead
    <2>3. Arriving(q, Tail(inbox)) \in Items
      BY <1>2, ArrivingType
    <2>q. QED
      BY <2>2, <2>3, ItemsEmpty
  <1>12. Whole(p) = s \o k \o j \o a /\ Whole(p) = (s \o (k \o j)) \o <<>> \o a
    <2>1. Parts(s, k, h, items, a)
      BY <1>3, <1>7, Zenon DEF Parts
    <2>2. Regrouped(s, k, h, items, a)
      BY <2>1, Regroup, Zenon
    <2>3. Whole(p) = s \o k \o h \o (items \o a)
      BY <1>6, <1>10 DEF Whole
    <2>q. QED
      BY <1>6, <2>2, <2>3, Zenon DEF Regrouped
  <1>14. p \in open => b \/ k = <<>>
    BY <1>5, <1>6 DEF KeptInv, KeptAt
  <1>15. CASE /\ p \notin open
              /\ inbox' = Tail(inbox)
              /\ UNCHANGED <<shown, buffered, paused, scrolled, held>>
    <2>1. ASSUME NEW q \in Panes \ {p} PROVE KeptAt(q)'
      BY <1>1, <1>11, <1>15, KeptElsewhere DEF KeptInv
    <2>2. KeptAt(p)'
      BY <1>1, <1>15 DEF KeptAt
    <2>q. QED
      BY <2>1, <2>2 DEF KeptInv
  <1>16. CASE /\ p \in open /\ p \in scrolled
              /\ held' = [held EXCEPT ![p] = chunks]
              /\ inbox' = Tail(inbox)
              /\ UNCHANGED <<shown, buffered, paused, scrolled>>
    <2>1. held'[p] = chunks /\ \A q \in Panes \ {p} : held'[q] = held[q]
      BY <1>16 DEF TypeInv, PaneTypes
    <2>2. ASSUME NEW q \in Panes \ {p} PROVE KeptAt(q)'
      BY <1>1, <1>11, <1>16, <2>1, KeptElsewhere DEF KeptInv
    <2>3. Whole(p)' = s \o k \o j \o a
      BY <1>6, <1>8, <1>16, <2>1 DEF Whole
    <2>4. KeptAt(p)'
      BY <1>1, <1>12, <1>16, <2>3 DEF KeptInv, KeptAt
    <2>q. QED
      BY <2>2, <2>4 DEF KeptInv
  <1>17. CASE /\ p \in open /\ p \in scrolled
              /\ held' = [held EXCEPT ![p] = <<>>]
              /\ scrolled' = scrolled \ {p}
              /\ Process(p, j, b, k, <<>>, Tail(inbox))
    <2>1. held'[p] = <<>> /\ \A q \in Panes \ {p} : held'[q] = held[q]
      BY <1>17 DEF TypeInv, PaneTypes
    <2>2. /\ shown[p] \o (k \o j) \o FlattenSeq(held'[p]) \o Arriving(p, Tail(inbox)) = Whole(p)
          /\ p \in scrolled' \/ held'[p] = <<>>
      BY <1>6, <1>12, <2>1, FlattenEmpty
    <2>3. \A q \in Panes \ {p} : /\ held'[q] = held[q] /\ (q \in scrolled => q \in scrolled')
                                 /\ Arriving(q, Tail(inbox)) = Arriving(q, inbox)
      BY <1>11, <1>17, <2>1
    <2>4. b \/ k = <<>>
      BY <1>14, <1>17
    <2>5. Call(p, j, b, k, <<>>, Tail(inbox))
      BY <1>2, <1>7, <1>17, <2>4, Zenon DEF Call
    <2>q. QED
      BY <1>1, <2>2, <2>3, <2>5, ProcessKept, Zenon
  <1>18. CASE /\ p \in open /\ p \notin scrolled
              /\ Process(p, items, b, k, <<>>, Tail(inbox))
              /\ UNCHANGED <<scrolled, held>>
    <2>1. p \in open \ disturbed => held[p] = <<>>
      BY <1>18 DEF KeptInv, KeptAt
    <2>2. p \in open \ disturbed =>
            /\ p \in scrolled' \/ held'[p] = <<>>
            /\ shown[p] \o (k \o items) \o FlattenSeq(held'[p]) \o Arriving(p, Tail(inbox))
                 = Whole(p)
      <3>1. SUFFICES ASSUME p \in open \ disturbed
                     PROVE  s \o (k \o items) \o FlattenSeq(held'[p]) \o a = Whole(p)
        BY <1>6, <1>18, <2>1
      <3>2. h = <<>> /\ FlattenSeq(held'[p]) = <<>>
        BY <1>6, <1>18, <2>1, <3>1, FlattenEmpty
      <3>3. j = items
        BY <1>6, <3>2, ItemsEmpty
      <3>q. QED
        BY <1>12, <3>2, <3>3
    <2>3. \A q \in Panes \ {p} : /\ held'[q] = held[q] /\ (q \in scrolled => q \in scrolled')
                                 /\ Arriving(q, Tail(inbox)) = Arriving(q, inbox)
      BY <1>11, <1>18
    <2>4. b \/ k = <<>>
      BY <1>14, <1>18
    <2>5. Call(p, items, b, k, <<>>, Tail(inbox))
      BY <1>2, <1>7, <1>18, <2>4, Zenon DEF Call
    <2>q. QED
      BY <1>1, <2>2, <2>3, <2>5, ProcessKept, Zenon
  <1>q. QED
    BY <1>9, <1>15, <1>16, <1>17, <1>18, Zenon

LEMMA ScrollToBottomKept ==
  ASSUME TypeInv, KeptInv, NEW p \in Panes, ScrollToBottom(p)
  PROVE  KeptInv'
  <1>1. /\ p \in open /\ p \in scrolled /\ scrolled' = scrolled \ {p}
        /\ held' = [held EXCEPT ![p] = <<>>]
        /\ Process(p, FlattenSeq(held[p]), p \in paused, buffered[p], <<>>, inbox)
        /\ UNCHANGED <<printed, open, disturbed>>
    BY DEF ScrollToBottom, Command
  <1>2. PICK b \in BOOLEAN : b <=> p \in paused
    OBVIOUS
  <1>3. PICK k, h : k = buffered[p] /\ h = FlattenSeq(held[p])
    OBVIOUS
  <1>4. k \in Items /\ h \in Items /\ shown[p] \in Items /\ inbox \in Seq(Messages)
    BY <1>3, WholeTypes DEF TypeInv, InboxTypes
  <1>5. held'[p] = <<>> /\ \A q \in Panes \ {p} : held'[q] = held[q]
    BY <1>1 DEF TypeInv, PaneTypes
  <1>6. b \/ k = <<>>
    BY <1>1, <1>2, <1>3 DEF KeptInv, KeptAt
  <1>7. Call(p, h, b, k, <<>>, inbox)
    <2>1. b = (p \in paused)
      BY <1>2
    <2>2. Process(p, h, b, k, <<>>, inbox)
      BY <1>1, <1>3, <2>1, Zenon
    <2>q. QED
      BY <1>4, <1>6, <2>2, Zenon DEF Call
  <1>8. PICK s, a : s = shown[p] /\ a = Arriving(p, inbox)
    OBVIOUS
  <1>9. s \in Items /\ a \in Items
    BY <1>8, WholeTypes
  <1>10. Whole(p) = s \o k \o h \o a
    BY <1>3, <1>8 DEF Whole
  <1>11. s \o k \o h \o a = s \o (k \o h) \o <<>> \o a
    <2>1. Parts(s, k, h, <<>>, a)
      BY <1>4, <1>9, ItemsEmpty, Zenon DEF Parts
    <2>2. h \o <<>> = h
      BY <1>4, ItemsEmpty
    <2>3. Regrouped(s, k, h, <<>>, a)
      BY <2>1, Regroup, Zenon
    <2>q. QED
      BY <2>2, <2>3, Zenon DEF Regrouped
  <1>12. p \in open \ disturbed =>
           /\ p \in scrolled' \/ held'[p] = <<>>
           /\ shown[p] \o (k \o h) \o FlattenSeq(held'[p]) \o Arriving(p, inbox) = Whole(p)
    BY <1>5, <1>8, <1>10, <1>11, FlattenEmpty
  <1>13. \A q \in Panes \ {p} : /\ held'[q] = held[q] /\ (q \in scrolled => q \in scrolled')
                                /\ Arriving(q, inbox) = Arriving(q, inbox)
    BY <1>1, <1>5
  <1>q. QED
    BY <1>1, <1>7, <1>12, <1>13, ProcessKept, Zenon

LEMMA CommandsKept ==
  ASSUME TypeInv, KeptInv, NEW p \in Panes,
         ScrollUp(p) \/ ScrollTerminalDown(p) \/ MoveToTab(p) \/ ClosePane(p)
  PROVE  KeptInv'
  <1>1. /\ open' \subseteq open /\ disturbed \subseteq disturbed'
        /\ UNCHANGED <<printed, shown, inbox>>
        /\ \A q \in Panes : /\ q \in open' => (q \in paused => q \in paused')
                            /\ q \in scrolled => q \in scrolled' \/ q \in disturbed'
                                                 \/ q \notin open'
                            /\ q \in open' => buffered'[q] = buffered[q]
                            /\ held'[q] = held[q] \/ q \in disturbed'
    <2>1. CASE ScrollUp(p)
      BY <2>1 DEF ScrollUp, Command
    <2>2. CASE ScrollTerminalDown(p)
      BY <2>2 DEF ScrollTerminalDown, Command, Disturb
    <2>3. CASE MoveToTab(p)
      BY <2>3 DEF MoveToTab, Command, Disturb, TypeInv, PaneTypes
    <2>4. CASE ClosePane(p)
      BY <2>4 DEF ClosePane, Command, TypeInv, PaneTypes
    <2>q. QED
      BY <2>1, <2>2, <2>3, <2>4
  <1>2. ASSUME NEW q \in Panes PROVE KeptAt(q)'
    <2>1. CASE q \in open'
      BY <1>1, <2>1 DEF KeptInv, KeptAt, Whole
    <2>2. CASE q \notin open'
      BY <2>2 DEF KeptAt
    <2>q. QED
      BY <2>1, <2>2
  <1>q. QED
    BY <1>2 DEF KeptInv

LEMMA OthersKept ==
  ASSUME KeptInv,
         UNCHANGED <<printed, open, shown, buffered, paused, scrolled, held, disturbed>>,
         \A q \in Panes : Arriving(q, inbox') = Arriving(q, inbox)
  PROVE  KeptInv'
  BY DEF KeptInv, KeptAt, Whole

\* A message that is not output may be taken from the channel or added to it.
LEMMA TailKept ==
  ASSUME TypeInv, inbox # <<>>, Head(inbox).what # "bytes", NEW q \in Panes
  PROVE  Arriving(q, Tail(inbox)) = Arriving(q, inbox)
  <1>1. inbox \in Seq(Messages) /\ Tail(inbox) \in Seq(Messages)
    BY InboxHead DEF TypeInv, InboxTypes
  <1>2. Output(q, Head(inbox)) = <<>>
    BY DEF Output
  <1>3. Arriving(q, inbox) = <<>> \o Arriving(q, Tail(inbox))
    BY <1>1, <1>2, ArrivingHead
  <1>4. Arriving(q, Tail(inbox)) \in Items
    BY <1>1, ArrivingType
  <1>q. QED
    BY <1>3, <1>4, ItemsEmpty

LEMMA ReplyKept ==
  ASSUME TypeInv, NEW t \in Nat, NEW answers \in Seq(Units), NEW q \in Panes
  PROVE  Arriving(q, Append(inbox, Reply(t, answers))) = Arriving(q, inbox)
  <1>1. Reply(t, answers) \in Messages /\ Reply(t, answers).what # "bytes"
    BY DEF Reply, Messages
  <1>2. inbox \in Seq(Messages)
    BY DEF TypeInv, InboxTypes
  <1>q. QED
    BY <1>1, <1>2, ArrivingAppend

LEMMA ScreenKept ==
  ASSUME TypeInv, KeptInv, ForwardHostQuery \/ AnswerColorMode \/ HandleForwardedReply
  PROVE  KeptInv'
  <1>1. inbox # <<>> /\ Head(inbox).what # "bytes" /\ Head(inbox) \in Messages
        /\ UNCHANGED <<printed, open, scrolled, held, disturbed>>
    BY InboxHead DEF ForwardHostQuery, AnswerColorMode, HandleForwardedReply, paneVars, history
  <1>2. CASE inbox' = Tail(inbox) /\ UNCHANGED <<shown, buffered, paused>>
    BY <1>1, <1>2, TailKept, OthersKept
  <1>3. CASE ForwardHostQuery
    BY <1>2, <1>3 DEF ForwardHostQuery, paneVars
  <1>4. CASE AnswerColorMode
    <2>1. PICK q, p : q = Head(inbox).query /\ p = q.pane
      OBVIOUS
    <2>2. p \in Panes
      BY <1>1, <1>4, <2>1 DEF AnswerColorMode, Messages, Units
    <2>3. \/ Resume(p, <<q>>, Tail(inbox))
          \/ Resume(p, <<>>, Tail(inbox))
          \/ inbox' = Tail(inbox) /\ UNCHANGED <<writer, shown, buffered, paused>>
      BY <1>4, <2>1, Zenon DEF AnswerColorMode
    <2>q. QED
      BY <1>1, <1>2, <2>2, <2>3, ResumeKept
  <1>5. CASE HandleForwardedReply
    <2>1. CASE IsStale(Head(inbox).token)
      BY <1>2, <1>5, <2>1 DEF HandleForwardedReply
    <2>2. CASE ~IsStale(Head(inbox).token)
      <3>1. PICK q, p : q = forward[1].query /\ p = q.pane
        OBVIOUS
      <3>2. p \in Panes
        <4>1. forward \in Seq(Asked) /\ forward # <<>>
          BY <2>2 DEF IsStale, TypeInv, ForwardTypes
        <4>2. forward[1] \in Asked
          BY <4>1
        <4>q. QED
          BY <3>1, <4>2 DEF Asked, Units
      <3>3. PICK answers : Resume(p, answers, Tail(inbox))
        BY <1>5, <2>2, <3>1, Zenon DEF HandleForwardedReply
      <3>q. QED
        BY <1>1, <3>2, <3>3, ResumeKept
    <2>q. QED
      BY <2>1, <2>2
  <1>q. QED
    BY <1>3, <1>4, <1>5

LEMMA ServerKept ==
  ASSUME TypeInv, KeptInv,
         \/ \E token \in timers : ServerTimer(token)
         \/ ForwardQueryToHost \/ RemoveClient
         \/ \E c \in Clients : Route(c)
  PROVE  KeptInv'
  <1>1. UNCHANGED <<printed, open, shown, buffered, paused, scrolled, held, disturbed>>
    BY DEF ServerTimer, ForwardQueryToHost, RemoveClient, Route, paneVars, history
  <1>2. SUFFICES ASSUME NEW q \in Panes PROVE Arriving(q, inbox') = Arriving(q, inbox)
    BY <1>1, OthersKept
  <1>3. <<>> \in Seq(Units)
    OBVIOUS
  <1>4. ASSUME NEW token \in timers, ServerTimer(token)
        PROVE  Arriving(q, inbox') = Arriving(q, inbox)
    <2>1. token \in Nat
      BY DEF TypeInv, ForwardTypes
    <2>q. QED
      BY <1>3, <1>4, <2>1, ReplyKept DEF ServerTimer
  <1>5. CASE ForwardQueryToHost
    <2>1. Head(server).to.token \in Nat
      <3>1. Head(server) \in Requests /\ Head(server).what = "forward"
        BY <1>5 DEF ForwardQueryToHost, TypeInv, ServerTypes
      <3>2. nextToken \in Nat
        BY DEF TypeInv, ForwardTypes
      <3>q. QED
        BY <3>1, <3>2 DEF Requests, Asked
    <2>2. inbox' = inbox \/ inbox' = Append(inbox, Reply(Head(server).to.token, <<>>))
      BY <1>5 DEF ForwardQueryToHost
    <2>q. QED
      BY <1>3, <2>1, <2>2, ReplyKept
  <1>6. CASE RemoveClient
    <2>1. PICK f \in Seq(Messages) : /\ inbox' = inbox \o f
                                     /\ \A i \in 1 .. Len(f) : f[i].what = "reply"
      BY <1>6, Released
    <2>2. inbox \in Seq(Messages)
      BY DEF TypeInv, InboxTypes
    <2>q. QED
      BY <2>1, <2>2, ArrivingNone
  <1>7. ASSUME NEW c \in Clients, Route(c) PROVE Arriving(q, inbox') = Arriving(q, inbox)
    <2>1. outbound[c] \in Seq(Outbound) /\ outbound[c] # <<>>
      BY <1>7 DEF Route, TypeInv, ClientTypes
    <2>2. Head(outbound[c]).token \in Nat /\ Head(outbound[c]).answers \in Seq(Units)
      <3>1. Head(outbound[c]) \in Outbound
        BY <2>1
      <3>q. QED
        BY <3>1 DEF Outbound
    <2>3. inbox' = inbox
          \/ inbox' = Append(inbox, Reply(Head(outbound[c]).token, Head(outbound[c]).answers))
      BY <1>7 DEF Route
    <2>q. QED
      BY <2>2, <2>3, ReplyKept
  <1>q. QED
    BY <1>4, <1>5, <1>6, <1>7

LEMMA InboxKept ==
  ASSUME KeptInv,
         UNCHANGED <<printed, open, shown, buffered, paused, scrolled, held, disturbed, inbox>>
  PROVE  KeptInv'
  BY DEF KeptInv, KeptAt, Whole

LEMMA OutputStep == TypeInv /\ KeptInv /\ [Next]_vars => KeptInv'
  <1> SUFFICES ASSUME TypeInv, KeptInv, [Next]_vars PROVE KeptInv'
    OBVIOUS
  <1>1. CASE User
    <2>1. ASSUME NEW p \in Panes, Prints(p) \/ ScrollUp(p) \/ ScrollToBottom(p)
                 \/ ScrollTerminalDown(p) \/ MoveToTab(p) \/ ClosePane(p)
          PROVE  KeptInv'
      BY <2>1, PrintsKept, CommandsKept, ScrollToBottomKept
    <2>2. ASSUME NEW c \in Clients, ClientLeaves(c) PROVE KeptInv'
      BY <2>2, InboxKept DEF ClientLeaves, paneVars, history
    <2>q. QED
      BY <1>1, <2>1, <2>2 DEF User
  <1>2. CASE ScreenStep
    BY <1>2, PtyBytesKept, ScreenKept DEF ScreenStep
  <1>3. CASE ServerStep
    BY <1>3, ServerKept DEF ServerStep
  <1>4. CASE WriterStep
    <2>1. UNCHANGED <<printed, open, shown, buffered, paused, scrolled, held, disturbed, inbox>>
      BY <1>4 DEF WriterStep, HandleWrite, Retry, history
    <2>q. QED
      BY <2>1, InboxKept
  <1>5. CASE \E token \in timers : ServerTimer(token)
    BY <1>5, ServerKept
  <1>6. ASSUME NEW c \in Clients,
               Route(c) \/ OpenForward(c) \/ HostTerminal(c) \/ ClientTimer(c)
        PROVE  KeptInv'
    <2>1. CASE Route(c)
      BY <2>1, ServerKept
    <2>2. CASE OpenForward(c) \/ HostTerminal(c) \/ ClientTimer(c)
      <3>1. UNCHANGED <<printed, open, shown, buffered, paused, scrolled, held, disturbed,
                        inbox>>
        BY <2>2 DEF OpenForward, HostTerminal, ClientTimer, paneVars, history
      <3>q. QED
        BY <3>1, InboxKept
    <2>q. QED
      BY <1>6, <2>1, <2>2
  <1>7. CASE UNCHANGED vars
    BY <1>7, InboxKept DEF vars, paneVars, history
  <1>q. QED
    BY <1>1, <1>2, <1>3, <1>4, <1>5, <1>6, <1>7 DEF Next

\* Whatever the panes and the terminals do, nothing that a program prints is
\* lost, doubled or put into another order on its way to the screen, except in
\* a pane that is closed or that has been disturbed.
THEOREM OutputIsKept == Spec => []OutputKept
  <1>1. Init => TypeInv /\ KeptInv
    BY InitTypes, InitKept
  <1>2. TypeInv /\ KeptInv /\ [Next]_vars => (TypeInv /\ KeptInv)'
    BY TypesKept, OutputStep
  <1>3. TypeInv /\ KeptInv => OutputKept
    <2> SUFFICES ASSUME TypeInv, KeptInv, NEW p \in open \ disturbed
                 PROVE  Whole(p) = [i \in 1 .. Len(printed[p]) |-> i]
      BY DEF OutputKept, Whole
    <2>1. p \in Panes
      BY DEF TypeInv, WriterTypes
    <2>q. QED
      BY <2>1 DEF KeptInv, KeptAt
  <1>q. QED
    BY <1>1, <1>2, <1>3, PTL DEF Spec
=============================================================================
