---------------------------- MODULE RelexingProofs ----------------------------
(***************************************************************************)
(* What holds of the tokens of every text, and of every text after an      *)
(* edit.                                                                   *)
(***************************************************************************)
EXTENDS Relexing, LexerProofs

(***************************************************************************)
(* The depth of brackets, and the number of tokens of some kinds, over the *)
(* first tokens.                                                           *)
(***************************************************************************)
IsOpened(f, toks) ==
  f = [n \in 0 .. Len(toks) |->
         IF n = 0 THEN 0
         ELSE CASE toks[n].kind \in Opener -> f[n - 1] + 1
                [] toks[n].kind \in Closer -> Lower(f[n - 1])
                [] OTHER -> f[n - 1]]

LEMMA OpenedExists ==
  ASSUME NEW toks, Len(toks) \in Nat
  PROVE  \E f : IsOpened(f, toks)
<1> DEFINE N == Len(toks)
           Behind(v, n) == CASE toks[n].kind \in Opener -> v + 1
                             [] toks[n].kind \in Closer -> Lower(v)
                             [] OTHER -> v
           Solves(g, k) ==
             \A n \in 0 .. k : g[n] = IF n = 0 THEN 0 ELSE Behind(g[n - 1], n)
           S == {k \in 0 .. N : \E g : Solves(g, k)}
<1> HIDE DEF Behind
<1>1. 0 \in S
  <2>1. Solves([n \in 0 .. N |-> 0], 0)
    OBVIOUS
  <2> HIDE DEF Solves
  <2> QED BY <2>1
<1>2. ASSUME NEW k \in 0 .. N - 1, k \in S PROVE k + 1 \in S
  <2>1. PICK g : Solves(g, k)
    BY <1>2
  <2> DEFINE h == [n \in 0 .. N |-> IF n = k + 1 THEN Behind(g[k], n) ELSE g[n]]
  <2>2. /\ h[k + 1] = Behind(g[k], k + 1)
        /\ \A n \in 0 .. k : h[n] = g[n]
    OBVIOUS
  <2> HIDE DEF h
  <2>3. ASSUME NEW n \in 0 .. k + 1
        PROVE  h[n] = IF n = 0 THEN 0 ELSE Behind(h[n - 1], n)
    <3>1. CASE n = k + 1
      <4>1. h[n - 1] = g[k] /\ n # 0
        BY <2>2, <3>1
      <4> QED BY <2>2, <3>1, <4>1
    <3>2. CASE n # k + 1
      <4>1. n \in 0 .. k /\ (n # 0 => n - 1 \in 0 .. k)
        BY <3>2
      <4> QED BY <2>1, <2>2, <4>1
    <3> QED BY <3>1, <3>2
  <2>4. Solves(h, k + 1)
    BY <2>3
  <2> HIDE DEF Solves
  <2> QED BY <2>4
<1>3. N \in S
  <2> HIDE DEF S
  <2>1. \A k \in 0 .. N - 1 : k \in S => k + 1 \in S
    BY <1>2
  <2>2. \A k \in 0 .. N : k \in S
    BY <1>1, <2>1, Upwards
  <2> QED BY <2>2
<1>4. PICK g : Solves(g, N)
  <2> HIDE DEF Solves
  <2> QED BY <1>3
<1> DEFINE f == [n \in 0 .. N |-> g[n]]
<1>5. f = [n \in 0 .. N |-> IF n = 0 THEN 0 ELSE Behind(f[n - 1], n)]
  <2>1. ASSUME NEW n \in 0 .. N
        PROVE  g[n] = IF n = 0 THEN 0 ELSE Behind(f[n - 1], n)
    <3>1. n # 0 => f[n - 1] = g[n - 1]
      OBVIOUS
    <3> HIDE DEF f
    <3> QED BY <1>4, <3>1
  <2> QED BY <2>1
<1> HIDE DEF f
<1>6. IsOpened(f, toks)
  BY <1>5 DEF IsOpened, Behind
<1> QED BY <1>6

LEMMA OpenedDef ==
  ASSUME NEW toks, Len(toks) \in Nat
  PROVE  /\ Opened(toks)[0] = 0
         /\ \A n \in 1 .. Len(toks) :
              Opened(toks)[n] = DepthBehind(Opened(toks)[n - 1], toks[n].kind)
<1> DEFINE f == CHOOSE g : IsOpened(g, toks)
<1>1. IsOpened(f, toks)
  BY OpenedExists
<1>2. Opened(toks) = f
  BY DEF Opened, IsOpened
<1> HIDE DEF f
<1>3. f[0] = 0
  BY <1>1 DEF IsOpened
<1>4. ASSUME NEW n \in 1 .. Len(toks)
      PROVE  f[n] = DepthBehind(f[n - 1], toks[n].kind)
  <2>1. n \in 0 .. Len(toks) /\ n # 0
    OBVIOUS
  <2>2. f[n] = CASE toks[n].kind \in Opener -> f[n - 1] + 1
                 [] toks[n].kind \in Closer -> Lower(f[n - 1])
                 [] OTHER -> f[n - 1]
    BY <1>1, <2>1 DEF IsOpened
  <2> QED BY <2>2 DEF DepthBehind
<1> QED BY <1>2, <1>3, <1>4

\* The facts about Append that all of the following need.
LEMMA Appended ==
  ASSUME NEW S, NEW q \in Seq(S), NEW c \in S
  PROVE  LET r == Append(q, c)
         IN  /\ r \in Seq(S) /\ Len(q) \in Nat /\ Len(r) = Len(q) + 1
             /\ DOMAIN q = 1 .. Len(q) /\ DOMAIN r = 1 .. Len(q) + 1
             /\ r[Len(q) + 1] = c /\ \A i \in 1 .. Len(q) : r[i] = q[i]
<1>1. Len(q) \in Nat /\ DOMAIN q = 1 .. Len(q)
  BY LenProperties
<1>2. /\ Append(q, c) \in Seq(S) /\ Len(Append(q, c)) = Len(q) + 1
      /\ Append(q, c)[Len(q) + 1] = c
      /\ \A i \in 1 .. Len(q) : Append(q, c)[i] = q[i]
  BY AppendProperties
<1>3. DOMAIN Append(q, c) = 1 .. Len(q) + 1
  BY <1>2, LenProperties
<1> QED BY <1>1, <1>2, <1>3

LEMMA OpenedAppend ==
  ASSUME NEW q \in Seq(Tok), NEW c \in Tok
  PROVE  LET r == Append(q, c)
         IN  /\ Opened(r)[Len(q)] = Opened(q)[Len(q)]
             /\ Opened(r)[Len(q) + 1]
                  = DepthBehind(Opened(q)[Len(q)], c.kind)
<1> DEFINE r == Append(q, c)
           N == Len(q)
           S == {n \in 0 .. N : Opened(r)[n] = Opened(q)[n]}
<1>1. /\ N \in Nat /\ Len(r) = N + 1 /\ r[N + 1] = c
      /\ \A i \in 1 .. N : r[i] = q[i]
  BY Appended
<1>2. Len(r) \in Nat
  BY <1>1
<1> HIDE DEF r
<1>3. /\ Opened(q)[0] = 0 /\ Opened(r)[0] = 0
      /\ \A n \in 1 .. N :
           Opened(q)[n] = DepthBehind(Opened(q)[n - 1], q[n].kind)
      /\ \A n \in 1 .. N + 1 :
           Opened(r)[n] = DepthBehind(Opened(r)[n - 1], r[n].kind)
  BY <1>1, <1>2, OpenedDef
<1> HIDE DEF N
<1>4. 0 \in S
  BY <1>1, <1>3
<1>5. ASSUME NEW k \in 0 .. N - 1, k \in S PROVE k + 1 \in S
  <2>1. k + 1 \in 1 .. N /\ k + 1 \in 1 .. N + 1 /\ (k + 1) - 1 = k
        /\ k + 1 \in 0 .. N
    BY <1>1
  <2>2. Opened(r)[k] = Opened(q)[k]
    BY <1>5
  <2>3. Opened(r)[k + 1] = Opened(q)[k + 1]
    BY <1>1, <1>3, <2>1, <2>2
  <2> QED BY <2>1, <2>3
<1>6. Opened(r)[N] = Opened(q)[N]
  <2> HIDE DEF S
  <2>1. \A k \in 0 .. N : k \in S
    BY <1>1, <1>4, <1>5, Upwards
  <2>2. N \in S
    BY <1>1, <2>1
  <2> QED BY <2>2 DEF S
<1>7. Opened(r)[N + 1] = DepthBehind(Opened(q)[N], c.kind)
  <2>1. N + 1 \in 1 .. N + 1 /\ (N + 1) - 1 = N
    BY <1>1
  <2> QED BY <1>1, <1>3, <1>6, <2>1
<1> QED BY <1>6, <1>7 DEF r, N

Number(toks, kinds, n) == Cardinality({i \in 1 .. n : toks[i].kind \in kinds})

LEMMA NumberType ==
  ASSUME NEW toks, NEW kinds, NEW n \in Nat
  PROVE  /\ IsFiniteSet({i \in 1 .. n : toks[i].kind \in kinds})
         /\ Number(toks, kinds, n) \in Nat
<1> DEFINE T == {i \in 1 .. n : toks[i].kind \in kinds}
<1>1. IsFiniteSet(1 .. n)
  BY FS_Interval
<1>2. T \subseteq 1 .. n
  OBVIOUS
<1> HIDE DEF T
<1>3. IsFiniteSet(T)
  BY <1>1, <1>2, FS_Subset
<1>4. Cardinality(T) \in Nat
  BY <1>3, FS_CardinalityType
<1> QED BY <1>3, <1>4 DEF T, Number

LEMMA NumberAppend ==
  ASSUME NEW q \in Seq(Tok), NEW c \in Tok, NEW kinds
  PROVE  LET r == Append(q, c)
             N == Len(q)
         IN  /\ \A n \in 0 .. N : Number(r, kinds, n) = Number(q, kinds, n)
             /\ Number(r, kinds, N + 1)
                  = Number(q, kinds, N) + (IF c.kind \in kinds THEN 1 ELSE 0)
<1> DEFINE r == Append(q, c)
           N == Len(q)
           T(s, n) == {i \in 1 .. n : s[i].kind \in kinds}
<1>1. /\ N \in Nat /\ r[N + 1] = c /\ \A i \in 1 .. N : r[i] = q[i]
  BY Appended
<1> HIDE DEF r, N
<1>2. ASSUME NEW n \in 0 .. N PROVE T(r, n) = T(q, n)
  <2>1. \A i \in 1 .. n : i \in 1 .. N
    BY <1>1
  <2> QED BY <1>1, <2>1
<1>3. T(r, N + 1) = T(r, N) \cup (IF c.kind \in kinds THEN {N + 1} ELSE {})
  <2>1. 1 .. N + 1 = (1 .. N) \cup {N + 1}
    BY <1>1
  <2> QED BY <1>1, <2>1
<1>4. N + 1 \notin T(q, N) /\ IsFiniteSet(T(q, N))
      /\ Cardinality(T(q, N)) \in Nat /\ N \in 0 .. N
  <2>1. IsFiniteSet(T(q, N)) /\ Number(q, kinds, N) \in Nat
    BY <1>1, NumberType
  <2>2. N + 1 \notin T(q, N) /\ N \in 0 .. N
    BY <1>1
  <2>3. Cardinality(T(q, N)) \in Nat
    BY <2>1 DEF Number
  <2> QED BY <2>1, <2>2, <2>3
<1> HIDE DEF T
<1>5. Cardinality(T(q, N) \cup {N + 1}) = Cardinality(T(q, N)) + 1
  BY <1>4, FS_AddElement
<1>6. Cardinality(T(r, N + 1))
        = Cardinality(T(q, N)) + (IF c.kind \in kinds THEN 1 ELSE 0)
  <2>1. T(r, N) = T(q, N)
    BY <1>2, <1>4
  <2>2. CASE c.kind \in kinds
    BY <1>3, <1>5, <2>1, <2>2
  <2>3. CASE c.kind \notin kinds
    <3>1. T(r, N + 1) = T(q, N)
      BY <1>3, <2>1, <2>3
    <3> QED BY <1>4, <2>3, <3>1
  <2> QED BY <2>2, <2>3
<1> QED BY <1>2, <1>6 DEF Number, T, r, N
-------------------------------------------------------------------------------
(***************************************************************************)
(* The inductive invariant of reading a text t: l is the lexer, toks the   *)
(* tokens returned so far.                                                 *)
(***************************************************************************)
\* A byte the lexer has passed is in one token, returned or pending.
KnownOnce(t, l, toks) ==
  \A o \in 0 .. l.pos - 1 :
    \/ At(t, o) \in Unseen
    \/ OneOf(toks, o) /\ NoneOf(l.pending, o)
    \/ NoneOf(toks, o) /\ OneOf(l.pending, o)

Ordered(toks) ==
  \A i, j \in DOMAIN toks :
    (i < j /\ toks[i].kind # "comment" /\ toks[j].kind # "comment")
      => Precedes(toks[i], toks[j])

AllBefore(toks, d) ==
  \A i \in DOMAIN toks : toks[i].kind # "comment" => Precedes(toks[i], d)

CommentsMarked(t, toks) ==
  \A i \in DOMAIN toks :
    toks[i].kind = "comment" => At(t, toks[i].start) = "#"

\* The tokens lie behind the position, in order, and before the dedents
\* that wait.
Placed(t, l, toks, d, m) ==
  /\ LieIn(toks, 0, l.pos) /\ LieIn(l.pending, 0, l.pos)
  /\ Ordered(toks) /\ CommentsMarked(t, toks)
  /\ m > 0 => AllBefore(toks, d)

\* Blocks opened are closed, open still, or closed by a dedent that waits.
BlocksCounted(l, toks, m) ==
  LET N == Len(toks)
  IN  /\ \A n \in 0 .. N : Number(toks, {"dedent"}, n)
                             <= Number(toks, {"indent"}, n)
      /\ Number(toks, {"dedent"}, N) + m + Len(l.indents)
           = Number(toks, {"indent"}, N) + 1

DepthCounted(l, toks, m) ==
  /\ Opened(toks)[Len(toks)] = l.depth
  /\ m > 0 => l.depth = 0 \/ l.done

ReadOK(t, l, toks) ==
  /\ LexerOK(t, l) /\ toks \in Seq(Tok) /\ KnownOnce(t, l, toks)
  /\ \E d, m : /\ Stack(t, l.pending, d, m) /\ Placed(t, l, toks, d, m)
               /\ BlocksCounted(l, toks, m) /\ DepthCounted(l, toks, m)

LEMMA ReadStart ==
  ASSUME NEW C, NEW t \in Seq(C)
  PROVE  ReadOK(t, NewLexer, <<>>)
<1> DEFINE l == NewLexer
           d == Token("dedent", 0, 0)
<1>1. l = [pos |-> 0, indents |-> <<0>>, pending |-> <<>>, fresh |-> TRUE,
           done |-> FALSE, depth |-> 0, fstrings |-> <<>>]
  BY DEF NewLexer
<1>2. <<0>> \in Seq(Nat) /\ Len(<<0>>) = 1 /\ <<0>>[1] = 0
      /\ <<>> \in Seq(Tok) /\ <<>> \in Seq(FString)
  OBVIOUS
<1>3. l \in LexerState
  BY <1>1, <1>2 DEF LexerState
<1>4. LexerOK(t, l)
  <2>1. l.pos <= Len(t)
    BY <1>1, LenProperties
  <2>2. Rising(<<0>>)
    BY <1>2 DEF Rising
  <2> QED BY <1>1, <1>3, <2>1, <2>2 DEF LexerOK
<1>5. d.kind = "dedent"
  BY DEF Token
<1> HIDE DEF d, l
<1>6. Stack(t, <<>>, d, 0)
  BY <1>5 DEF Stack
<1>7. l.pos = 0 /\ l.pending = <<>> /\ l.indents = <<0>> /\ l.depth = 0
  BY <1>1
<1>8. KnownOnce(t, l, <<>>) /\ Placed(t, l, <<>>, d, 0)
  BY <1>7 DEF KnownOnce, Placed, LieIn, Ordered, CommentsMarked
<1>9. BlocksCounted(l, <<>>, 0)
  <2>1. \A kinds : Number(<<>>, kinds, 0) = 0
    <3>1. \A kinds : {i \in 1 .. 0 : <<>>[i].kind \in kinds} = {}
      OBVIOUS
    <3> QED BY <3>1, FS_EmptySet DEF Number
  <2> QED BY <1>2, <1>7, <2>1 DEF BlocksCounted
<1>10. DepthCounted(l, <<>>, 0)
  BY <1>7, OpenedDef DEF DepthCounted
<1> QED BY <1>2, <1>4, <1>6, <1>7, <1>8, <1>9, <1>10 DEF ReadOK, l

LEMMA StackPop ==
  ASSUME NEW t, NEW p \in Seq(Tok), NEW k \in Tok, NEW d, NEW m,
         Stack(t, Append(p, k), d, m)
  PROVE  \/ m > 0 /\ k = d /\ Stack(t, p, d, m - 1)
         \/ /\ m = 0 /\ k.kind = "comment" /\ At(t, k.start) = "#"
            /\ Stack(t, p, d, 0)
<1> DEFINE r == Append(p, k)
           n == Len(p)
<1>1. /\ n \in Nat /\ Len(r) = n + 1 /\ r[n + 1] = k
      /\ \A i \in 1 .. n : r[i] = p[i]
  BY Appended
<1> HIDE DEF r, n
<1>2. /\ d.kind = "dedent" /\ m \in 0 .. n + 1
      /\ \A i \in 1 .. n + 1 :
           IF i <= (n + 1) - m
           THEN r[i].kind = "comment" /\ At(t, r[i].start) = "#"
           ELSE r[i] = d
  BY <1>1 DEF Stack, r
<1>3. n + 1 \in 1 .. n + 1
  BY <1>1
<1>4. CASE m > 0
  <2>1. k = d
    BY <1>1, <1>2, <1>3, <1>4
  <2>2. m - 1 \in 0 .. n /\ n - (m - 1) = (n + 1) - m
    BY <1>1, <1>2, <1>4
  <2>3. ASSUME NEW i \in 1 .. n
        PROVE  IF i <= n - (m - 1)
               THEN p[i].kind = "comment" /\ At(t, p[i].start) = "#"
               ELSE p[i] = d
    <3>1. i \in 1 .. n + 1 /\ r[i] = p[i]
      BY <1>1
    <3> QED BY <1>2, <2>2, <3>1
  <2>4. Stack(t, p, d, m - 1)
    BY <1>2, <2>2, <2>3 DEF Stack, n
  <2> QED BY <1>4, <2>1, <2>4
<1>5. CASE m = 0
  <2>1. k.kind = "comment" /\ At(t, k.start) = "#"
    BY <1>1, <1>2, <1>3, <1>5
  <2>2. ASSUME NEW i \in 1 .. n
        PROVE  p[i].kind = "comment" /\ At(t, p[i].start) = "#" /\ i <= n - 0
    <3>1. i \in 1 .. n + 1 /\ r[i] = p[i] /\ i <= (n + 1) - 0
      BY <1>1
    <3> QED BY <1>1, <1>2, <1>5, <3>1
  <2>3. Stack(t, p, d, 0)
    BY <1>1, <1>2, <2>2 DEF Stack, n
  <2> QED BY <1>5, <2>1, <2>3
<1> QED BY <1>2, <1>4, <1>5

LEMMA OrderedLast ==
  ASSUME NEW q \in Seq(Tok), NEW k \in Tok, Ordered(q),
         k.kind = "comment" \/ AllBefore(q, k)
  PROVE  Ordered(Append(q, k))
<1> DEFINE r == Append(q, k)
           n == Len(q)
<1>1. /\ n \in Nat /\ DOMAIN q = 1 .. n /\ DOMAIN r = 1 .. n + 1
      /\ r[n + 1] = k /\ \A i \in 1 .. n : r[i] = q[i]
  BY Appended
<1> HIDE DEF r, n
<1>2. ASSUME NEW i \in 1 .. n + 1, NEW j \in 1 .. n + 1,
             i < j, r[i].kind # "comment", r[j].kind # "comment"
      PROVE  Precedes(r[i], r[j])
  <2>1. i \in 1 .. n
    BY <1>1, <1>2
  <2>2. CASE j = n + 1
    BY <1>1, <1>2, <2>1, <2>2 DEF AllBefore
  <2>3. CASE j # n + 1
    <3>1. j \in 1 .. n
      BY <1>1, <2>3
    <3> QED BY <1>1, <1>2, <2>1, <3>1 DEF Ordered
  <2> QED BY <2>2, <2>3
<1> QED BY <1>1, <1>2 DEF Ordered, r

LEMMA WithinLast ==
  ASSUME NEW q \in Seq(Tok), NEW k \in Tok, NEW a, NEW b
  PROVE  LieIn(Append(q, k), a, b)
           <=> LieIn(q, a, b) /\ a <= k.start /\ k.start <= k.end /\ k.end <= b
<1> DEFINE r == Append(q, k)
           n == Len(q)
<1>1. /\ n \in Nat /\ DOMAIN q = 1 .. n /\ DOMAIN r = 1 .. n + 1
      /\ r[n + 1] = k /\ \A i \in 1 .. n : r[i] = q[i]
  BY Appended
<1>2. /\ \A i \in 1 .. n + 1 : i = n + 1 \/ i \in 1 .. n
      /\ n + 1 \in 1 .. n + 1 /\ \A i \in 1 .. n : i \in 1 .. n + 1
  BY <1>1
<1> HIDE DEF r, n
<1>3. ASSUME LieIn(r, a, b)
      PROVE  LieIn(q, a, b) /\ a <= k.start /\ k.start <= k.end /\ k.end <= b
  BY <1>1, <1>2, <1>3 DEF LieIn
<1>4. ASSUME LieIn(q, a, b), a <= k.start, k.start <= k.end, k.end <= b
      PROVE  LieIn(r, a, b)
  BY <1>1, <1>2, <1>4 DEF LieIn
<1> QED BY <1>3, <1>4 DEF r

LEMMA AllBeforeLast ==
  ASSUME NEW q \in Seq(Tok), NEW k \in Tok, NEW d, AllBefore(q, d),
         k.kind = "comment" \/ Precedes(k, d)
  PROVE  AllBefore(Append(q, k), d)
<1> DEFINE r == Append(q, k)
           n == Len(q)
<1>1. /\ n \in Nat /\ DOMAIN q = 1 .. n /\ DOMAIN r = 1 .. n + 1
      /\ r[n + 1] = k /\ \A i \in 1 .. n : r[i] = q[i]
  BY Appended
<1>2. \A i \in 1 .. n + 1 : i = n + 1 \/ i \in 1 .. n
  BY <1>1
<1> HIDE DEF r, n
<1> QED BY <1>1, <1>2 DEF AllBefore, r

LEMMA CommentsMarkedLast ==
  ASSUME NEW t, NEW q \in Seq(Tok), NEW k \in Tok, CommentsMarked(t, q),
         k.kind = "comment" => At(t, k.start) = "#"
  PROVE  CommentsMarked(t, Append(q, k))
<1> DEFINE r == Append(q, k)
           n == Len(q)
<1>1. /\ n \in Nat /\ DOMAIN q = 1 .. n /\ DOMAIN r = 1 .. n + 1
      /\ r[n + 1] = k /\ \A i \in 1 .. n : r[i] = q[i]
  BY Appended
<1>2. \A i \in 1 .. n + 1 : i = n + 1 \/ i \in 1 .. n
  BY <1>1
<1> HIDE DEF r, n
<1> QED BY <1>1, <1>2 DEF CommentsMarked, r

\* How a token returned changes the number of blocks and the depth.
LEMMA BlocksCountedLast ==
  ASSUME NEW l, NEW l2, NEW q \in Seq(Tok), NEW k \in Tok,
         NEW m \in Nat, NEW m2 \in Nat,
         l.indents \in Seq(Nat), l2.indents \in Seq(Nat), Len(l2.indents) >= 1,
         BlocksCounted(l, q, m),
         (IF k.kind = "dedent" THEN 1 ELSE 0) + m2 + Len(l2.indents)
           = (IF k.kind = "indent" THEN 1 ELSE 0) + m + Len(l.indents)
  PROVE  BlocksCounted(l2, Append(q, k), m2)
<1> DEFINE r == Append(q, k)
           N == Len(q)
           De(s, n) == Number(s, {"dedent"}, n)
           In(s, n) == Number(s, {"indent"}, n)
<1>1. N \in Nat /\ Len(r) = N + 1
  BY Appended
<1>2. /\ \A n \in 0 .. N : De(r, n) = De(q, n) /\ In(r, n) = In(q, n)
      /\ De(r, N + 1) = De(q, N) + (IF k.kind = "dedent" THEN 1 ELSE 0)
      /\ In(r, N + 1) = In(q, N) + (IF k.kind = "indent" THEN 1 ELSE 0)
  <2>1. /\ \A n \in 0 .. N : De(r, n) = De(q, n)
        /\ De(r, N + 1) = De(q, N) + (IF k.kind \in {"dedent"} THEN 1 ELSE 0)
    BY NumberAppend
  <2>2. /\ \A n \in 0 .. N : In(r, n) = In(q, n)
        /\ In(r, N + 1) = In(q, N) + (IF k.kind \in {"indent"} THEN 1 ELSE 0)
    BY NumberAppend
  <2> HIDE DEF r, N, De, In
  <2> QED BY <2>1, <2>2
<1>3. De(q, N) \in Nat /\ In(q, N) \in Nat
  BY <1>1, NumberType
<1>4. /\ \A n \in 0 .. N : De(q, n) <= In(q, n)
      /\ De(q, N) + m + Len(l.indents) = In(q, N) + 1
  BY DEF BlocksCounted
<1>5. Len(l.indents) \in Nat /\ Len(l2.indents) \in Nat
  BY LenProperties
<1> HIDE DEF r, N, De, In
<1>6. De(r, N + 1) + m2 + Len(l2.indents) = In(r, N + 1) + 1
  <2> DEFINE x == IF k.kind = "dedent" THEN 1 ELSE 0
             y == IF k.kind = "indent" THEN 1 ELSE 0
  <2>1. x \in Nat /\ y \in Nat
    OBVIOUS
  <2>2. /\ De(r, N + 1) = De(q, N) + x /\ In(r, N + 1) = In(q, N) + y
        /\ x + m2 + Len(l2.indents) = y + m + Len(l.indents)
    BY <1>2
  <2> HIDE DEF x, y
  <2>3. De(q, N) + m + Len(l.indents) = In(q, N) + 1
    BY <1>4
  <2>4. PICK a \in Nat, b \in Nat, g \in Nat, h \in Nat :
          /\ a = De(q, N) /\ b = In(q, N)
          /\ g = Len(l.indents) /\ h = Len(l2.indents)
    BY <1>3, <1>5
  <2>5. a + m + g = b + 1 /\ x + m2 + h = y + m + g
    BY <2>2, <2>3, <2>4
  <2>6. (a + x) + m2 + h = (b + y) + 1
    BY <2>1, <2>5
  <2> QED BY <2>2, <2>4, <2>6
<1>7. De(r, N + 1) \in Nat /\ In(r, N + 1) \in Nat
  BY <1>2, <1>3
<1>8. ASSUME NEW n \in 0 .. N + 1 PROVE De(r, n) <= In(r, n)
  <2>1. CASE n = N + 1
    BY <1>5, <1>6, <1>7, <2>1
  <2>2. CASE n # N + 1
    <3>1. n \in 0 .. N
      BY <1>1, <2>2
    <3> QED BY <1>2, <1>4, <3>1
  <2> QED BY <2>1, <2>2
<1>9. /\ \A n \in 0 .. Len(r) : Number(r, {"dedent"}, n)
                                  <= Number(r, {"indent"}, n)
      /\ Number(r, {"dedent"}, Len(r)) + m2 + Len(l2.indents)
           = Number(r, {"indent"}, Len(r)) + 1
  BY <1>1, <1>6, <1>8 DEF De, In
<1> QED BY <1>9 DEF BlocksCounted, r

\* A token is taken from those that wait.
LEMMA PopStep ==
  ASSUME NEW C, NEW t \in Seq(C), NEW l, NEW toks, ReadOK(t, l, toks),
         NEW l2, LexerOK(t, l2), l2.pos = l.pos, l2.indents = l.indents,
         l2.done = l.done, l2.depth = l.depth,
         NEW k \in Tok, l.pending = Append(l2.pending, k)
  PROVE  /\ ReadOK(t, l2, Append(toks, k))
         /\ k.kind \in {"newline", "indent", "dedent"}
              => l2.depth = 0 \/ l2.done
<1> DEFINE p == l2.pending
           r == Append(toks, k)
           N == Len(toks)
<1>1. /\ p \in Seq(Tok) /\ toks \in Seq(Tok) /\ l.pos \in Nat
      /\ l.indents \in Seq(Nat) /\ Len(l.indents) >= 1
  BY DEF ReadOK, LexerOK, LexerState, Rising
<1>2. PICK d, m : /\ Stack(t, l.pending, d, m) /\ Placed(t, l, toks, d, m)
                  /\ BlocksCounted(l, toks, m) /\ DepthCounted(l, toks, m)
  BY DEF ReadOK
<1>3. /\ r \in Seq(Tok) /\ N \in Nat /\ Len(r) = N + 1
  BY <1>1, Appended
<1>4. m \in Nat /\ d.kind = "dedent"
  BY <1>1, <1>2, LenProperties DEF Stack, LexerState, LexerOK, ReadOK
<1>5. PICK m2 \in Nat :
        /\ Stack(t, p, d, m2)
        /\ \/ m = m2 + 1 /\ k = d
           \/ m = 0 /\ m2 = 0 /\ k.kind = "comment" /\ At(t, k.start) = "#"
  <2>1. \/ m > 0 /\ k = d /\ Stack(t, p, d, m - 1)
        \/ /\ m = 0 /\ k.kind = "comment" /\ At(t, k.start) = "#"
           /\ Stack(t, p, d, 0)
    BY <1>1, <1>2, StackPop
  <2>2. CASE m > 0 /\ k = d /\ Stack(t, p, d, m - 1)
    <3>1. m - 1 \in Nat /\ m = (m - 1) + 1
      BY <1>4, <2>2
    <3> QED BY <2>2, <3>1
  <2>3. CASE /\ m = 0 /\ k.kind = "comment" /\ At(t, k.start) = "#"
             /\ Stack(t, p, d, 0)
    BY <2>3
  <2> QED BY <2>1, <2>2, <2>3
<1> HIDE DEF r
<1>6. KnownOnce(t, l2, r)
  <2>1. ASSUME NEW o \in 0 .. l.pos - 1, At(t, o) \notin Unseen
        PROVE  \/ OneOf(r, o) /\ NoneOf(p, o)
               \/ NoneOf(r, o) /\ OneOf(p, o)
    <3>1. \/ OneOf(toks, o) /\ NoneOf(l.pending, o)
          \/ NoneOf(toks, o) /\ OneOf(l.pending, o)
      BY <2>1 DEF ReadOK, KnownOnce
    <3>2. /\ NoneOf(l.pending, o) <=> NoneOf(p, o) /\ ~ Spans(k, o)
          /\ OneOf(l.pending, o) <=> \/ OneOf(p, o) /\ ~ Spans(k, o)
                                     \/ NoneOf(p, o) /\ Spans(k, o)
      BY <1>1, OneOfLast
    <3>3. /\ NoneOf(r, o) <=> NoneOf(toks, o) /\ ~ Spans(k, o)
          /\ OneOf(r, o) <=> \/ OneOf(toks, o) /\ ~ Spans(k, o)
                             \/ NoneOf(toks, o) /\ Spans(k, o)
      BY <1>1, OneOfLast DEF r
    <3> HIDE DEF p
    <3> QED BY <3>1, <3>2, <3>3
  <2> QED BY <2>1 DEF KnownOnce
<1>7. Placed(t, l2, r, d, m2)
  <2>1. /\ LieIn(toks, 0, l.pos) /\ LieIn(l.pending, 0, l.pos)
        /\ Ordered(toks) /\ CommentsMarked(t, toks)
        /\ m > 0 => AllBefore(toks, d)
    BY <1>2 DEF Placed
  <2>2. /\ LieIn(p, 0, l.pos) /\ 0 <= k.start /\ k.start <= k.end
        /\ k.end <= l.pos
    BY <1>1, <2>1, WithinLast
  <2>3. LieIn(r, 0, l.pos)
    BY <1>1, <2>1, <2>2, WithinLast DEF r
  <2>4. Ordered(r)
    BY <1>1, <1>4, <1>5, <2>1, OrderedLast DEF r
  <2>5. CommentsMarked(t, r)
    <3>1. k.kind = "comment" => At(t, k.start) = "#"
      BY <1>4, <1>5
    <3> QED BY <1>1, <2>1, <3>1, CommentsMarkedLast DEF r
  <2>6. ASSUME m2 > 0 PROVE AllBefore(r, d)
    <3>1. m > 0 /\ k = d
      BY <1>5, <2>6
    <3>2. Precedes(k, d)
      BY <1>4, <3>1 DEF Precedes
    <3> QED BY <1>1, <2>1, <3>1, <3>2, AllBeforeLast DEF r
  <2> QED BY <2>2, <2>3, <2>4, <2>5, <2>6 DEF Placed
<1>8. BlocksCounted(l2, r, m2)
  <2>1. (IF k.kind = "dedent" THEN 1 ELSE 0) + m2 + Len(l2.indents)
          = (IF k.kind = "indent" THEN 1 ELSE 0) + m + Len(l.indents)
    <3>1. Len(l.indents) \in Nat
      BY <1>1, LenProperties
    <3>2. CASE m = m2 + 1 /\ k = d
      BY <1>4, <1>5, <3>1, <3>2
    <3>3. CASE m = 0 /\ m2 = 0 /\ k.kind = "comment"
      BY <3>1, <3>3
    <3> QED BY <1>5, <3>2, <3>3
  <2> QED BY <1>1, <1>2, <1>4, <1>5, <2>1, BlocksCountedLast DEF r
<1>9. DepthCounted(l2, r, m2)
  <2>1. Opened(r)[N + 1] = DepthBehind(Opened(toks)[N], k.kind)
    BY <1>1, OpenedAppend DEF r
  <2>2. k.kind \notin Opener /\ k.kind \notin Closer
    BY <1>4, <1>5 DEF Opener, Closer
  <2>3. Opened(toks)[N] = l.depth /\ (m > 0 => l.depth = 0 \/ l.done)
    BY <1>2 DEF DepthCounted
  <2>4. m2 > 0 => m > 0
    BY <1>5
  <2> QED BY <1>3, <2>1, <2>2, <2>3, <2>4 DEF DepthCounted, DepthBehind
<1>10. k.kind \in {"newline", "indent", "dedent"} => l2.depth = 0 \/ l2.done
  <2>1. m > 0 => l.depth = 0 \/ l.done
    BY <1>2 DEF DepthCounted
  <2> QED BY <1>5, <2>1
<1> QED BY <1>3, <1>5, <1>6, <1>7, <1>8, <1>9, <1>10 DEF ReadOK, r

LEMMA WithinMore ==
  ASSUME NEW q \in Seq(Tok), NEW a \in Nat, NEW b \in Nat, NEW c \in Nat,
         NEW e \in Nat, LieIn(q, a, b), c <= a, b <= e
  PROVE  LieIn(q, c, e)
<1>1. ASSUME NEW i \in DOMAIN q
      PROVE  c <= q[i].start /\ q[i].start <= q[i].end /\ q[i].end <= e
  <2>1. q[i] \in Tok
    BY ElementOfSeq, LenProperties
  <2>2. q[i].start \in Nat /\ q[i].end \in Nat
    BY <2>1 DEF Tok
  <2> QED BY <2>2 DEF LieIn
<1> QED BY <1>1 DEF LieIn

LEMMA BehindAll ==
  ASSUME NEW q \in Seq(Tok), NEW k \in Tok, NEW b \in Nat,
         LieIn(q, 0, b), b <= k.start
  PROVE  AllBefore(q, k)
<1>1. ASSUME NEW i \in DOMAIN q PROVE Precedes(q[i], k)
  <2>1. q[i] \in Tok
    BY ElementOfSeq, LenProperties
  <2>2. q[i].start \in Nat /\ q[i].end \in Nat /\ k.start \in Nat
    BY <2>1 DEF Tok
  <2> QED BY <2>2 DEF LieIn, Precedes
<1> QED BY <1>1 DEF AllBefore

LEMMA NothingWaits ==
  ASSUME NEW t, NEW l, NEW toks, ReadOK(t, l, toks), l.pending = <<>>
  PROVE  \E d : /\ Placed(t, l, toks, d, 0) /\ BlocksCounted(l, toks, 0)
                /\ DepthCounted(l, toks, 0)
<1>1. PICK d, m : /\ Stack(t, l.pending, d, m) /\ Placed(t, l, toks, d, m)
                  /\ BlocksCounted(l, toks, m) /\ DepthCounted(l, toks, m)
  BY DEF ReadOK
<1>2. Len(l.pending) = 0
  OBVIOUS
<1>3. m = 0
  BY <1>1, <1>2 DEF Stack
<1> QED BY <1>1, <1>3

\* When no token waits, what q holds beyond the position is held once.
LEMMA KnownFurther ==
  ASSUME NEW t, NEW l \in LexerState, NEW toks \in Seq(Tok), NEW q \in Seq(Tok),
         NEW e \in Nat, l.pos <= e, l.pending = <<>>,
         KnownOnce(t, l, toks), LieIn(toks, 0, l.pos),
         LieIn(q, l.pos, e), Seen(t, q, l.pos, e),
         NEW o \in 0 .. e - 1, At(t, o) \notin Unseen
  PROVE  \/ OneOf(toks, o) /\ NoneOf(q, o)
         \/ NoneOf(toks, o) /\ OneOf(q, o)
<1>1. l.pos \in Nat
  BY DEF LexerState
<1>2. CASE o < l.pos
  <2>1. NoneOf(q, o)
    BY <1>1, <1>2, NoneWithin
  <2>2. ~ OneOf(l.pending, o)
    BY DEF OneOf
  <2>3. OneOf(toks, o)
    BY <1>1, <1>2, <2>2 DEF KnownOnce
  <2> QED BY <2>1, <2>3
<1>3. CASE l.pos <= o
  <2>1. NoneOf(toks, o)
    BY <1>1, <1>3, NoneWithin
  <2>2. OneOf(q, o)
    BY <1>1, <1>3 DEF Seen
  <2> QED BY <2>1, <2>2
<1> QED BY <1>1, <1>2, <1>3

\* Tokens that close blocks are put on the empty stack.
LEMMA ClosingPushed ==
  ASSUME NEW C, NEW t \in Seq(C), NEW l, NEW toks, ReadOK(t, l, toks),
         l.pending = <<>>, NEW l2, LexerOK(t, l2), l.pos <= l2.pos,
         LieIn(l2.pending, l.pos, l2.pos), Seen(t, l2.pending, l.pos, l2.pos),
         NEW d, NEW m, Stack(t, l2.pending, d, m),
         Len(l2.indents) + m = Len(l.indents), l2.depth = l.depth,
         m > 0 => l.depth = 0 \/ l2.done
  PROVE  ReadOK(t, l2, toks)
<1> DEFINE q == l2.pending
<1>1. /\ l \in LexerState /\ l2 \in LexerState /\ q \in Seq(Tok)
      /\ toks \in Seq(Tok) /\ l.pos \in Nat /\ l2.pos \in Nat
      /\ l.indents \in Seq(Nat) /\ l2.indents \in Seq(Nat)
      /\ KnownOnce(t, l, toks)
  BY DEF ReadOK, LexerOK, LexerState
<1>2. PICK d0 : /\ Placed(t, l, toks, d0, 0) /\ BlocksCounted(l, toks, 0)
                /\ DepthCounted(l, toks, 0)
  BY NothingWaits
<1>3. m \in Nat /\ Len(q) \in Nat /\ m <= Len(q)
  BY <1>1, LenProperties DEF Stack
<1>4. LieIn(toks, 0, l.pos) /\ Ordered(toks) /\ CommentsMarked(t, toks)
  BY <1>2 DEF Placed
<1>5. KnownOnce(t, l2, toks)
  <2>1. ASSUME NEW o \in 0 .. l2.pos - 1, At(t, o) \notin Unseen
        PROVE  \/ OneOf(toks, o) /\ NoneOf(q, o)
               \/ NoneOf(toks, o) /\ OneOf(q, o)
    BY <1>1, <1>4, <2>1, KnownFurther
  <2> QED BY <2>1 DEF KnownOnce
<1>6. Placed(t, l2, toks, d, m)
  <2>1. LieIn(toks, 0, l2.pos) /\ LieIn(q, 0, l2.pos)
    BY <1>1, <1>4, WithinMore
  <2>2. ASSUME m > 0 PROVE AllBefore(toks, d)
    <3>1. Len(q) \in 1 .. Len(q) /\ Len(q) > Len(q) - m
      BY <1>3, <2>2
    <3>2. q[Len(q)] = d
      BY <1>3, <3>1 DEF Stack
    <3>3. d \in Tok /\ l.pos <= d.start
      BY <1>1, <3>1, <3>2, ElementOfSeq, LenProperties DEF LieIn
    <3> QED BY <1>1, <1>4, <3>3, BehindAll
  <2> QED BY <1>4, <2>1, <2>2 DEF Placed
<1>7. BlocksCounted(l2, toks, m)
  <2> DEFINE x == Number(toks, {"dedent"}, Len(toks))
             y == Number(toks, {"indent"}, Len(toks))
  <2>1. x + 0 + Len(l.indents) = y + 1
    BY <1>2 DEF BlocksCounted
  <2>2. x \in Nat /\ y \in Nat
    BY <1>1, LenProperties, NumberType
  <2>3. Len(l.indents) \in Nat /\ Len(l2.indents) \in Nat
    BY <1>1, LenProperties
  <2>4. x + m + Len(l2.indents) = y + 1
    <3> HIDE DEF x, y
    <3>1. PICK g \in Nat, h \in Nat : g = Len(l.indents) /\ h = Len(l2.indents)
      BY <2>3
    <3>2. x + 0 + g = y + 1 /\ h + m = g
      BY <2>1, <3>1
    <3>3. x + m + h = y + 1
      BY <1>3, <2>2, <3>2
    <3> QED BY <3>1, <3>3
  <2> QED BY <1>2, <2>4 DEF BlocksCounted
<1>8. DepthCounted(l2, toks, m)
  BY <1>2 DEF DepthCounted
<1> QED BY <1>1, <1>5, <1>6, <1>7, <1>8 DEF ReadOK

\* A token is read when none waits.
LEMMA ReadsStep ==
  ASSUME NEW C, NEW t \in Seq(C), NEW l, NEW toks, ReadOK(t, l, toks),
         l.pending = <<>>, NEW n, LexerOK(t, n.lexer), l.pos <= n.lexer.pos,
         n.token \in Tok,
         LieIn(Append(n.lexer.pending, n.token), l.pos, n.lexer.pos),
         Seen(t, Append(n.lexer.pending, n.token), l.pos, n.lexer.pos),
         Reads(t, l, n)
  PROVE  /\ ReadOK(t, n.lexer, Append(toks, n.token))
         /\ n.token.kind \in {"newline", "indent", "dedent"} => l.depth = 0
<1> DEFINE l2 == n.lexer
           k  == n.token
           p  == l2.pending
           q  == Append(p, k)
           r  == Append(toks, k)
           N  == Len(toks)
           d2 == Token("dedent", 0, 0)
<1>1. /\ l \in LexerState /\ l2 \in LexerState /\ p \in Seq(Tok)
      /\ toks \in Seq(Tok) /\ l.pos \in Nat /\ l2.pos \in Nat
      /\ l.indents \in Seq(Nat) /\ l2.indents \in Seq(Nat)
      /\ Len(l2.indents) >= 1 /\ KnownOnce(t, l, toks)
  BY DEF ReadOK, LexerOK, LexerState, Rising
<1>2. PICK d0 : /\ Placed(t, l, toks, d0, 0) /\ BlocksCounted(l, toks, 0)
                /\ DepthCounted(l, toks, 0)
  BY NothingWaits
<1>3. /\ r \in Seq(Tok) /\ N \in Nat /\ Len(r) = N + 1 /\ q \in Seq(Tok)
  BY <1>1, Appended
<1>4. /\ k.kind # "dedent" /\ (k.kind = "comment" => At(t, k.start) = "#")
      /\ Len(l2.indents)
           = Len(l.indents) + (IF k.kind = "indent" THEN 1 ELSE 0)
      /\ l2.depth = DepthBehind(l.depth, k.kind)
      /\ k.kind \in {"newline", "indent"} => l.depth = 0
      /\ Comments(t, p)
  BY DEF Reads
<1>5. LieIn(toks, 0, l.pos) /\ Ordered(toks) /\ CommentsMarked(t, toks)
  BY <1>2 DEF Placed
<1>6. /\ LieIn(p, l.pos, l2.pos) /\ l.pos <= k.start
      /\ k.start <= k.end /\ k.end <= l2.pos
  BY <1>1, WithinLast
<1>7. Stack(t, p, d2, 0)
  <2>1. d2.kind = "dedent"
    BY DEF Token
  <2>2. Len(p) \in Nat /\ DOMAIN p = 1 .. Len(p)
    BY <1>1, LenProperties
  <2> HIDE DEF d2, p
  <2> QED BY <1>4, <2>1, <2>2 DEF Stack, Comments
<1> HIDE DEF r, d2
<1>8. KnownOnce(t, l2, r)
  <2>1. ASSUME NEW o \in 0 .. l2.pos - 1, At(t, o) \notin Unseen
        PROVE  \/ OneOf(r, o) /\ NoneOf(p, o)
               \/ NoneOf(r, o) /\ OneOf(p, o)
    <3>1. \/ OneOf(toks, o) /\ NoneOf(q, o)
          \/ NoneOf(toks, o) /\ OneOf(q, o)
      <4> HIDE DEF q
      <4> QED BY <1>1, <1>3, <1>5, <2>1, KnownFurther DEF q
    <3>2. /\ NoneOf(q, o) <=> NoneOf(p, o) /\ ~ Spans(k, o)
          /\ OneOf(q, o) <=> \/ OneOf(p, o) /\ ~ Spans(k, o)
                             \/ NoneOf(p, o) /\ Spans(k, o)
      BY <1>1, OneOfLast
    <3>3. /\ NoneOf(r, o) <=> NoneOf(toks, o) /\ ~ Spans(k, o)
          /\ OneOf(r, o) <=> \/ OneOf(toks, o) /\ ~ Spans(k, o)
                             \/ NoneOf(toks, o) /\ Spans(k, o)
      BY <1>1, OneOfLast DEF r
    <3> HIDE DEF p, q
    <3> QED BY <3>1, <3>2, <3>3
  <2> QED BY <2>1 DEF KnownOnce
<1>9. Placed(t, l2, r, d2, 0)
  <2>1. LieIn(toks, 0, l2.pos) /\ LieIn(p, 0, l2.pos)
    BY <1>1, <1>5, <1>6, WithinMore
  <2>2. LieIn(r, 0, l2.pos)
    <3>1. 0 <= k.start
      BY <1>1, <1>6 DEF Tok
    <3> QED BY <1>1, <1>6, <2>1, <3>1, WithinLast DEF r
  <2>3. Ordered(r)
    <3>1. AllBefore(toks, k)
      BY <1>1, <1>5, <1>6, BehindAll
    <3> QED BY <1>1, <1>5, <3>1, OrderedLast DEF r
  <2>4. CommentsMarked(t, r)
    BY <1>1, <1>4, <1>5, CommentsMarkedLast DEF r
  <2> QED BY <2>1, <2>2, <2>3, <2>4 DEF Placed
<1>10. BlocksCounted(l2, r, 0)
  <2>1. (IF k.kind = "dedent" THEN 1 ELSE 0) + 0 + Len(l2.indents)
          = (IF k.kind = "indent" THEN 1 ELSE 0) + 0 + Len(l.indents)
    <3>1. Len(l.indents) \in Nat
      BY <1>1, LenProperties
    <3>2. PICK g \in Nat : g = Len(l.indents)
      BY <3>1
    <3>3. CASE k.kind = "indent"
      <4>1. Len(l2.indents) = g + 1
        BY <1>4, <3>2, <3>3
      <4>2. k.kind # "dedent"
        BY <3>3
      <4>3. 0 + 0 + (g + 1) = 1 + 0 + g
        OBVIOUS
      <4> QED BY <3>2, <3>3, <4>1, <4>2, <4>3
    <3>4. CASE k.kind # "indent"
      <4>1. Len(l2.indents) = g + 0
        BY <1>4, <3>2, <3>4
      <4>2. g + 0 = g
        OBVIOUS
      <4> QED BY <1>4, <3>2, <3>4, <4>1, <4>2
    <3> QED BY <3>3, <3>4
  <2> QED BY <1>1, <1>2, <2>1, BlocksCountedLast DEF r
<1>11. DepthCounted(l2, r, 0)
  <2>1. Opened(r)[N + 1] = DepthBehind(Opened(toks)[N], k.kind)
    BY <1>1, OpenedAppend DEF r
  <2>2. Opened(toks)[N] = l.depth
    BY <1>2 DEF DepthCounted
  <2> QED BY <1>3, <1>4, <2>1, <2>2 DEF DepthCounted
<1> QED BY <1>3, <1>4, <1>7, <1>8, <1>9, <1>10, <1>11 DEF ReadOK, r

LEMMA WaitingKinds ==
  ASSUME NEW t, NEW q \in Seq(Tok), NEW d, NEW m, Stack(t, q, d, m), q # <<>>
  PROVE  Last(q).kind \in {"comment", "dedent"}
<1>1. Len(q) \in 1 .. Len(q) /\ Last(q) = q[Len(q)]
  BY LastAndFront, LenProperties
<1> QED BY <1>1 DEF Stack

\* A call of next_token.
LEMMA ReadStep ==
  ASSUME NEW C, NEW t \in Seq(C), NEW l, NEW toks, ReadOK(t, l, toks)
  PROVE  LET n == NextToken(t, l)
             r == Append(toks, n.token)
         IN  \/ /\ n.token.kind = "eof" /\ ReadOK(t, n.lexer, toks)
                /\ n.lexer.pending = <<>> /\ Len(n.lexer.indents) = 1
             \/ /\ n.token.kind # "eof" /\ ReadOK(t, n.lexer, r)
                /\ n.token.kind \in {"newline", "indent", "dedent"}
                     => Opened(r)[Len(toks)] = 0 \/ n.lexer.done
<1> DEFINE n == NextToken(t, l)
           k == n.token
           r == Append(toks, k)
<1>1. /\ l \in LexerState /\ LexerOK(t, l) /\ toks \in Seq(Tok)
      /\ l.pending \in Seq(Tok)
  BY DEF ReadOK, LexerOK, LexerState
<1>2. Opened(toks)[Len(toks)] = l.depth
  BY DEF ReadOK, DepthCounted
<1>3. CASE l.pending # <<>>
  <2>1. n = Popped(l)
    BY <1>3 DEF NextToken
  <2> HIDE DEF n
  <2>2. /\ n.lexer \in LexerState /\ k \in Tok /\ k = Last(l.pending)
        /\ Append(n.lexer.pending, k) = l.pending
        /\ n.lexer.pos = l.pos /\ n.lexer.depth = l.depth
        /\ n.lexer.indents = l.indents /\ n.lexer.done = l.done
    BY <1>1, <1>3, <2>1, PoppedState
  <2> HIDE DEF k
  <2>3. LexerOK(t, n.lexer)
    BY <1>1, <2>2 DEF LexerOK
  <2>4. /\ ReadOK(t, n.lexer, r)
        /\ k.kind \in {"newline", "indent", "dedent"}
             => n.lexer.depth = 0 \/ n.lexer.done
    BY <2>2, <2>3, PopStep
  <2>5. Opened(r)[Len(toks)] = l.depth
    BY <1>1, <1>2, <2>2, OpenedAppend
  <2>6. k.kind # "eof"
    <3>1. PICK d, m : Stack(t, l.pending, d, m)
      BY DEF ReadOK
    <3> QED BY <1>1, <1>3, <2>2, <3>1, WaitingKinds
  <2> QED BY <2>2, <2>4, <2>5, <2>6 DEF n, k
<1>4. CASE l.pending = <<>>
  <2>1. Called(t, l.pos, l, n)
    BY <1>1, <1>4, TextStep
  <2> HIDE DEF n
  <2>2. CASE TextOver(t, l.pos, l, n)
    <3>1. /\ k.kind = "eof" /\ n.lexer.pending = <<>> /\ n.lexer.done
          /\ Len(n.lexer.indents) = Len(l.indents)
          /\ n.lexer.depth = l.depth /\ Seen(t, <<>>, l.pos, n.lexer.pos)
          /\ LexerOK(t, n.lexer) /\ l.pos <= n.lexer.pos
      BY <2>1, <2>2 DEF Called, TextOver
    <3>2. Len(n.lexer.indents) = 1
      BY <3>1 DEF LexerOK
    <3> DEFINE d == Token("dedent", 0, 0)
    <3>3. Stack(t, <<>>, d, 0) /\ LieIn(<<>>, l.pos, n.lexer.pos)
      BY DEF Stack, LieIn, Token
    <3>4. Len(n.lexer.indents) + 0 = Len(l.indents)
      BY <3>1, <3>2
    <3> HIDE DEF d
    <3>5. ReadOK(t, n.lexer, toks)
      BY <1>4, <3>1, <3>3, <3>4, ClosingPushed
    <3> QED BY <3>1, <3>2, <3>5 DEF n
  <2>3. CASE Returns(t, l.pos, l, n)
    <3> DEFINE q == Append(n.lexer.pending, k)
    <3>1. /\ LexerOK(t, n.lexer) /\ l.pos <= n.lexer.pos /\ k \in Tok
          /\ LieIn(q, l.pos, n.lexer.pos) /\ Seen(t, q, l.pos, n.lexer.pos)
          /\ Reads(t, l, n) \/ \E d, m : ClosesBlocks(t, l, n, d, m)
      BY <2>1, <2>3 DEF Called, Returns
    <3>2. k.kind # "eof"
      BY <3>1 DEF Tok, Kind, PlainKind, Keyword, OneByte, TwoByteKind,
                  Opener, Closer
    <3>3. Opened(r)[Len(toks)] = l.depth
      BY <1>1, <1>2, <3>1, OpenedAppend
    <3>4. CASE Reads(t, l, n)
      <4>1. /\ ReadOK(t, n.lexer, r)
            /\ k.kind \in {"newline", "indent", "dedent"} => l.depth = 0
        BY <1>4, <3>1, <3>4, ReadsStep
      <4> QED BY <3>2, <3>3, <4>1 DEF n
    <3>5. CASE \E d, m : ClosesBlocks(t, l, n, d, m)
      <4>1. PICK d, m : ClosesBlocks(t, l, n, d, m)
        BY <3>5
      <4> DEFINE u == [n.lexer EXCEPT !.pending = q]
      <4>2. n.lexer \in LexerState /\ n.lexer.pending \in Seq(Tok)
        BY <3>1 DEF LexerOK, LexerState
      <4>3. q \in Seq(Tok)
        BY <3>1, <4>2, Appended
      <4> HIDE DEF q, k
      <4>4. /\ u \in LexerState /\ u.pending = q /\ u.pos = n.lexer.pos
            /\ u.indents = n.lexer.indents /\ u.done = n.lexer.done
            /\ u.depth = n.lexer.depth
        BY <4>2, <4>3 DEF LexerState
      <4> HIDE DEF u
      <4>5. LexerOK(t, u)
        BY <3>1, <4>4 DEF LexerOK
      <4>6. /\ Stack(t, q, d, m) /\ Len(n.lexer.indents) + m = Len(l.indents)
            /\ n.lexer.depth = l.depth
            /\ m > 0 => l.depth = 0 \/ n.lexer.done
        BY <4>1 DEF ClosesBlocks, q, k
      <4>7. ReadOK(t, u, toks)
        BY <1>4, <3>1, <4>4, <4>5, <4>6, ClosingPushed
      <4>8. /\ ReadOK(t, n.lexer, r)
            /\ k.kind \in {"newline", "indent", "dedent"}
                 => n.lexer.depth = 0 \/ n.lexer.done
        BY <3>1, <4>4, <4>7, PopStep DEF q
      <4> QED BY <3>2, <3>3, <4>6, <4>8 DEF n, k
    <3> QED BY <3>1, <3>4, <3>5
  <2> QED BY <2>1, <2>2, <2>3 DEF Called
<1> QED BY <1>3, <1>4
-------------------------------------------------------------------------------
(***************************************************************************)
(* tokenize, whose loop is a recursive function.                           *)
(***************************************************************************)
IsRead(f, t) ==
  f = [i \in 0 .. 3 * Len(t) + 3 |->
         IF i = 0 THEN NothingRead ELSE ReadOne(t, f[i - 1])]

LEMMA ReadExists ==
  ASSUME NEW t, Len(t) \in Nat
  PROVE  \E f : IsRead(f, t)
<1> DEFINE N == 3 * Len(t) + 3
           Solves(g, k) ==
             \A n \in 0 .. k :
               g[n] = IF n = 0 THEN NothingRead ELSE ReadOne(t, g[n - 1])
           S == {k \in 0 .. N : \E g : Solves(g, k)}
<1>0. N \in Nat
  OBVIOUS
<1> HIDE DEF N
<1>1. 0 \in S
  <2>1. Solves([n \in 0 .. N |-> NothingRead], 0)
    BY <1>0
  <2> HIDE DEF Solves
  <2> QED BY <1>0, <2>1
<1>2. ASSUME NEW k \in 0 .. N - 1, k \in S PROVE k + 1 \in S
  <2>1. PICK g : Solves(g, k)
    BY <1>2
  <2> DEFINE h == [n \in 0 .. N |-> IF n = k + 1 THEN ReadOne(t, g[k]) ELSE g[n]]
  <2>2. /\ h[k + 1] = ReadOne(t, g[k])
        /\ \A n \in 0 .. k : h[n] = g[n]
    BY <1>0
  <2> HIDE DEF h
  <2>3. ASSUME NEW n \in 0 .. k + 1
        PROVE  h[n] = IF n = 0 THEN NothingRead ELSE ReadOne(t, h[n - 1])
    <3>1. CASE n = k + 1
      <4>1. h[n - 1] = g[k] /\ n # 0
        BY <2>2, <3>1
      <4> QED BY <2>2, <3>1, <4>1
    <3>2. CASE n # k + 1
      <4>1. n \in 0 .. k /\ (n # 0 => n - 1 \in 0 .. k)
        BY <3>2
      <4> QED BY <2>1, <2>2, <4>1
    <3> QED BY <3>1, <3>2
  <2>4. Solves(h, k + 1)
    BY <2>3
  <2> HIDE DEF Solves
  <2> QED BY <1>0, <2>4
<1>3. N \in S
  <2> HIDE DEF S
  <2>1. \A k \in 0 .. N : k \in S
    BY <1>0, <1>1, <1>2, Upwards
  <2> QED BY <1>0, <2>1
<1>4. PICK g : Solves(g, N)
  <2> HIDE DEF Solves
  <2> QED BY <1>3
<1> DEFINE f == [n \in 0 .. N |-> g[n]]
<1>5. f = [n \in 0 .. N |-> IF n = 0 THEN NothingRead ELSE ReadOne(t, f[n - 1])]
  <2>1. ASSUME NEW n \in 0 .. N
        PROVE  g[n] = IF n = 0 THEN NothingRead ELSE ReadOne(t, f[n - 1])
    <3>1. n # 0 => f[n - 1] = g[n - 1]
      BY <1>0
    <3> HIDE DEF f
    <3> QED BY <1>4, <3>1
  <2> QED BY <2>1
<1> HIDE DEF f
<1>6. IsRead(f, t)
  BY <1>5 DEF IsRead, N
<1> QED BY <1>6

\* What holds of the tokens read so far holds of all that tokenize returns.
LEMMA TokenizeReads ==
  ASSUME NEW C, NEW t \in Seq(C)
  PROVE  \E l : ReadOK(t, l, Tokenize(t).tokens)
<1> DEFINE N == 3 * Len(t) + 3
           f == CHOOSE g : IsRead(g, t)
           State(l, toks, o) == [lexer |-> l, tokens |-> toks, over |-> o]
           Good(r) == \E l, toks, o : r = State(l, toks, o) /\ ReadOK(t, l, toks)
           S == {n \in 0 .. N : Good(f[n])}
<1>1. Len(t) \in Nat
  BY LenProperties
<1>2. N \in Nat
  BY <1>1
<1>3. IsRead(f, t)
  BY <1>1, ReadExists
<1>4. Tokenize(t) = f[N]
  BY DEF Tokenize, IsRead
<1> HIDE DEF f
<1>5. f[0] = NothingRead /\ \A n \in 1 .. N : f[n] = ReadOne(t, f[n - 1])
  BY <1>2, <1>3 DEF IsRead
<1> HIDE DEF N
<1>6. 0 \in S
  <2>1. NothingRead = State(NewLexer, <<>>, FALSE)
    BY DEF NothingRead
  <2>2. ReadOK(t, NewLexer, <<>>)
    BY ReadStart
  <2> HIDE DEF State
  <2>3. Good(NothingRead)
    BY <2>1, <2>2
  <2> HIDE DEF Good
  <2> QED BY <1>2, <1>5, <2>3
<1>7. ASSUME NEW r, Good(r) PROVE Good(ReadOne(t, r))
  <2>1. PICK l, toks, o : r = State(l, toks, o) /\ ReadOK(t, l, toks)
    BY <1>7
  <2> DEFINE n == NextToken(t, l)
  <2>2. r.lexer = l /\ r.tokens = toks /\ r.over = o
    BY <2>1
  <2>3. ReadOne(t, r) = IF o \/ NeverReturns(t, l) THEN r
                        ELSE IF n.token.kind = "eof"
                          THEN [r EXCEPT !.over = TRUE]
                        ELSE [r EXCEPT !.lexer = n.lexer,
                                       !.tokens = Append(@, n.token)]
    BY <2>2 DEF ReadOne
  <2>4. \/ n.token.kind = "eof"
        \/ n.token.kind # "eof" /\ ReadOK(t, n.lexer, Append(toks, n.token))
    BY <2>1, ReadStep
  <2> HIDE DEF n
  <2>5. CASE ReadOne(t, r) = r
    BY <1>7, <2>5
  <2>6. CASE n.token.kind = "eof" /\ ReadOne(t, r) = [r EXCEPT !.over = TRUE]
    <3>1. [r EXCEPT !.over = TRUE] = State(l, toks, TRUE)
      <4>1. \A v : [State(l, toks, o) EXCEPT !.over = v] = State(l, toks, v)
        OBVIOUS
      <4> HIDE DEF State
      <4> QED BY <2>1, <4>1
    <3> HIDE DEF State
    <3> QED BY <2>1, <2>6, <3>1
  <2>7. CASE /\ n.token.kind # "eof"
             /\ ReadOne(t, r) = [r EXCEPT !.lexer = n.lexer,
                                          !.tokens = Append(@, n.token)]
    <3>1. ReadOne(t, r) = State(n.lexer, Append(toks, n.token), o)
      BY <2>1, <2>2, <2>7
    <3> HIDE DEF State
    <3> QED BY <2>4, <2>7, <3>1
  <2> HIDE DEF Good
  <2> QED BY <2>3, <2>5, <2>6, <2>7
<1>8. N \in S
  <2>1. ASSUME NEW k \in 0 .. N - 1, k \in S PROVE k + 1 \in S
    <3>1. k + 1 \in 1 .. N /\ (k + 1) - 1 = k /\ k + 1 \in 0 .. N
      BY <1>2
    <3>2. f[k + 1] = ReadOne(t, f[k])
      BY <1>5, <3>1
    <3>3. Good(f[k + 1])
      <4> HIDE DEF Good
      <4> QED BY <1>7, <2>1, <3>2
    <3> HIDE DEF Good
    <3> QED BY <3>1, <3>3
  <2> HIDE DEF S
  <2>2. \A k \in 0 .. N : k \in S
    BY <1>2, <1>6, <2>1, Upwards
  <2> QED BY <1>2, <2>2
<1>9. PICK l, toks, o : f[N] = State(l, toks, o) /\ ReadOK(t, l, toks)
  BY <1>8
<1>10. Tokenize(t).tokens = toks
  BY <1>4, <1>9
<1> QED BY <1>9, <1>10
-------------------------------------------------------------------------------
(***************************************************************************)
(* find_first_affected, and where relex cuts the tokens.                   *)
(***************************************************************************)
Whole(toks) == [size |-> Len(toks), base |-> 0]

IsSearch(f, toks, a) ==
  f = [n \in 0 .. Len(toks) |->
         IF n = 0 THEN Whole(toks) ELSE Halve(toks, a, f[n - 1])]

LEMMA SearchExists ==
  ASSUME NEW toks, NEW a, Len(toks) \in Nat
  PROVE  \E f : IsSearch(f, toks, a)
<1> DEFINE N == Len(toks)
           Solves(g, k) ==
             \A n \in 0 .. k :
               g[n] = IF n = 0 THEN Whole(toks) ELSE Halve(toks, a, g[n - 1])
           S == {k \in 0 .. N : \E g : Solves(g, k)}
<1>0. N \in Nat
  OBVIOUS
<1> HIDE DEF N
<1>1. 0 \in S
  <2>1. Solves([n \in 0 .. N |-> Whole(toks)], 0)
    BY <1>0
  <2> HIDE DEF Solves
  <2> QED BY <1>0, <2>1
<1>2. ASSUME NEW k \in 0 .. N - 1, k \in S PROVE k + 1 \in S
  <2>1. PICK g : Solves(g, k)
    BY <1>2
  <2> DEFINE h == [n \in 0 .. N |-> IF n = k + 1 THEN Halve(toks, a, g[k])
                                    ELSE g[n]]
  <2>2. /\ h[k + 1] = Halve(toks, a, g[k])
        /\ \A n \in 0 .. k : h[n] = g[n]
    BY <1>0
  <2> HIDE DEF h
  <2>3. ASSUME NEW n \in 0 .. k + 1
        PROVE  h[n] = IF n = 0 THEN Whole(toks) ELSE Halve(toks, a, h[n - 1])
    <3>1. CASE n = k + 1
      <4>1. h[n - 1] = g[k] /\ n # 0
        BY <2>2, <3>1
      <4> QED BY <2>2, <3>1, <4>1
    <3>2. CASE n # k + 1
      <4>1. n \in 0 .. k /\ (n # 0 => n - 1 \in 0 .. k)
        BY <3>2
      <4> QED BY <2>1, <2>2, <4>1
    <3> QED BY <3>1, <3>2
  <2>4. Solves(h, k + 1)
    BY <2>3
  <2> HIDE DEF Solves
  <2> QED BY <1>0, <2>4
<1>3. N \in S
  <2> HIDE DEF S
  <2>1. \A k \in 0 .. N : k \in S
    BY <1>0, <1>1, <1>2, Upwards
  <2> QED BY <1>0, <2>1
<1>4. PICK g : Solves(g, N)
  <2> HIDE DEF Solves
  <2> QED BY <1>3
<1> DEFINE f == [n \in 0 .. N |-> g[n]]
<1>5. f = [n \in 0 .. N |-> IF n = 0 THEN Whole(toks)
                            ELSE Halve(toks, a, f[n - 1])]
  <2>1. ASSUME NEW n \in 0 .. N
        PROVE  g[n] = IF n = 0 THEN Whole(toks) ELSE Halve(toks, a, f[n - 1])
    <3>1. n # 0 => f[n - 1] = g[n - 1]
      BY <1>0
    <3> HIDE DEF f
    <3> QED BY <1>4, <3>1
  <2> QED BY <2>1
<1> HIDE DEF f
<1>6. IsSearch(f, toks, a)
  BY <1>5 DEF IsSearch, N
<1> QED BY <1>6

\* What the search keeps: a part of the tokens, at the first of all or at one
\* that ends at or before a.
Part(s, toks, a) ==
  \E z, b \in Nat : /\ s = [size |-> z, base |-> b]
                    /\ z >= 1 /\ b + z <= Len(toks)
                    /\ b > 0 => toks[b + 1].end <= a

LEMMA HalveKeeps ==
  ASSUME NEW toks, NEW a, NEW s, Part(s, toks, a), Len(toks) \in Nat
  PROVE  Part(Halve(toks, a, s), toks, a)
<1>1. PICK z, b \in Nat : /\ s = [size |-> z, base |-> b]
                          /\ z >= 1 /\ b + z <= Len(toks)
                          /\ b > 0 => toks[b + 1].end <= a
  BY DEF Part
<1> DEFINE h == z \div 2
           e == b + h
           y == z - h
<1>2. s.size = z /\ s.base = b
  BY <1>1
<1>3. CASE z <= 1
  <2>1. Halve(toks, a, s) = s
    BY <1>2, <1>3 DEF Halve
  <2> QED BY <2>1
<1>4. CASE z > 1
  <2>1. h \in Nat /\ h >= 1 /\ h < z
    BY <1>4
  <2> DEFINE c == IF toks[e + 1].end <= a THEN e ELSE b
  <2>2. Halve(toks, a, s) = [size |-> y, base |-> c]
    BY <1>2, <1>4 DEF Halve
  <2> HIDE DEF h
  <2>3. e \in Nat /\ y \in Nat /\ y >= 1 /\ e + y = b + z /\ b + y <= b + z
    BY <2>1
  <2> HIDE DEF e, y
  <2>4. c \in Nat /\ c + y <= Len(toks) /\ (c > 0 => toks[c + 1].end <= a)
    BY <1>1, <2>3
  <2> HIDE DEF c
  <2> QED BY <2>2, <2>3, <2>4 DEF Part
<1> QED BY <1>3, <1>4

\* partition_point: when tokens end in their order, those it passes end at or
\* before a.
LEMMA FirstAffectedBehind ==
  ASSUME NEW toks, NEW a \in Nat, toks \in Seq(Tok),
         \A i, j \in DOMAIN toks : i < j => toks[i].end <= toks[j].end
  PROVE  /\ FirstAffected(toks, a) \in 0 .. Len(toks)
         /\ \A i \in 1 .. FirstAffected(toks, a) : toks[i].end <= a
<1> DEFINE N == Len(toks)
           f == CHOOSE g : IsSearch(g, toks, a)
           S == {n \in 0 .. N : Part(f[n], toks, a)}
           b == f[N].base
<1>1. N \in Nat /\ DOMAIN toks = 1 .. N
  BY LenProperties
<1>2. IsSearch(f, toks, a)
  BY <1>1, SearchExists
<1>3. FirstAffected(toks, a)
        = IF toks = <<>> THEN 0
          ELSE IF toks[b + 1].end <= a THEN b + 1 ELSE b
  BY DEF FirstAffected, IsSearch, Whole
<1> HIDE DEF f
<1>4. f[0] = Whole(toks) /\ \A n \in 1 .. N : f[n] = Halve(toks, a, f[n - 1])
  BY <1>1, <1>2 DEF IsSearch
<1>5. CASE toks = <<>>
  <2>1. FirstAffected(toks, a) = 0
    BY <1>3, <1>5
  <2>2. 0 \in 0 .. N /\ 1 .. 0 = {}
    BY <1>1
  <2> QED BY <2>1, <2>2
<1>6. CASE toks # <<>>
  <2>1. N >= 1
    BY <1>1, <1>6, EmptySeq
  <2>2. 0 \in S
    <3>1. Part(Whole(toks), toks, a)
      BY <1>1, <2>1 DEF Part, Whole
    <3> QED BY <1>1, <1>4, <3>1
  <2>3. ASSUME NEW k \in 0 .. N - 1, k \in S PROVE k + 1 \in S
    <3>1. k + 1 \in 1 .. N /\ (k + 1) - 1 = k /\ k + 1 \in 0 .. N
      BY <1>1
    <3>2. f[k + 1] = Halve(toks, a, f[k])
      BY <1>4, <3>1
    <3> QED BY <1>1, <2>3, <3>1, <3>2, HalveKeeps
  <2>4. Part(f[N], toks, a)
    <3> HIDE DEF S
    <3>1. \A k \in 0 .. N : k \in S
      BY <1>1, <2>2, <2>3, Upwards
    <3>2. N \in S
      BY <1>1, <3>1
    <3> QED BY <3>2 DEF S
  <2>5. PICK z, c \in Nat : /\ f[N] = [size |-> z, base |-> c]
                            /\ z >= 1 /\ c + z <= N
                            /\ c > 0 => toks[c + 1].end <= a
    BY <2>4 DEF Part
  <2>6. b = c /\ c + 1 \in 1 .. N
    BY <1>1, <2>5
  <2> HIDE DEF b
  <2>7. CASE toks[c + 1].end <= a
    <3>1. FirstAffected(toks, a) = c + 1
      BY <1>3, <1>6, <2>6, <2>7
    <3>2. ASSUME NEW i \in 1 .. c + 1 PROVE toks[i].end <= a
      <4>1. i \in 1 .. N
        BY <1>1, <2>6
      <4>2. CASE i = c + 1
        BY <2>7, <4>2
      <4>3. CASE i # c + 1
        <5>1. i < c + 1
          BY <4>3
        <5>2. toks[i].end <= toks[c + 1].end
          BY <1>1, <2>6, <4>1, <5>1
        <5>3. toks[i] \in Tok /\ toks[c + 1] \in Tok
          BY <1>1, <2>6, <4>1, ElementOfSeq
        <5>4. toks[i].end \in Nat /\ toks[c + 1].end \in Nat
          BY <5>3 DEF Tok
        <5> QED BY <2>7, <5>2, <5>4
      <4> QED BY <4>2, <4>3
    <3> QED BY <1>1, <2>6, <3>1, <3>2
  <2>8. CASE ~ (toks[c + 1].end <= a)
    <3>1. c = 0
      BY <2>5, <2>8
    <3>2. FirstAffected(toks, a) = 0
      BY <1>3, <1>6, <2>6, <2>8, <3>1
    <3>3. 0 \in 0 .. N /\ 1 .. 0 = {}
      BY <1>1
    <3> QED BY <3>2, <3>3
  <2> QED BY <2>7, <2>8
<1> QED BY <1>5, <1>6

LEMMA LeastOf ==
  ASSUME NEW T, T \subseteq Nat, T # {}
  PROVE  Min(T) \in T /\ \A y \in T : Min(T) <= y
<1>1. \E x \in T : \A y \in T : x <= y
  BY LeastNumber
<1> QED BY <1>1 DEF Min

LEMMA GreatestOf ==
  ASSUME NEW n \in Nat, NEW T, T \subseteq 0 .. n, T # {}
  PROVE  Max(T) \in T /\ \A y \in T : Max(T) >= y
<1> DEFINE U == {k \in 0 .. n : n - k \in T}
<1>1. U \subseteq Nat /\ U # {}
  <2>1. PICK y \in T : y \in 0 .. n
    OBVIOUS
  <2>2. n - y \in 0 .. n /\ n - (n - y) = y
    BY <2>1
  <2>3. n - y \in U /\ U \subseteq Nat
    BY <2>2
  <2> HIDE DEF U
  <2> QED BY <2>3
<1>2. PICK k \in U : \A j \in U : k <= j
  <2> HIDE DEF U
  <2> QED BY <1>1, LeastNumber
<1>3. n - k \in T
  BY <1>2
<1>4. ASSUME NEW y \in T PROVE n - k >= y
  <2>1. y \in 0 .. n
    BY <1>4
  <2>2. n - y \in 0 .. n /\ n - (n - y) = y
    BY <2>1
  <2>3. n - y \in U
    BY <1>4, <2>2
  <2>4. k <= n - y /\ k \in 0 .. n
    BY <1>2, <2>3
  <2> QED BY <2>1, <2>4
<1>5. \E x \in T : \A y \in T : x >= y
  BY <1>3, <1>4
<1> QED BY <1>5 DEF Max

\* Tokens, anywhere: adjust_token moves them to the left as well.
Moved == [kind : Kind, start : Int, end : Int]

EndBy(q, m) == \A i \in DOMAIN q : q[i].end <= m

StartFrom(q, m) == \A i \in DOMAIN q : m <= q[i].start

LEMMA MovedTokens ==
  ASSUME NEW q \in Seq(Tok)
  PROVE  q \in Seq(Moved)
<1>1. Tok \subseteq Moved
  BY DEF Tok, Moved
<1> QED BY <1>1, LenProperties

\* adjust_token keeps the order.
LEMMA ShiftedOrdered ==
  ASSUME NEW q \in Seq(Moved), NEW by \in Int, NEW m \in Int
  PROVE  LET r == ShiftAll(q, by)
         IN  /\ r \in Seq(Moved) /\ Len(r) = Len(q)
             /\ Ordered(q) => Ordered(r)
             /\ EndBy(q, m) => EndBy(r, m + by)
             /\ StartFrom(q, m) => StartFrom(r, m + by)
<1> DEFINE N == Len(q)
           r == ShiftAll(q, by)
<1>1. N \in Nat /\ DOMAIN q = 1 .. N /\ \A i \in 1 .. N : q[i] \in Moved
  BY LenProperties, ElementOfSeq
<1>2. r = [i \in 1 .. N |-> Shifted(q[i], by)]
  BY <1>1 DEF ShiftAll
<1>3. ASSUME NEW k \in Moved
      PROVE  /\ Shifted(k, by) \in Moved /\ Shifted(k, by).kind = k.kind
             /\ Shifted(k, by).start = k.start + by
             /\ Shifted(k, by).end = k.end + by
             /\ k.start \in Int /\ k.end \in Int
  <2>1. k.kind \in Kind /\ k.start \in Int /\ k.end \in Int
    BY DEF Moved
  <2> DEFINE w == [k EXCEPT !.start = k.start + by, !.end = k.end + by]
  <2>2. k.start + by \in Int /\ k.end + by \in Int
    BY <2>1
  <2>3. w \in Moved
    BY <2>1, <2>2 DEF Moved
  <2>4. w.kind = k.kind
    BY DEF Moved
  <2>5. w.start = k.start + by
    BY DEF Moved
  <2>6. w.end = k.end + by
    BY DEF Moved
  <2>7. Shifted(k, by) = w
    BY DEF Shifted
  <2> HIDE DEF w
  <2> QED BY <2>1, <2>3, <2>4, <2>5, <2>6, <2>7
<1>4. \A i \in 1 .. N : Shifted(q[i], by) \in Moved
  BY <1>1, <1>3
<1>5. r \in Seq(Moved)
  <2>1. r \in [1 .. N -> Moved]
    BY <1>2, <1>4
  <2> QED BY <1>1, <2>1, SeqDef
<1>6. Len(r) = N /\ DOMAIN r = 1 .. N
  <2>1. DOMAIN r = 1 .. N
    BY <1>2
  <2>2. Len(r) \in Nat /\ DOMAIN r = 1 .. Len(r)
    BY <1>5, LenProperties
  <2>3. 1 .. Len(r) = 1 .. N
    BY <2>1, <2>2
  <2>4. ASSUME NEW x \in Nat, NEW y \in Nat, 1 .. x = 1 .. y PROVE x <= y
    <3>1. CASE x = 0
      BY <3>1
    <3>2. CASE x # 0
      <4>1. x \in 1 .. x
        BY <3>2
      <4> QED BY <2>4, <4>1
    <3> QED BY <3>1, <3>2
  <2>5. Len(r) <= N /\ N <= Len(r)
    BY <1>1, <2>2, <2>3, <2>4
  <2> QED BY <1>1, <2>1, <2>2, <2>5
<1>7. \A i \in 1 .. N : /\ r[i].kind = q[i].kind
                        /\ r[i].start = q[i].start + by
                        /\ r[i].end = q[i].end + by
                        /\ q[i].start \in Int /\ q[i].end \in Int
  BY <1>1, <1>2, <1>3
<1>8. ASSUME Ordered(q) PROVE Ordered(r)
  <2>1. ASSUME NEW i \in 1 .. N, NEW j \in 1 .. N, Precedes(q[i], q[j])
        PROVE  Precedes(r[i], r[j])
    <3>1. CASE q[i].end <= q[j].start
      <4>1. r[i].end <= r[j].start
        BY <1>7, <3>1
      <4> QED BY <4>1 DEF Precedes
    <3>2. CASE q[i].kind = "dedent" /\ q[j] = q[i]
      <4>1. r[j] = r[i]
        BY <1>2, <3>2
      <4> QED BY <1>7, <3>2, <4>1 DEF Precedes
    <3> QED BY <2>1, <3>1, <3>2 DEF Precedes
  <2> HIDE DEF r, N
  <2> QED BY <1>1, <1>6, <1>7, <1>8, <2>1 DEF Ordered
<1>9. ASSUME EndBy(q, m) PROVE EndBy(r, m + by)
  <2>1. ASSUME NEW i \in 1 .. N PROVE r[i].end <= m + by
    <3>1. q[i].end <= m
      BY <1>1, <1>9 DEF EndBy
    <3> QED BY <1>7, <3>1
  <2> QED BY <1>6, <2>1 DEF EndBy
<1>10. ASSUME StartFrom(q, m) PROVE StartFrom(r, m + by)
  <2>1. ASSUME NEW i \in 1 .. N PROVE m + by <= r[i].start
    <3>1. m <= q[i].start
      BY <1>1, <1>10 DEF StartFrom
    <3> QED BY <1>7, <3>1
  <2> QED BY <1>6, <2>1 DEF StartFrom
<1> HIDE DEF r
<1> QED BY <1>5, <1>6, <1>8, <1>9, <1>10 DEF r

\* Two runs of tokens in order, one behind the other.
LEMMA JoinedOrdered ==
  ASSUME NEW p \in Seq(Moved), NEW q \in Seq(Moved), NEW m \in Int, NEW e \in Int,
         Ordered(p), Ordered(q), EndBy(p, m), StartFrom(q, m)
  PROVE  /\ p \o q \in Seq(Moved) /\ Ordered(p \o q)
         /\ m <= e /\ EndBy(q, e) => EndBy(p \o q, e)
<1> DEFINE M == Len(p)
           N == Len(q)
           r == p \o q
<1>1. /\ M \in Nat /\ N \in Nat /\ DOMAIN p = 1 .. M /\ DOMAIN q = 1 .. N
      /\ \A i \in 1 .. M : p[i] \in Moved
      /\ \A i \in 1 .. N : q[i] \in Moved
  BY LenProperties, ElementOfSeq
<1>2. /\ r \in Seq(Moved) /\ Len(r) = M + N
      /\ \A i \in 1 .. M + N : r[i] = IF i <= M THEN p[i] ELSE q[i - M]
  BY ConcatProperties
<1>3. DOMAIN r = 1 .. M + N
  BY <1>2, LenProperties
<1> HIDE DEF r, M, N
<1>4. \A k \in Moved : k.start \in Int /\ k.end \in Int
  BY DEF Moved
<1>5. ASSUME NEW i \in 1 .. M + N
      PROVE  \/ i \in 1 .. M /\ r[i] = p[i]
             \/ i > M /\ i - M \in 1 .. N /\ r[i] = q[i - M]
  BY <1>1, <1>2
<1>6. ASSUME NEW i \in 1 .. M + N, NEW j \in 1 .. M + N, i < j,
             r[i].kind # "comment", r[j].kind # "comment"
      PROVE  Precedes(r[i], r[j])
  <2>1. CASE i \in 1 .. M /\ j \in 1 .. M
    <3>1. i <= M /\ j <= M
      BY <1>1, <2>1
    <3>2. r[i] = p[i] /\ r[j] = p[j]
      BY <1>2, <1>6, <3>1
    <3> QED BY <1>1, <1>6, <2>1, <3>2 DEF Ordered
  <2>2. CASE i \in 1 .. M /\ j > M
    <3>1. r[i] = p[i] /\ r[j] = q[j - M] /\ j - M \in 1 .. N
      BY <1>1, <1>2, <2>2
    <3>2. p[i].end <= m /\ m <= q[j - M].start
      BY <1>1, <2>2, <3>1 DEF EndBy, StartFrom
    <3>3. p[i].end \in Int /\ q[j - M].start \in Int
      BY <1>1, <1>4, <2>2, <3>1
    <3>4. p[i].end <= q[j - M].start
      BY <3>2, <3>3
    <3> QED BY <3>1, <3>4 DEF Precedes
  <2>3. CASE i > M
    <3>1. /\ r[i] = q[i - M] /\ r[j] = q[j - M] /\ i - M < j - M
          /\ i - M \in 1 .. N /\ j - M \in 1 .. N
      BY <1>1, <1>2, <1>6, <2>3
    <3> QED BY <1>1, <1>6, <3>1 DEF Ordered
  <2> QED BY <1>1, <1>6, <2>1, <2>2, <2>3
<1>7. ASSUME m <= e, EndBy(q, e) PROVE EndBy(r, e)
  <2>1. ASSUME NEW i \in 1 .. M + N PROVE r[i].end <= e
    <3>1. CASE i \in 1 .. M /\ r[i] = p[i]
      <4>1. p[i].end <= m /\ p[i].end \in Int
        BY <1>1, <1>4, <3>1 DEF EndBy
      <4> QED BY <1>7, <3>1, <4>1
    <3>2. CASE i - M \in 1 .. N /\ r[i] = q[i - M]
      BY <1>1, <1>7, <3>2 DEF EndBy
    <3> QED BY <1>5, <3>1, <3>2
  <2> QED BY <1>3, <2>1 DEF EndBy
<1> QED BY <1>2, <1>3, <1>6, <1>7 DEF Ordered, r

\* A part of tokens that are in order.
LEMMA CutOrdered ==
  ASSUME NEW q \in Seq(Tok), NEW a \in Int, NEW b \in Int, 1 <= a, b <= Len(q),
         Ordered(q)
  PROVE  LET r == SubSeq(q, a, b)
         IN  /\ r \in Seq(Tok) /\ Ordered(r)
             /\ \A m : (\A i \in a .. b : q[i].end <= m) => EndBy(r, m)
             /\ \A m : (\A i \in a .. b : m <= q[i].start) => StartFrom(r, m)
<1> DEFINE N == Len(q)
           r == SubSeq(q, a, b)
<1>1. N \in Nat /\ DOMAIN q = 1 .. N /\ \A i \in 1 .. N : q[i] \in Tok
  BY LenProperties, ElementOfSeq
<1>2. \A i \in a .. b : i \in 1 .. N
  BY <1>1
<1>3. /\ r \in Seq(Tok)
      /\ Len(r) = IF a <= b THEN b - a + 1 ELSE 0
      /\ \A i \in 1 .. b - a + 1 : r[i] = q[a + i - 1]
  BY <1>1, <1>2, SubSeqProperties
<1>4. Len(r) \in Nat /\ DOMAIN r = 1 .. Len(r)
  BY <1>3, LenProperties
<1> HIDE DEF r, N
<1>5. ASSUME NEW i \in DOMAIN r
      PROVE  i \in Nat /\ a + i - 1 \in a .. b /\ r[i] = q[a + i - 1]
  BY <1>3, <1>4
<1>6. Ordered(r)
  <2>1. ASSUME NEW i \in DOMAIN r, NEW j \in DOMAIN r, i < j
        PROVE  a + i - 1 < a + j - 1
    BY <1>5, <2>1
  <2>2. \A i \in DOMAIN r : a + i - 1 \in DOMAIN q
    BY <1>1, <1>2, <1>5
  <2> QED BY <1>5, <2>1, <2>2 DEF Ordered
<1> QED BY <1>3, <1>5, <1>6 DEF r, EndBy, StartFrom

NoComments(t) == \A i \in DOMAIN t : t[i] # "#"

LEMMA TokensInOrder ==
  ASSUME NEW C, NEW t \in Seq(C), NEW l, NEW toks, ReadOK(t, l, toks),
         NoComments(t)
  PROVE  /\ LieIn(toks, 0, Len(t))
         /\ \A i, j \in DOMAIN toks :
              i <= j => /\ toks[i].end <= toks[j].end
                        /\ toks[i].start <= toks[j].start
<1>1. /\ toks \in Seq(Tok) /\ LieIn(toks, 0, l.pos) /\ Ordered(toks)
      /\ CommentsMarked(t, toks) /\ l.pos <= Len(t) /\ l.pos \in Nat
  BY DEF ReadOK, Placed, LexerOK, LexerState
<1>2. Len(t) \in Nat /\ DOMAIN t = 1 .. Len(t)
  BY LenProperties
<1>3. ASSUME NEW i \in DOMAIN toks
      PROVE  /\ toks[i].start \in Nat /\ toks[i].end \in Nat
             /\ 0 <= toks[i].start /\ toks[i].start <= toks[i].end
             /\ toks[i].end <= Len(t)
  <2>1. toks[i] \in Tok
    BY <1>1, LenProperties, ElementOfSeq
  <2>2. toks[i].start \in Nat /\ toks[i].end \in Nat
    BY <2>1 DEF Tok
  <2>3. toks[i].start <= toks[i].end /\ toks[i].end <= l.pos
    BY <1>1 DEF LieIn
  <2> QED BY <1>1, <1>2, <2>2, <2>3
<1>4. ASSUME NEW i \in DOMAIN toks PROVE toks[i].kind # "comment"
  <2>1. At(t, toks[i].start) # "#"
    <3>1. CASE toks[i].start < Len(t)
      <4>1. toks[i].start + 1 \in 1 .. Len(t)
        BY <1>2, <1>3, <3>1
      <4> QED BY <1>2, <3>1, <4>1 DEF At, NoComments
    <3>2. CASE ~ (toks[i].start < Len(t))
      BY <3>2 DEF At
    <3> QED BY <3>1, <3>2
  <2> QED BY <1>1, <2>1 DEF CommentsMarked
<1>5. LieIn(toks, 0, Len(t))
  BY <1>3 DEF LieIn
<1>6. ASSUME NEW i \in DOMAIN toks, NEW j \in DOMAIN toks, i <= j
      PROVE  toks[i].end <= toks[j].end /\ toks[i].start <= toks[j].start
  <2>1. CASE i = j
    BY <1>3, <2>1
  <2>2. CASE i # j
    <3>1. i < j
      BY <1>1, <1>6, <2>2, LenProperties
    <3>2. Precedes(toks[i], toks[j])
      BY <1>1, <1>4, <3>1 DEF Ordered
    <3>3. CASE toks[j] = toks[i]
      BY <1>3, <3>3
    <3>4. CASE toks[i].end <= toks[j].start
      BY <1>3, <3>4
    <3> QED BY <3>2, <3>3, <3>4 DEF Precedes
  <2> QED BY <2>1, <2>2
<1> QED BY <1>5, <1>6

LEMMA TokenizedOrdered ==
  ASSUME NEW C, NEW t \in Seq(C)
  PROVE  LET r == Tokenize(t).tokens
         IN  /\ r \in Seq(Tok) /\ Ordered(r)
             /\ StartFrom(r, 0) /\ EndBy(r, Len(t))
<1> DEFINE r == Tokenize(t).tokens
<1>1. PICK l : ReadOK(t, l, r)
  BY TokenizeReads
<1> HIDE DEF r
<1>2. /\ r \in Seq(Tok) /\ Ordered(r) /\ LieIn(r, 0, l.pos)
      /\ l.pos <= Len(t) /\ l.pos \in Nat /\ Len(t) \in Nat
  BY <1>1, LenProperties DEF ReadOK, Placed, LexerOK, LexerState
<1>3. StartFrom(r, 0)
  BY <1>2 DEF LieIn, StartFrom
<1>4. ASSUME NEW i \in DOMAIN r PROVE r[i].end <= Len(t)
  <2>1. r[i] \in Tok
    BY <1>2, LenProperties, ElementOfSeq
  <2>2. r[i].end \in Nat /\ r[i].end <= l.pos
    BY <1>2, <2>1 DEF Tok, LieIn
  <2> QED BY <1>2, <2>2
<1> QED BY <1>2, <1>3, <1>4 DEF r, EndBy

\* The number of tokens relex keeps.
LEMMA KeptBehind ==
  ASSUME NEW toks, NEW first \in Nat
  PROVE  SafeRelexStart(toks, first) \in 0 .. first
<1> DEFINE safe == {i \in 1 .. first : IsSafe(toks, i)}
<1>1. CASE safe = {}
  BY <1>1 DEF SafeRelexStart
<1>2. CASE safe # {}
  <2>1. safe \subseteq 0 .. first
    OBVIOUS
  <2>2. SafeRelexStart(toks, first) = Max(safe)
    BY <1>2 DEF SafeRelexStart
  <2> HIDE DEF safe
  <2> QED BY <1>2, <2>1, <2>2, GreatestOf
<1> QED BY <1>1, <1>2

\* The old token from which on relex takes the tokens over.
LEMMA ResumesBehind ==
  ASSUME NEW toks \in Seq(Tok), NEW b \in Nat, NEW len \in Nat, NEW by \in Int,
         ResumePoint(toks, b, len, by) # 0
  PROVE  LET r == ResumePoint(toks, b, len, by)
         IN  /\ r \in DOMAIN toks /\ b < toks[r].start
             /\ toks[r].start + by < len
<1> DEFINE after == {i \in DOMAIN toks : toks[i].start > b}
           stop  == {i \in after : \/ toks[i].kind = "newline"
                                   \/ toks[i].start + by >= len}
<1>1. /\ stop # {} /\ ~ (toks[Min(stop)].start + by >= len)
      /\ ResumePoint(toks, b, len, by) = Min(stop)
  BY DEF ResumePoint
<1>2. stop \subseteq Nat
  BY LenProperties
<1>3. Min(stop) \in stop
  <2> HIDE DEF stop
  <2> QED BY <1>1, <1>2, LeastOf
<1>4. Min(stop) \in DOMAIN toks /\ toks[Min(stop)].start > b
  BY <1>3
<1> HIDE DEF stop
<1>5. toks[Min(stop)].start \in Nat
  <2>1. toks[Min(stop)] \in Tok
    BY <1>4, LenProperties, ElementOfSeq
  <2> QED BY <2>1 DEF Tok
<1>6. toks[Min(stop)].start + by < len /\ b < toks[Min(stop)].start
  BY <1>1, <1>4, <1>5
<1> QED BY <1>1, <1>4, <1>6

\* relex: the region it reads is a slice of the new text, and what it puts
\* together is in order.
LEMMA RelexOrdered ==
  ASSUME NEW C, NEW old \in Seq(C), NEW new \in Seq(C), NEW l, NEW toks,
         ReadOK(old, l, toks), NoComments(old),
         NEW a \in Nat, NEW b \in Nat, NEW n \in Nat, a <= b, b <= Len(old),
         Len(new) = Len(old) + n - (b - a)
  PROVE  LET r == Relex(toks, old, new, a, b, n, FirstAffected(toks, a))
         IN  /\ Ordered(r.tokens)
             /\ r.slice[1] <= r.slice[2] /\ r.slice[2] <= Len(new)
<1> DEFINE first  == FirstAffected(toks, a)
           by     == n - (b - a)
           keep   == IF first > 0 THEN SafeRelexStart(toks, first) ELSE 0
           resume == ResumePoint(toks, b, Len(new), by)
           from   == IF keep > 0 THEN toks[keep].end ELSE 0
           to     == IF resume > 0 THEN toks[resume].start + by ELSE Len(new)
           region == SubSeq(new, from + 1, to)
           p      == SubSeq(toks, 1, keep)
           q      == LexRegion(region, from)
           s      == IF resume = 0 THEN <<>>
                     ELSE ShiftAll(SubSeq(toks, resume, Len(toks)), by)
           r      == Relex(toks, old, new, a, b, n, first)
<1>1. /\ toks \in Seq(Tok) /\ Ordered(toks)
      /\ Len(toks) \in Nat /\ DOMAIN toks = 1 .. Len(toks)
      /\ Len(new) \in Nat /\ Len(old) \in Nat
  BY LenProperties DEF ReadOK, Placed
<1>2. /\ LieIn(toks, 0, Len(old))
      /\ \A i, j \in DOMAIN toks :
           i <= j => /\ toks[i].end <= toks[j].end
                     /\ toks[i].start <= toks[j].start
  BY TokensInOrder
<1>3. \A i \in DOMAIN toks : toks[i].start \in Nat /\ toks[i].end \in Nat
  <2>1. \A i \in DOMAIN toks : toks[i] \in Tok
    BY <1>1, ElementOfSeq
  <2> QED BY <2>1 DEF Tok
<1>4. first \in 0 .. Len(toks) /\ \A i \in 1 .. first : toks[i].end <= a
  <2>1. \A i, j \in DOMAIN toks : i < j => toks[i].end <= toks[j].end
    BY <1>1, <1>2
  <2> QED BY <1>1, <2>1, FirstAffectedBehind
<1>5. r = IF Len(old) < MinIncremental \/ EditIsLarge(a, b, n, Len(old))
          THEN [tokens |-> Tokenize(new).tokens, slice |-> <<0, Len(new)>>]
          ELSE [tokens |-> p \o (IF from <= to THEN q ELSE <<>>) \o s,
                slice |-> <<from, to>>]
  BY DEF Relex
<1>6. by \in Int /\ b - a \in Nat
  BY <1>1
<1>7. keep \in 0 .. Len(toks) /\ (keep > 0 => toks[keep].end <= a)
  <2> HIDE DEF first
  <2>1. CASE first > 0
    <3>1. SafeRelexStart(toks, first) \in 0 .. first
      BY <1>1, <1>4, KeptBehind
    <3>2. keep \in 0 .. first
      BY <2>1, <3>1
    <3> HIDE DEF keep
    <3>3. keep > 0 => keep \in 1 .. first
      BY <1>4, <3>2
    <3> QED BY <1>1, <1>4, <3>2, <3>3
  <2>2. CASE ~ (first > 0)
    BY <1>1, <2>2
  <2> QED BY <2>1, <2>2
<1>8. resume # 0 => /\ resume \in DOMAIN toks /\ b < toks[resume].start
                    /\ toks[resume].start + by < Len(new)
  <2> HIDE DEF by
  <2> QED BY <1>1, <1>6, ResumesBehind
<1> HIDE DEF first, keep, resume, r
<1>9. /\ from \in Nat /\ from <= a
      /\ keep > 0 => keep \in DOMAIN toks /\ from = toks[keep].end
  BY <1>1, <1>3, <1>7, SMTT(20)
<1>10. /\ to \in Nat /\ a <= to /\ to <= Len(new)
       /\ resume # 0 => to = toks[resume].start + by
  <2>1. CASE resume = 0
    <3>1. to = Len(new)
      BY <2>1
    <3> QED BY <1>1, <2>1, <3>1
  <2>2. CASE resume # 0
    <3>1. resume \in DOMAIN toks /\ resume > 0
      BY <1>1, <1>8, <2>2
    <3>2. to = toks[resume].start + by /\ toks[resume].start \in Nat
      BY <1>3, <3>1
    <3>3. a <= to /\ to < Len(new) /\ to \in Nat
      BY <1>1, <1>8, <2>2, <3>2
    <3> QED BY <1>1, <3>2, <3>3
  <2> QED BY <2>1, <2>2
<1> HIDE DEF from, to, by
<1>11. from <= to
  BY <1>9, <1>10
<1>12. p \in Seq(Moved) /\ Ordered(p) /\ EndBy(p, from)
  <2>1. ASSUME NEW i \in 1 .. keep PROVE toks[i].end <= from
    <3>1. keep > 0 /\ i \in DOMAIN toks /\ i <= keep
      BY <1>1, <1>7
    <3> QED BY <1>2, <1>9, <3>1
  <2>2. keep \in Int /\ keep <= Len(toks)
    BY <1>1, <1>7
  <2>3. p \in Seq(Tok) /\ Ordered(p) /\ EndBy(p, from)
    BY <1>1, <2>1, <2>2, CutOrdered
  <2> QED BY <2>3, MovedTokens
<1>13. q \in Seq(Moved) /\ Ordered(q) /\ StartFrom(q, from) /\ EndBy(q, to)
  <2> DEFINE z == Tokenize(region).tokens
  <2>1. region \in Seq(C) /\ Len(region) = to - from
    <3>1. \A i \in from + 1 .. to : new[i] \in C
      BY <1>1, <1>9, <1>10, ElementOfSeq
    <3>2. from + 1 \in Int /\ to \in Int
      BY <1>9, <1>10
    <3>3. region \in Seq(C)
      BY <3>1, <3>2, SubSeqProperties
    <3>4. Len(region) = IF from + 1 <= to THEN to - (from + 1) + 1 ELSE 0
      BY <3>1, <3>2, SubSeqProperties
    <3> QED BY <1>9, <1>10, <1>11, <3>3, <3>4
  <2> HIDE DEF region
  <2>2. z \in Seq(Tok) /\ Ordered(z) /\ StartFrom(z, 0) /\ EndBy(z, to - from)
    BY <2>1, TokenizedOrdered
  <2>3. q = ShiftAll(z, from)
    BY DEF LexRegion
  <2> HIDE DEF z, q
  <2>4. z \in Seq(Moved) /\ from \in Int /\ to - from \in Int
    BY <1>9, <1>10, <2>2, MovedTokens
  <2>5. q \in Seq(Moved) /\ Ordered(q) /\ StartFrom(q, 0 + from)
    BY <2>2, <2>3, <2>4, ShiftedOrdered
  <2>6. EndBy(q, (to - from) + from)
    BY <2>2, <2>3, <2>4, ShiftedOrdered
  <2>7. 0 + from = from /\ (to - from) + from = to
    BY <1>9, <1>10
  <2> QED BY <2>5, <2>6, <2>7
<1>14. s \in Seq(Moved) /\ Ordered(s) /\ StartFrom(s, to)
  <2>1. CASE resume = 0
    BY <2>1 DEF Ordered, StartFrom
  <2>2. CASE resume # 0
    <3> DEFINE z == SubSeq(toks, resume, Len(toks))
               m == toks[resume].start
    <3>1. ASSUME NEW i \in resume .. Len(toks) PROVE m <= toks[i].start
      <4>1. resume \in DOMAIN toks /\ i \in DOMAIN toks /\ resume <= i
        BY <1>1, <1>8, <2>2
      <4> QED BY <1>2, <4>1
    <3>2. resume \in Int /\ 1 <= resume /\ Len(toks) \in Int
          /\ Len(toks) <= Len(toks) /\ m \in Int
      BY <1>1, <1>3, <1>8, <2>2
    <3>3. z \in Seq(Tok) /\ Ordered(z) /\ StartFrom(z, m)
      <4> HIDE DEF m
      <4> QED BY <1>1, <3>1, <3>2, CutOrdered
    <3>4. s = ShiftAll(z, by)
      BY <2>2
    <3>5. to = m + by
      BY <1>10, <2>2
    <3> HIDE DEF z, m, s
    <3>6. z \in Seq(Moved)
      BY <3>3, MovedTokens
    <3> QED BY <1>6, <3>2, <3>3, <3>4, <3>5, <3>6, ShiftedOrdered
  <2> QED BY <2>1, <2>2
<1> HIDE DEF p, q, s
<1>15. Ordered((p \o q) \o s)
  <2>1. from \in Int /\ to \in Int
    BY <1>9, <1>10
  <2>2. p \o q \in Seq(Moved) /\ Ordered(p \o q) /\ EndBy(p \o q, to)
    BY <1>11, <1>12, <1>13, <2>1, JoinedOrdered
  <2> QED BY <1>14, <2>1, <2>2, JoinedOrdered
<1>16. CASE r = [tokens |-> Tokenize(new).tokens, slice |-> <<0, Len(new)>>]
  <2>1. r.tokens = Tokenize(new).tokens /\ r.slice = <<0, Len(new)>>
    BY <1>16
  <2>2. Ordered(r.tokens)
    BY <2>1, TokenizedOrdered
  <2> QED BY <1>1, <2>1, <2>2 DEF r, first
<1>17. CASE r = [tokens |-> p \o (IF from <= to THEN q ELSE <<>>) \o s,
                 slice |-> <<from, to>>]
  <2>1. r.tokens = (p \o q) \o s /\ r.slice = <<from, to>>
    BY <1>11, <1>17
  <2>2. Ordered(r.tokens)
    BY <1>15, <2>1
  <2> QED BY <1>10, <1>11, <2>1, <2>2 DEF r, first
<1> QED BY <1>5, <1>16, <1>17
-------------------------------------------------------------------------------
(***************************************************************************)
(* Where f-strings end: PassFString goes from place to place, an offset and *)
(* the braces open there.                                                  *)
(***************************************************************************)
Places(n) == (0 .. n) \X Nat

PlaceLoop(n) == {next \in [Places(n) -> Places(n)] :
                   \A p \in Places(n) : next[p] = p \/ p[1] < next[p][1]}

LEMMA PlacesFollowed ==
  ASSUME NEW n \in Nat, NEW next \in PlaceLoop(n), NEW p \in Places(n)
  PROVE  Follow(next)[p] = IF next[p] = p THEN p ELSE Follow(next)[next[p]]
<1> DEFINE P == Places(n)
           Solves(g, k) ==
             \A x \in P : k <= x[1] =>
                            g[x] = IF next[x] = x THEN x ELSE g[next[x]]
           S == {k \in 0 .. n : \E g : Solves(g, k)}
<1>1. /\ DOMAIN next = P /\ \A x \in P : x[1] \in 0 .. n
      /\ \A x \in P : next[x] \in P /\ (next[x] = x \/ x[1] < next[x][1])
  BY DEF PlaceLoop, Places
<1> HIDE DEF P
<1>2. ASSUME NEW k \in 0 .. n, \A j \in k + 1 .. n : j \in S
      PROVE  k \in S
  <2>1. PICK g : Solves(g, k + 1)
    <3>1. CASE k = n
      <4>1. \A x \in P : ~ (k + 1 <= x[1])
        BY <1>1, <3>1
      <4>2. Solves(<<>>, k + 1)
        BY <4>1
      <4> QED BY <4>2
    <3>2. CASE k # n
      <4>1. k + 1 \in S
        BY <1>2, <3>2
      <4> QED BY <4>1
    <3> QED BY <3>1, <3>2
  <2> DEFINE h == [x \in P |-> IF x[1] = k
                     THEN IF next[x] = x THEN x ELSE g[next[x]] ELSE g[x]]
  <2>2. ASSUME NEW x \in P, k <= x[1]
        PROVE  h[x] = IF next[x] = x THEN x ELSE h[next[x]]
    <3>1. next[x] \in P /\ x[1] \in 0 .. n /\ next[x][1] \in 0 .. n
      BY <1>1
    <3>2. CASE next[x] = x
      <4>1. x[1] # k => g[x] = x
        BY <2>1, <2>2, <3>1, <3>2
      <4> QED BY <3>2, <4>1
    <3>3. CASE next[x] # x
      <4>1. k + 1 <= next[x][1] /\ next[x][1] # k
        BY <1>1, <2>2, <3>1, <3>3
      <4>2. h[next[x]] = g[next[x]]
        BY <3>1, <4>1
      <4>3. x[1] # k => g[x] = g[next[x]]
        BY <2>1, <2>2, <3>1, <3>3
      <4> QED BY <3>3, <4>2, <4>3
    <3> QED BY <3>2, <3>3
  <2> HIDE DEF h
  <2>3. Solves(h, k)
    BY <2>2
  <2> QED BY <2>3
<1>3. 0 \in S
  <2> HIDE DEF S
  <2>1. \A k \in 0 .. n : (\A j \in k + 1 .. n : j \in S) => k \in S
    BY <1>2
  <2>2. \A k \in 0 .. n : k \in S
    BY <2>1, Downwards
  <2> QED BY <2>2
<1>4. PICK g : Solves(g, 0)
  BY <1>3
<1> DEFINE f == [x \in DOMAIN next |-> g[x]]
<1>5. f = [x \in DOMAIN next |-> IF next[x] = x THEN x ELSE f[next[x]]]
  <2>1. ASSUME NEW x \in P
        PROVE  g[x] = IF next[x] = x THEN x ELSE f[next[x]]
    <3>1. 0 <= x[1] /\ next[x] \in P
      BY <1>1
    <3> QED BY <1>1, <1>4, <3>1
  <2> QED BY <1>1, <2>1
<1>6. Follow(next)
        = [x \in DOMAIN next |-> IF next[x] = x THEN x
                                 ELSE Follow(next)[next[x]]]
  <2> HIDE DEF f
  <2> QED BY <1>5 DEF Follow
<1>7. p \in DOMAIN next
  BY <1>1 DEF P
<1> QED BY <1>6, <1>7

LEMMA StringEndIs ==
  ASSUME NEW C, NEW t \in Seq(C), NEW o \in Nat, At(t, o) \in Quote
  PROVE  StringEnd(t, o) \in o + 1 .. Len(t)
<1> DEFINE q == At(t, o)
           triple == Thrice(t, o, q)
           from == IF triple THEN o + 3 ELSE o + 1
<1>1. Len(t) \in Nat /\ o + 1 \in 0 .. Len(t)
  BY LenProperties, QuoteIsByte, AtInside
<1>2. triple => o + 3 \in 0 .. Len(t)
  BY <1>1, ThriceInside
<1>3. triple \in BOOLEAN
  BY DEF Thrice
<1>4. StringEnd(t, o) = ScanString(t, from, q, triple).end
  BY DEF StringEnd
<1> HIDE DEF triple, q
<1>5. from \in o + 1 .. Len(t) /\ from \in 0 .. Len(t) /\ q \in Quote
  BY <1>1, <1>2 DEF q
<1> HIDE DEF from
<1>6. StringEnd(t, o) \in from .. Len(t)
  BY <1>3, <1>4, <1>5, StringEnds
<1> QED BY <1>1, <1>5, <1>6

LEMMA FStringLoop ==
  ASSUME NEW C, NEW t \in Seq(C), NEW q
  PROVE  PassFString(t, q) \in PlaceLoop(Len(t))
<1> DEFINE next == PassFString(t, q)
           P == Places(Len(t))
<1>1. Len(t) \in Nat /\ DOMAIN next = P
  BY LenProperties DEF PassFString, Places
<1>2. ASSUME NEW p \in P
      PROVE  next[p] \in P /\ (next[p] = p \/ p[1] < next[p][1])
  <2> DEFINE o == p[1]
             d == p[2]
             c == At(t, o)
  <2>1. o \in 0 .. Len(t) /\ d \in Nat
    BY DEF Places
  <2>2. next[p] =
          IF o = Len(t) THEN p
          ELSE IF d = 0
            THEN IF Doubled(t, o) THEN <<o + 2, 0>>
                 ELSE IF c \in {q, "nl"} THEN p
                 ELSE IF c = "{" THEN <<o + 1, 1>>
                 ELSE <<IF c = "\\" THEN Least(o + 2, Len(t)) ELSE o + 1, 0>>
          ELSE IF c \in {"nl", "#", "\\"} \/ (c \in Quote /\ Prefixed(t, o)) THEN p
          ELSE IF c \in Quote THEN <<StringEnd(t, o), d>>
          ELSE <<o + 1, CASE c = "{" -> d + 1
                          [] c = "}" -> d - 1
                          [] OTHER -> d>>
    BY <1>1 DEF PassFString, Places
  <2>3. CASE next[p] = p
    BY <2>3
  <2>4. ASSUME NEW e \in Nat, NEW b \in Nat, next[p] = <<e, b>>,
               o < e, e <= Len(t)
        PROVE  next[p] \in P /\ p[1] < next[p][1]
    <3> HIDE DEF next, o
    <3>1. <<e, b>> \in P /\ <<e, b>>[1] = e
      BY <1>1, <2>4 DEF Places
    <3> QED BY <2>4, <3>1 DEF o
  <2> HIDE DEF next, P, o, d
  <2>5. CASE o # Len(t) /\ d = 0
    <3>1. CASE Doubled(t, o)
      <4>1. At(t, o + 1) # "end"
        BY <3>1 DEF Doubled
      <4>2. o + 1 \in Nat
        BY <2>1
      <4>3. o + 1 < Len(t)
        BY <4>1, <4>2, AtInside
      <4>4. next[p] = <<o + 2, 0>>
        BY <2>2, <2>5, <3>1
      <4>5. o + 2 \in Nat /\ o < o + 2 /\ o + 2 <= Len(t) /\ 0 \in Nat
        BY <1>1, <2>1, <4>3
      <4> QED BY <2>4, <4>4, <4>5
    <3>2. CASE ~ Doubled(t, o) /\ c = "{" /\ c \notin {q, "nl"}
      <4>1. next[p] = <<o + 1, 1>>
        BY <2>2, <2>5, <3>2
      <4>2. o + 1 \in Nat /\ o < o + 1 /\ o + 1 <= Len(t) /\ 1 \in Nat
        BY <1>1, <2>1, <2>5
      <4> QED BY <2>4, <4>1, <4>2
    <3>3. CASE ~ Doubled(t, o) /\ c # "{" /\ c \notin {q, "nl"}
      <4> DEFINE e == IF c = "\\" THEN Least(o + 2, Len(t)) ELSE o + 1
      <4>1. next[p] = <<e, 0>>
        BY <2>2, <2>5, <3>3
      <4>2. e \in Nat /\ o < e /\ e <= Len(t) /\ 0 \in Nat
        BY <1>1, <2>1, <2>5 DEF Least
      <4> HIDE DEF e
      <4> QED BY <2>4, <4>1, <4>2
    <3>4. CASE ~ Doubled(t, o) /\ c \in {q, "nl"}
      BY <2>2, <2>3, <2>5, <3>4
    <3> QED BY <3>1, <3>2, <3>3, <3>4
  <2>6. CASE o # Len(t) /\ d # 0
    <3>1. CASE /\ ~ (c \in {"nl", "#", "\\"} \/ (c \in Quote /\ Prefixed(t, o)))
               /\ c \in Quote
      <4>1. StringEnd(t, o) \in o + 1 .. Len(t)
        BY <2>1, <3>1, StringEndIs
      <4>2. next[p] = <<StringEnd(t, o), d>>
        BY <2>2, <2>6, <3>1
      <4> DEFINE e == StringEnd(t, o)
      <4> HIDE DEF e
      <4>3. e \in o + 1 .. Len(t) /\ next[p] = <<e, d>>
        BY <4>1, <4>2 DEF e
      <4>4. e \in Nat /\ o < e /\ e <= Len(t)
        BY <1>1, <2>1, <4>3
      <4> QED BY <2>1, <2>4, <4>3, <4>4
    <3>2. CASE /\ ~ (c \in {"nl", "#", "\\"} \/ (c \in Quote /\ Prefixed(t, o)))
               /\ c \notin Quote
      <4> DEFINE b == CASE c = "{" -> d + 1 [] c = "}" -> d - 1 [] OTHER -> d
      <4>1. next[p] = <<o + 1, b>>
        BY <2>2, <2>6, <3>2
      <4>2. b \in Nat
        <5>1. d + 1 \in Nat /\ d - 1 \in Nat /\ d \in Nat
          BY <2>1, <2>6
        <5> QED BY <5>1, Zenon
      <4>3. o + 1 \in Nat /\ o < o + 1 /\ o + 1 <= Len(t)
        BY <1>1, <2>1, <2>6
      <4> HIDE DEF b
      <4> QED BY <2>4, <4>1, <4>2, <4>3
    <3>3. CASE c \in {"nl", "#", "\\"} \/ (c \in Quote /\ Prefixed(t, o))
      BY <2>2, <2>3, <2>6, <3>3
    <3> QED BY <3>1, <3>2, <3>3
  <2>7. CASE o = Len(t)
    BY <2>2, <2>3, <2>7
  <2> QED BY <2>5, <2>6, <2>7
<1>3. next \in [P -> P]
  <2>1. next = [x \in P |-> next[x]]
    BY <1>1 DEF PassFString, Places
  <2> HIDE DEF next, P
  <2> QED BY <1>1, <1>2, <2>1
<1> HIDE DEF next, P
<1>4. next \in {g \in [P -> P] : \A p \in P : g[p] = p \/ p[1] < g[p][1]}
  BY <1>2, <1>3
<1> QED BY <1>4 DEF PlaceLoop, P, next

\* A step of it changes nothing about whether the f-string ends.
LEMMA EndsNext ==
  ASSUME NEW C, NEW t \in Seq(C), NEW q, NEW o \in 0 .. Len(t), NEW d \in Nat,
         NEW e, NEW b, PassFString(t, q)[<<o, d>>] = <<e, b>>
  PROVE  Ends(t, q, o, d) <=> Ends(t, q, e, b)
<1> DEFINE next == PassFString(t, q)
<1>1. Len(t) \in Nat /\ next \in PlaceLoop(Len(t)) /\ <<o, d>> \in Places(Len(t))
  BY LenProperties, FStringLoop DEF Places
<1> HIDE DEF next
<1>2. Follow(next)[<<o, d>>] = IF next[<<o, d>>] = <<o, d>> THEN <<o, d>>
                               ELSE Follow(next)[next[<<o, d>>]]
  BY <1>1, PlacesFollowed
<1>3. next[<<o, d>>] = <<e, b>>
  BY DEF next
<1>4. Follow(next)[<<o, d>>] = Follow(next)[<<e, b>>]
  <2>1. CASE <<e, b>> = <<o, d>>
    BY <2>1
  <2>2. CASE <<e, b>> # <<o, d>>
    BY <1>2, <1>3, <2>2, Zenon
  <2> QED BY <2>1, <2>2
<1> QED BY <1>4 DEF Ends, next

\* Where it stays, the f-string ends here or is broken.
LEMMA EndsHere ==
  ASSUME NEW C, NEW t \in Seq(C), NEW q, NEW o \in 0 .. Len(t), NEW d \in Nat,
         PassFString(t, q)[<<o, d>>] = <<o, d>>, Ends(t, q, o, d)
  PROVE  o = Len(t) \/ (d = 0 /\ At(t, o) = q)
<1> DEFINE next == PassFString(t, q)
<1>1. Len(t) \in Nat /\ next \in PlaceLoop(Len(t)) /\ <<o, d>> \in Places(Len(t))
  BY LenProperties, FStringLoop DEF Places
<1>2. next[<<o, d>>] = <<o, d>>
  OBVIOUS
<1> HIDE DEF next
<1>3. Follow(next)[<<o, d>>] = <<o, d>>
  BY <1>1, <1>2, PlacesFollowed
<1>4. <<o, d>>[1] = o /\ <<o, d>>[2] = d
  OBVIOUS
<1> QED BY <1>3, <1>4 DEF Ends, next

\* In a hole: a byte that may hide the end is none of it.
LEMMA EndsInHole ==
  ASSUME NEW C, NEW t \in Seq(C), NEW q, NEW o \in 0 .. Len(t), o # Len(t),
         NEW d \in Nat, d # 0, Ends(t, q, o, d)
  PROVE  /\ At(t, o) \notin {"nl", "#", "\\"}
         /\ At(t, o) \in Quote
              => ~ Prefixed(t, o) /\ Ends(t, q, StringEnd(t, o), d)
         /\ At(t, o) = "{" => Ends(t, q, o + 1, d + 1)
         /\ At(t, o) = "}" => Ends(t, q, o + 1, d - 1)
         /\ At(t, o) \notin Quote \cup {"{", "}"} => Ends(t, q, o + 1, d)
<1> DEFINE c == At(t, o)
           next == PassFString(t, q)
           p == <<o, d>>
           stays == c \in {"nl", "#", "\\"} \/ (c \in Quote /\ Prefixed(t, o))
<1>1. next[p] = IF stays THEN p
                ELSE IF c \in Quote THEN <<StringEnd(t, o), d>>
                ELSE <<o + 1, CASE c = "{" -> d + 1
                                [] c = "}" -> d - 1
                                [] OTHER -> d>>
  <2>1. p \in (0 .. Len(t)) \X Nat /\ p[1] = o /\ p[2] = d
    OBVIOUS
  <2> HIDE DEF p
  <2> QED BY <2>1 DEF PassFString
<1> HIDE DEF next, c
<1>2. ~ stays
  <2> SUFFICES ASSUME stays PROVE FALSE
    OBVIOUS
  <2>1. next[p] = p
    BY <1>1
  <2> QED BY <2>1, EndsHere DEF next
<1> HIDE DEF stays
<1>3. c \in Quote => Ends(t, q, StringEnd(t, o), d)
  <2>1. c \in Quote => next[p] = <<StringEnd(t, o), d>>
    BY <1>1, <1>2
  <2> QED BY <2>1, EndsNext DEF next
<1>4. c = "{" => Ends(t, q, o + 1, d + 1)
  <2>1. c = "{" => next[p] = <<o + 1, d + 1>>
    BY <1>1, <1>2 DEF Quote
  <2> QED BY <2>1, EndsNext DEF next
<1>5. c = "}" => Ends(t, q, o + 1, d - 1)
  <2>1. c = "}" => next[p] = <<o + 1, d - 1>>
    BY <1>1, <1>2 DEF Quote
  <2> DEFINE b == d - 1
  <2> HIDE DEF b
  <2>2. c = "}" => next[p] = <<o + 1, b>>
    BY <2>1 DEF b
  <2>3. c = "}" => Ends(t, q, o + 1, b)
    BY <2>2, EndsNext DEF next
  <2> QED BY <2>3 DEF b
<1>6. c \notin Quote \cup {"{", "}"} => Ends(t, q, o + 1, d)
  <2>1. c \notin Quote \cup {"{", "}"} => next[p] = <<o + 1, d>>
    BY <1>1, <1>2
  <2> QED BY <2>1, EndsNext DEF next
<1> QED BY <1>2, <1>3, <1>4, <1>5, <1>6 DEF stays, c

Plain(t, o, e) == \A i \in o .. e - 1 : At(t, i) \notin Quote \cup {"{", "}"}

LEMMA EndsBehind ==
  ASSUME NEW C, NEW t \in Seq(C), NEW q, NEW o \in 0 .. Len(t),
         NEW e \in o .. Len(t), NEW d \in Nat, d # 0,
         Ends(t, q, o, d), Plain(t, o, e)
  PROVE  Ends(t, q, e, d)
<1> DEFINE n == e - o
           S == {k \in 0 .. n : Ends(t, q, o + k, d)}
<1>1. n \in Nat /\ Len(t) \in Nat /\ o + 0 = o /\ o + n = e
  BY LenProperties
<1>2. 0 \in S
  BY <1>1
<1>3. ASSUME NEW k \in 0 .. n - 1, k \in S
      PROVE  k + 1 \in S
  <2>1. /\ o + k \in 0 .. Len(t) /\ o + k # Len(t) /\ o + k \in o .. e - 1
        /\ o + (k + 1) = (o + k) + 1 /\ k + 1 \in 0 .. n
    BY <1>1
  <2>2. Ends(t, q, o + k, d) /\ At(t, o + k) \notin Quote \cup {"{", "}"}
    BY <1>3, <2>1 DEF Plain
  <2>3. Ends(t, q, (o + k) + 1, d)
    BY <2>1, <2>2, EndsInHole
  <2> QED BY <2>1, <2>3
<1>4. n \in S
  <2> HIDE DEF S, n
  <2>1. \A k \in 0 .. n : k \in S
    BY <1>1, <1>2, <1>3, Upwards
  <2> QED BY <1>1, <2>1
<1> QED BY <1>1, <1>4

\* In the text of the f-string.
EndsInText(t, q, o) == Ends(t, q, o, 0)

LEMMA EndsText ==
  ASSUME NEW C, NEW t \in Seq(C), NEW o \in 0 .. Len(t),
         NEW q \in Quote, EndsInText(t, q, o)
  PROVE  /\ At(t, o) # "nl"
         /\ EntersHole(t, o) => Ends(t, q, o + 1, 1)
         /\ \A f \in FString :
              ~ f.triple /\ f.quote = q => EndsInText(t, q, PassLiteral(t, f)[o])
<1> DEFINE c == At(t, o)
           next == PassFString(t, q)
           p == <<o, 0>>
           e == IF c = "\\" THEN Least(o + 2, Len(t)) ELSE o + 1
<1>1. q \in Quote /\ q # "nl" /\ q # "end" /\ q # "{"
  BY QuoteIsByte, Zenon DEF Quote
<1>0. Len(t) \in Nat /\ o \in Nat
  BY LenProperties
<1>2. next[p] = IF o = Len(t) THEN p
                ELSE IF Doubled(t, o) THEN <<o + 2, 0>>
                ELSE IF c \in {q, "nl"} THEN p
                ELSE IF c = "{" THEN <<o + 1, 1>>
                ELSE <<e, 0>>
  <2>1. p \in (0 .. Len(t)) \X Nat /\ p[1] = o /\ p[2] = 0
    OBVIOUS
  <2> HIDE DEF p
  <2> QED BY <2>1 DEF PassFString
<1>3. ASSUME NEW f \in FString, ~ f.triple, f.quote = q
      PROVE  PassLiteral(t, f)[o] =
                             IF o = Len(t) THEN o
                             ELSE IF Doubled(t, o) THEN o + 2
                             ELSE IF c \in {q, "nl"} \/ c = "{" THEN o
                             ELSE e
  BY <1>3 DEF PassLiteral, StopsLiteral, Closes
<1> HIDE DEF next, e
<1>4. c # "nl"
  <2> SUFFICES ASSUME c = "nl" PROVE FALSE
    OBVIOUS
  <2>1. o # Len(t)
    <3>1. At(t, o) # "end"
      OBVIOUS
    <3>2. o < Len(t)
      BY <1>0, <3>1, AtInside
    <3> QED BY <1>0, <3>2
  <2>2. ~ Doubled(t, o)
    BY DEF Doubled
  <2>3. next[p] = p
    BY <1>2, <2>1, <2>2
  <2>4. c = q
    BY <1>1, <2>1, <2>3, EndsHere DEF next, EndsInText
  <2> QED BY <1>1, <2>4
<1>5. EntersHole(t, o) => Ends(t, q, o + 1, 1)
  <2> SUFFICES ASSUME EntersHole(t, o) PROVE Ends(t, q, o + 1, 1)
    OBVIOUS
  <2>1. c = "{" /\ ~ Doubled(t, o)
    BY DEF EntersHole
  <2>2. o # Len(t)
    <3>1. At(t, o) # "end"
      BY <2>1
    <3>2. o < Len(t)
      BY <1>0, <3>1, AtInside
    <3> QED BY <1>0, <3>2
  <2>3. next[p] = <<o + 1, 1>>
    <3>1. c \notin {q, "nl"}
      BY <1>1, <2>1
    <3> QED BY <1>2, <2>1, <2>2, <3>1
  <2> QED BY <1>1, <2>3, EndsNext DEF next, EndsInText
<1>6. ASSUME NEW f \in FString, ~ f.triple, f.quote = q
      PROVE  EndsInText(t, q, PassLiteral(t, f)[o])
  <2> DEFINE x == PassLiteral(t, f)[o]
  <2>0. x = IF o = Len(t) THEN o
            ELSE IF Doubled(t, o) THEN o + 2
            ELSE IF c \in {q, "nl"} \/ c = "{" THEN o
            ELSE e
    BY <1>3, <1>6
  <2> HIDE DEF x, c
  <2>1. CASE o = Len(t) \/ (~ Doubled(t, o) /\ (c \in {q, "nl"} \/ c = "{"))
    BY <2>0, <2>1 DEF x
  <2>2. CASE o # Len(t) /\ Doubled(t, o)
    <3> DEFINE z == o + 2
    <3>1. next[p] = <<z, 0>> /\ x = z
      BY <1>2, <2>0, <2>2
    <3> HIDE DEF z
    <3>2. EndsInText(t, q, z)
      BY <3>1, EndsNext DEF next, EndsInText
    <3> QED BY <3>1, <3>2 DEF x
  <2>3. CASE o # Len(t) /\ ~ Doubled(t, o) /\ ~ (c \in {q, "nl"} \/ c = "{")
    <3>1. next[p] = <<e, 0>> /\ x = e
      BY <1>2, <2>0, <2>3
    <3>2. EndsInText(t, q, e)
      BY <1>1, <3>1, EndsNext DEF next, EndsInText
    <3> QED BY <3>1, <3>2 DEF x
  <2> QED BY <2>1, <2>2, <2>3 DEF x
<1> QED BY <1>4, <1>5, <1>6

LEMMA EndsBehindText ==
  ASSUME NEW C, NEW t \in Seq(C), NEW f \in FString, ~ f.triple,
         NEW o \in 0 .. Len(t), EndsInText(t, f.quote, o)
  PROVE  EndsInText(t, f.quote, ScanFStringLiteral(t, f)[o])
<1> DEFINE next == PassLiteral(t, f)
           T == {x \in 0 .. Len(t) : EndsInText(t, f.quote, x)}
<1>1. Len(t) \in Nat /\ next \in Loop(Len(t))
  BY LenProperties, LiteralLoop
<1>2. ASSUME NEW x \in T PROVE next[x] \in T
  <2>1. x \in 0 .. Len(t) /\ next[x] \in 0 .. Len(t) /\ f.quote \in Quote
    BY <1>1 DEF Loop, FString
  <2>2. EndsInText(t, f.quote, PassLiteral(t, f)[x])
    BY <2>1, EndsText
  <2> QED BY <2>1, <2>2
<1>3. o \in T /\ T \in SUBSET (0 .. Len(t))
  OBVIOUS
<1>4. Follow(next)[o] \in T
  <2> HIDE DEF next, T
  <2> QED BY <1>1, <1>2, <1>3, FollowKeeps
<1> QED BY <1>4 DEF ScanFStringLiteral

LEMMA UptoFields ==
  ASSUME NEW u \in LexerState, NEW k, NEW e
  PROVE  Upto(u, k, e).lexer.fstrings = u.fstrings /\ Upto(u, k, e).lexer.pos = e
BY DEF Upto, LexerState

\* Numbers and operators hold no quotes and no braces.
LEMMA NumberPlain ==
  ASSUME NEW C, NEW t \in Seq(C), NEW s \in LexerState, s.pos < Len(t),
         At(t, s.pos) \in Digit \cup {"."}
  PROVE  Plain(t, s.pos, ScanNumber(t, s).lexer.pos)
<1> DEFINE int   == Pass(t, s.pos + 1, Digit)
           point == At(t, int) = "." /\ At(t, int + 1) \in Digit
           frac  == IF point THEN Pass(t, int + 1, Digit) ELSE int
           sign  == IF At(t, frac + 1) \in {"+", "-"} THEN 2 ELSE 1
           exp   == At(t, frac) = "e"
           end   == IF exp THEN Pass(t, frac + sign, Digit) ELSE frac
           kind  == IF point \/ exp THEN "float" ELSE "int"
           G     == Digit \cup {".", "e", "+", "-"}
           p     == s.pos
<1>1. Len(t) \in Nat /\ p \in Nat /\ p + 1 \in 0 .. Len(t)
  BY LenProperties DEF LexerState
<1>2. /\ int \in p + 1 .. Len(t)
      /\ \A i \in p + 1 .. int - 1 : At(t, i) \in Digit
  BY <1>1, PassEnds
<1>3. ScanNumber(t, s).lexer.pos = end
  <2>1. ScanNumber(t, s) = Upto(s, kind, end)
    BY DEF ScanNumber
  <2> HIDE DEF kind, end
  <2> QED BY <2>1, UptoFields
<1> HIDE DEF int, kind, p
<1>4. /\ frac \in int .. Len(t)
      /\ \A i \in int .. frac - 1 : At(t, i) \in G
  <2>1. CASE point
    <3>1. At(t, int + 1) # "end" /\ int + 1 \in Nat
      BY <1>1, <1>2, <2>1 DEF Digit
    <3>2. int + 1 \in 0 .. Len(t)
      BY <1>1, <3>1, AtInside
    <3> DEFINE x == Pass(t, int + 1, Digit)
    <3>3. x \in int + 1 .. Len(t) /\ \A i \in int + 1 .. x - 1 : At(t, i) \in Digit
      BY <3>2, PassEnds
    <3>4. frac = x /\ At(t, int) = "."
      BY <2>1
    <3> HIDE DEF point, x, frac
    <3>5. \A i \in int .. x - 1 : i = int \/ i \in int + 1 .. x - 1
      BY <1>1, <1>2, <3>3
    <3>6. frac \in int .. Len(t)
      BY <1>1, <1>2, <3>3, <3>4
    <3> QED BY <3>3, <3>4, <3>5, <3>6
  <2>2. CASE ~ point
    <3>1. frac = int
      BY <2>2
    <3> HIDE DEF point, frac
    <3> QED BY <1>1, <1>2, <3>1
  <2> QED BY <2>1, <2>2
<1> HIDE DEF point, frac
<1>5. /\ end \in frac .. Len(t)
      /\ \A i \in frac .. end - 1 : At(t, i) \in G
  <2>1. CASE exp
    <3>0. frac \in Nat /\ frac + 1 \in Nat
      BY <1>1, <1>2, <1>4
    <3>1. frac < Len(t)
      BY <2>1, <3>0, AtInside
    <3>2. sign \in {1, 2} /\ (sign = 2 => At(t, frac + 1) # "end")
      OBVIOUS
    <3>3. sign = 2 => At(t, frac + 1) \in G
      OBVIOUS
    <3> HIDE DEF sign
    <3>4. sign = 2 => frac + 1 < Len(t)
      BY <3>0, <3>2, AtInside
    <3>5. frac + sign \in 0 .. Len(t)
      BY <1>1, <3>0, <3>1, <3>2, <3>4
    <3> DEFINE x == Pass(t, frac + sign, Digit)
    <3>6. /\ x \in frac + sign .. Len(t)
          /\ \A i \in frac + sign .. x - 1 : At(t, i) \in Digit
      BY <3>5, PassEnds
    <3>7. end = x /\ At(t, frac) = "e"
      BY <2>1
    <3> HIDE DEF exp, x, end
    <3>8. ASSUME NEW i \in frac .. x - 1 PROVE At(t, i) \in G
      <4>1. i = frac \/ (sign = 2 /\ i = frac + 1) \/ i \in frac + sign .. x - 1
        BY <1>1, <3>0, <3>2, <3>6
      <4> QED BY <3>3, <3>6, <3>7, <4>1
    <3>9. x \in frac .. Len(t)
      BY <1>1, <3>0, <3>2, <3>6
    <3> QED BY <3>7, <3>8, <3>9
  <2>2. CASE ~ exp
    <3>1. end = frac
      BY <2>2
    <3> HIDE DEF exp, end
    <3> QED BY <1>1, <1>2, <1>4, <3>1
  <2> QED BY <2>1, <2>2
<1> HIDE DEF end
<1>6. ASSUME NEW i \in p .. end - 1 PROVE At(t, i) \in G
  <2>1. \/ i = p \/ i \in p + 1 .. int - 1 \/ i \in int .. frac - 1
        \/ i \in frac .. end - 1
    BY <1>1, <1>2, <1>4, <1>5
  <2> QED BY <1>2, <1>4, <1>5, <2>1 DEF p
<1>7. G \cap (Quote \cup {"{", "}"}) = {}
  BY Zenon DEF Quote, Digit
<1> HIDE DEF G
<1> QED BY <1>3, <1>6, <1>7 DEF Plain, p

LEMMA OperatorPlain ==
  ASSUME NEW C, NEW t \in Seq(C), NEW s \in LexerState, s.pos < Len(t),
         At(t, s.pos) \notin Quote \cup Opener \cup Closer
  PROVE  Plain(t, s.pos, ScanOperator(t, s).lexer.pos)
<1> DEFINE c    == At(t, s.pos)
           long == {w \in TwoBytes : w[1] = c /\ w[2] = At(t, s.pos + 1)}
           kind == (CHOOSE w \in long : TRUE)[3]
           one  == IF c \in OneByte THEN c ELSE "error"
           B    == Quote \cup {"{", "}"}
           n    == ScanOperator(t, s)
           p    == s.pos
<1>1. p \in Nat
  BY DEF LexerState
<1>2. c \notin B
  BY DEF Opener, Closer
<1>3. \A w \in TwoBytes : w[2] \notin B
  <2>1. \A w \in TwoBytes : w[2] \in {"=", ">", "*", "/", "<"}
    BY DEF TwoBytes
  <2>2. \A c2 \in {"=", ">", "*", "/", "<"} : c2 \notin B
    BY Zenon DEF Quote
  <2> QED BY <2>1, <2>2, Zenon
<1>4. "." \notin B
  BY Zenon DEF Quote
<1>5. n = IF long # {} THEN Upto(s, kind, s.pos + 2)
          ELSE IF Thrice(t, s.pos, ".") THEN Upto(s, "...", s.pos + 3)
          ELSE Upto(s, one, s.pos + 1)
  BY DEF ScanOperator
<1>6. \A k, e : Upto(s, k, e).lexer.pos = e
  BY UptoFields
<1> HIDE DEF n, kind, one, B
<1>7. CASE long # {}
  <2>1. n.lexer.pos = p + 2
    BY <1>5, <1>6, <1>7
  <2>2. At(t, p + 1) \notin B
    BY <1>3, <1>7
  <2> HIDE DEF long, p
  <2>3. \A i \in p .. (p + 2) - 1 : i = p \/ i = p + 1
    BY <1>1
  <2> QED BY <1>2, <2>1, <2>2, <2>3 DEF Plain, B, n, p
<1>8. CASE long = {} /\ Thrice(t, s.pos, ".")
  <2>1. n.lexer.pos = p + 3
    BY <1>5, <1>6, <1>8
  <2> HIDE DEF long
  <2>2. \A i \in p .. p + 2 : At(t, i) = "."
    BY <1>8 DEF Thrice
  <2>3. (p + 3) - 1 = p + 2
    BY <1>1
  <2>4. \A i \in p .. (p + 3) - 1 : At(t, i) \notin B
    BY <1>4, <2>2, <2>3
  <2> HIDE DEF p
  <2> QED BY <2>1, <2>4 DEF Plain, B, n, p
<1>9. CASE long = {} /\ ~ Thrice(t, s.pos, ".")
  <2>1. n.lexer.pos = p + 1
    BY <1>5, <1>6, <1>9
  <2> HIDE DEF long, p
  <2>2. \A i \in p .. (p + 1) - 1 : i = p
    BY <1>1
  <2> QED BY <1>2, <2>1, <2>2 DEF Plain, B, n, p
<1> QED BY <1>7, <1>8, <1>9
-------------------------------------------------------------------------------
(***************************************************************************)
(* Every text is read to its end.  What a call does with the f-strings     *)
(* that are open, and how far it gets:                                     *)
(***************************************************************************)
\* The f-string with its opening quote behind i.
FStringAt(t, i) ==
  [quote |-> At(t, i), triple |-> Thrice(t, i, At(t, i)), braces |-> 0]

AtBrace(t, o) == At(t, o) = "{"

\* The braces counted change at a brace, or in a hole.
Rebraced(t, o, f, g) ==
  /\ Len(g) = Len(f)
  /\ \A n \in DOMAIN f :
       /\ g[n].quote = f[n].quote /\ g[n].triple = f[n].triple
       /\ g[n].braces = f[n].braces \/ f[n].braces # 0 \/ AtBrace(t, o)

\* n is what a call returned that began at a byte of s outside f-strings, or
\* in a hole of one.
Goes(t, s, n) ==
  /\ s.pos < n.lexer.pos
  /\ \/ Rebraced(t, s.pos, s.fstrings, n.lexer.fstrings)
     \/ \E i \in s.pos + 1 .. n.lexer.pos - 1 :
          /\ At(t, i) \in Quote /\ Prefixed(t, i)
          /\ n.lexer.fstrings = Append(s.fstrings, FStringAt(t, i))
          /\ FStringAt(t, i).triple \/ n.lexer.pos = i + 1

LEMMA OnlyGoes ==
  ASSUME NEW t, NEW s \in LexerState, NEW n, s.pos < n.lexer.pos,
         n.lexer.fstrings = s.fstrings
  PROVE  Goes(t, s, n)
BY DEF Goes, Rebraced

\* One brace counted more, or less.
LEMMA BracesSet ==
  ASSUME NEW t, NEW o, NEW f \in Seq(FString), f # <<>>, NEW b \in Nat,
         Last(f).braces # 0 \/ AtBrace(t, o)
  PROVE  LET g == [f EXCEPT ![Len(f)].braces = b]
         IN  g \in Seq(FString) /\ Rebraced(t, o, f, g)
<1> DEFINE m == Len(f)
           h == [f[m] EXCEPT !.braces = b]
           g == [f EXCEPT ![m] = h]
<1>1. m \in DOMAIN f /\ Last(f) = f[m] /\ f[m] \in FString
  BY LastAndFront
<1>2. /\ h \in FString /\ h.quote = f[m].quote /\ h.triple = f[m].triple
  BY <1>1 DEF FString
<1> HIDE DEF h
<1>3. /\ g \in Seq(FString) /\ Len(g) = Len(f) /\ g[m] = h
      /\ \A n \in DOMAIN f : n # m => g[n] = f[n]
  <2> HIDE DEF m
  <2>1. g \in Seq(FString) /\ Len(g) = Len(f)
    BY <1>1, <1>2, ExceptSeq
  <2> QED BY <1>1, <2>1
<1>4. g = [f EXCEPT ![Len(f)].braces = b]
  BY DEF h
<1> HIDE DEF g, m
<1>5. Rebraced(t, o, f, g)
  BY <1>1, <1>2, <1>3 DEF Rebraced
<1> QED BY <1>3, <1>4, <1>5

LEMMA BracketGoes ==
  ASSUME NEW C, NEW t \in Seq(C), NEW s \in LexerState, s.pos < Len(t),
         At(t, s.pos) \in Opener \cup Closer
  PROVE  LET n == ScanBracket(t, s)
             c == At(t, s.pos)
         IN  /\ Goes(t, s, n) /\ n.lexer.pos = s.pos + 1
             /\ n.lexer.fstrings = IF c = "{" THEN EnterBrace(s).fstrings
                                   ELSE IF c = "}" THEN LeaveBrace(s).fstrings
                                   ELSE s.fstrings
<1> DEFINE c == At(t, s.pos)
           f == s.fstrings
           o == IF c = "{" THEN EnterBrace(s) ELSE s
           l == IF c = "}" THEN LeaveBrace(s) ELSE s
           r == IF c \in Opener THEN [o EXCEPT !.depth = @ + 1]
                ELSE DecrementBracketDepth(l)
           n == ScanBracket(t, s)
<1>1. f \in Seq(FString) /\ s.pos \in Nat /\ Rebraced(t, s.pos, f, f)
  BY DEF LexerState, Rebraced
<1>2. n = Upto(r, c, s.pos + 1)
  BY DEF ScanBracket
<1>3. f # <<>> => Last(f) = f[Len(f)] /\ Last(f).braces \in Nat
  <2> HIDE DEF f
  <2>1. f # <<>> => Last(f) = f[Len(f)] /\ Last(f) \in FString
    BY <1>1, LastAndFront
  <2>2. \A x \in FString : x.braces \in Nat
    BY DEF FString
  <2> QED BY <2>1, <2>2
<1>4. AtBrace(t, s.pos) => Rebraced(t, s.pos, f, EnterBrace(s).fstrings)
  <2> SUFFICES ASSUME AtBrace(t, s.pos)
               PROVE  Rebraced(t, s.pos, f, EnterBrace(s).fstrings)
    OBVIOUS
  <2>1. CASE f # <<>>
    <3> DEFINE b == f[Len(f)].braces + 1
    <3>1. EnterBrace(s).fstrings = [f EXCEPT ![Len(f)].braces = b]
      BY <2>1 DEF EnterBrace, LexerState
    <3>2. b \in Nat
      BY <1>3, <2>1
    <3> HIDE DEF b, f
    <3>3. Rebraced(t, s.pos, f, [f EXCEPT ![Len(f)].braces = b])
      BY <1>1, <2>1, <3>2, BracesSet
    <3> QED BY <3>1, <3>3
  <2>2. CASE f = <<>>
    BY <1>1, <2>2 DEF EnterBrace
  <2> QED BY <2>1, <2>2
<1>5. Rebraced(t, s.pos, f, LeaveBrace(s).fstrings)
  <2>1. CASE f # <<>> /\ Last(f).braces > 0
    <3> DEFINE b == f[Len(f)].braces - 1
    <3>1. LeaveBrace(s).fstrings = [f EXCEPT ![Len(f)].braces = b]
      BY <2>1 DEF LeaveBrace, LexerState
    <3>2. b \in Nat /\ Last(f).braces # 0
      BY <1>3, <2>1
    <3> HIDE DEF b, f
    <3>3. Rebraced(t, s.pos, f, [f EXCEPT ![Len(f)].braces = b])
      BY <1>1, <2>1, <3>2, BracesSet
    <3> QED BY <3>1, <3>3
  <2>2. CASE ~ (f # <<>> /\ Last(f).braces > 0)
    BY <1>1, <2>2 DEF LeaveBrace
  <2> QED BY <2>1, <2>2
<1>6. Rebraced(t, s.pos, f, o.fstrings) /\ Rebraced(t, s.pos, f, l.fstrings)
  BY <1>1, <1>4, <1>5 DEF AtBrace
<1>7. r.fstrings = IF c \in Opener THEN o.fstrings ELSE l.fstrings
  <2>1. \E g \in Seq(FString) : o = [s EXCEPT !.fstrings = g]
    BY BraceEntered DEF LexerState
  <2>2. \E g \in Seq(FString) : l = [s EXCEPT !.fstrings = g]
    BY BraceLeft DEF LexerState
  <2> HIDE DEF o, l, c
  <2> QED BY <2>1, <2>2 DEF DecrementBracketDepth, LexerState
<1> HIDE DEF o, l, c
<1>8. n.lexer.fstrings = r.fstrings /\ n.lexer.pos = s.pos + 1
  <2>1. r = [s EXCEPT !.fstrings = r.fstrings, !.depth = r.depth]
    <3>1. \E g \in Seq(FString) : o = [s EXCEPT !.fstrings = g]
      BY BraceEntered DEF LexerState, o
    <3>2. \E g \in Seq(FString) : l = [s EXCEPT !.fstrings = g]
      BY BraceLeft DEF LexerState, l
    <3> QED BY <3>1, <3>2 DEF DecrementBracketDepth, LexerState
  <2>2. r \in [pos : {s.pos}, indents : {s.indents}, pending : {s.pending},
                fresh : {s.fresh}, done : {s.done}, depth : {r.depth},
                fstrings : {r.fstrings}]
    <3> HIDE DEF r
    <3> QED BY <2>1 DEF LexerState
  <2> HIDE DEF r, n
  <2>3. n.lexer = [r EXCEPT !.pos = s.pos + 1]
    BY <1>2 DEF Upto
  <2> QED BY <2>2, <2>3
<1>9. r.fstrings = IF c = "{" THEN EnterBrace(s).fstrings
                   ELSE IF c = "}" THEN LeaveBrace(s).fstrings ELSE s.fstrings
  <2>1. "{" \in Opener /\ "}" \notin Opener
    BY DEF Opener
  <2> QED BY <1>7, <2>1 DEF o, l
<1> HIDE DEF n, r
<1>10. Goes(t, s, n)
  BY <1>1, <1>6, <1>7, <1>8 DEF Goes
<1> QED BY <1>8, <1>9, <1>10 DEF n, c

\* A name ends at e; a prefix of an f-string opens one there, and one of a
\* string goes on to its end.
IdentifierAt(t, s, n, e) ==
  /\ Plain(t, s.pos, e)
  /\ \/ /\ At(t, e) \in Quote /\ Prefixed(t, e)
        /\ n.lexer.fstrings = Append(s.fstrings, FStringAt(t, e))
        /\ n.lexer.pos = IF FStringAt(t, e).triple THEN e + 3 ELSE e + 1
     \/ /\ At(t, e) \in Quote /\ n.lexer.fstrings = s.fstrings
        /\ n.lexer.pos = StringEnd(t, e)
     \/ n.lexer.fstrings = s.fstrings /\ n.lexer.pos = e

LEMMA IdentifierIs ==
  ASSUME NEW C, NEW t \in Seq(C), NEW s \in LexerState, s.pos < Len(t),
         InName(At(t, s.pos))
  PROVE  \E e \in s.pos + 1 .. Len(t) :
           IdentifierAt(t, s, ScanIdentifier(t, s), e)
<1> DEFINE e    == Pass(t, s.pos, Range(t) \ Punctuation)
           word == SubSeq(t, s.pos + 1, e)
           kind == IF Len(word) = 1 /\ word[1] \in Keyword THEN word[1] ELSE "name"
           n    == ScanIdentifier(t, s)
<1>1. Len(t) \in Nat /\ s.pos \in 0 .. Len(t) /\ DOMAIN t = 1 .. Len(t)
  BY LenProperties DEF LexerState
<1>2. e \in s.pos + 1 .. Len(t)
  <2>1. e \in s.pos .. Len(t) /\ (e = Len(t) \/ At(t, e) \notin Range(t) \ Punctuation)
    BY <1>1, PassEnds
  <2>2. At(t, s.pos) \in Range(t) \ Punctuation
    BY <1>1 DEF InName, At, Range
  <2> HIDE DEF e
  <2>3. e # s.pos
    <3>1. s.pos # Len(t)
      BY <1>1
    <3> QED BY <2>1, <2>2, <3>1, Zenon
  <2> DEFINE p == s.pos
  <2>4. p \in Nat /\ Len(t) \in Nat
    BY LenProperties DEF LexerState
  <2>6. e \in p .. Len(t) /\ e # p
    BY <2>1, <2>3, Zenon
  <2> HIDE DEF p
  <2>5. e \in p + 1 .. Len(t)
    BY <2>4, <2>6
  <2> QED BY <2>5 DEF p
<1>0. Plain(t, s.pos, e)
  <2>1. \A i \in s.pos .. e - 1 : At(t, i) \in Range(t) \ Punctuation
    BY <1>1, PassEnds
  <2>2. Quote \cup {"{", "}"} \subseteq Punctuation
    BY Zenon DEF Punctuation, Opener, Closer
  <2> HIDE DEF e
  <2> QED BY <2>1, <2>2 DEF Plain
<1>3. Len(word) = e - s.pos /\ \A i \in 1 .. e - s.pos : word[i] = t[s.pos + i]
  <2> HIDE DEF e
  <2> DEFINE p == s.pos
             m == p + 1
             w == SubSeq(t, m, e)
  <2>1. p \in Nat /\ m \in Int /\ e \in Int /\ m <= e /\ m >= 1
    BY <1>1, <1>2
  <2>2. \A i \in m .. e : t[i] \in C
    BY <1>1, <1>2
  <2>3. word = w
    OBVIOUS
  <2> HIDE DEF p, w, word
  <2>4. Len(w) = e - m + 1 /\ \A i \in 1 .. e - m + 1 : w[i] = t[m + i - 1]
    BY <2>1, <2>2, SubSeqProperties DEF w
  <2>5. e - m + 1 = e - p /\ \A i \in 1 .. e - p : m + i - 1 = p + i
    BY <2>1
  <2> QED BY <2>3, <2>4, <2>5 DEF p
<1> HIDE DEF e, word, kind
<1>4. CASE At(t, e) \in Quote /\ word \in FPrefixes
  <2> DEFINE triple == Thrice(t, e, At(t, e))
             g == Append(s.fstrings, FStringAt(t, e))
  <2>1. n = EnterFString(t, s, e + 1)
    BY <1>4 DEF ScanIdentifier, e, word
  <2>2. (e + 1) - 1 = e /\ (e + 1) + 2 = e + 3
    BY <1>1, <1>2
  <2>3. EnterFString(t, s, e + 1)
          = Upto([s EXCEPT !.fstrings = g], "fstart",
                 IF triple THEN e + 3 ELSE e + 1)
    BY <2>2 DEF EnterFString, FStringAt
  <2> DEFINE a == IF triple THEN e + 3 ELSE e + 1
  <2> HIDE DEF n, g, triple, a
  <2>8. n.lexer = [[s EXCEPT !.fstrings = g] EXCEPT !.pos = a]
    BY <2>1, <2>3 DEF Upto, a
  <2>4. n.lexer.fstrings = g /\ n.lexer.pos = IF triple THEN e + 3 ELSE e + 1
    BY <2>8 DEF LexerState, a
  <2>5. Prefixed(t, e)
    <3>1. CASE word = <<"f">>
      <4>1. e = s.pos + 1 /\ t[e] = "f"
        <5>1. Len(word) = 1 /\ word[1] = "f"
          BY <3>1
        <5> QED BY <1>1, <1>2, <1>3, <5>1
      <4> QED BY <4>1 DEF Prefixed
    <3>2. CASE word = <<"f", "r">>
      <4>1. e = s.pos + 2 /\ t[e] = "r" /\ t[e - 1] = "f"
        <5>1. Len(word) = 2 /\ word[1] = "f" /\ word[2] = "r"
          BY <3>2
        <5>2. e = s.pos + 2
          <6>1. e - s.pos = 2
            BY <1>3, <5>1
          <6> DEFINE p == s.pos
          <6>2. p \in Nat /\ e \in Nat /\ e - p = 2
            BY <1>1, <1>2, <6>1
          <6> HIDE DEF p
          <6>3. e = p + 2
            BY <6>2
          <6> QED BY <6>3 DEF p
        <5>3. word[1] = t[s.pos + 1] /\ word[2] = t[s.pos + 2]
          BY <1>1, <1>3, <5>2
        <5>4. e - 1 = s.pos + 1
          BY <1>1, <5>2
        <5> QED BY <5>1, <5>2, <5>3, <5>4
      <4> QED BY <1>1, <4>1 DEF Prefixed
    <3>3. CASE word = <<"r", "f">>
      <4>1. e = s.pos + 2 /\ t[e] = "f"
        <5>1. Len(word) = 2 /\ word[2] = "f"
          BY <3>3
        <5>2. e = s.pos + 2
          <6>1. e - s.pos = 2
            BY <1>3, <5>1
          <6> DEFINE p == s.pos
          <6>2. p \in Nat /\ e \in Nat /\ e - p = 2
            BY <1>1, <1>2, <6>1
          <6> HIDE DEF p
          <6>3. e = p + 2
            BY <6>2
          <6> QED BY <6>3 DEF p
        <5>3. word[2] = t[s.pos + 2]
          BY <1>1, <1>3, <5>2
        <5> QED BY <5>1, <5>2, <5>3
      <4> QED BY <4>1 DEF Prefixed
    <3> QED BY <1>4, <3>1, <3>2, <3>3 DEF FPrefixes
  <2>6. FStringAt(t, e).triple = triple
    BY DEF FStringAt, triple
  <2>7. IdentifierAt(t, s, n, e)
    <3>1. /\ n.lexer.fstrings = Append(s.fstrings, FStringAt(t, e))
          /\ n.lexer.pos = IF FStringAt(t, e).triple THEN e + 3 ELSE e + 1
      BY <2>4, <2>6 DEF g
    <3> QED BY <1>0, <1>4, <2>5, <3>1 DEF IdentifierAt
  <2> QED BY <1>2, <2>7 DEF n
<1>5. CASE /\ ~ (At(t, e) \in Quote /\ word \in FPrefixes)
           /\ At(t, e) \in Quote /\ word \in StringPrefixes
  <2>1. n = ReadString(t, s, e + 1)
    BY <1>5 DEF ScanIdentifier, e, word, FPrefixes, StringPrefixes
  <2>2. (e + 1) - 1 = e /\ (e + 1) + 2 = e + 3 /\ e + 1 \in Nat
    BY <1>1, <1>2
  <2>3. \E k : n = Upto(s, k, StringEnd(t, e))
    BY <2>1, <2>2 DEF ReadString, StringEnd
  <2> HIDE DEF n
  <2>4. n.lexer.pos = StringEnd(t, e) /\ n.lexer.fstrings = s.fstrings
    BY <2>3, UptoFields
  <2>5. IdentifierAt(t, s, n, e)
    BY <1>0, <1>5, <2>4 DEF IdentifierAt
  <2> QED BY <1>2, <2>5 DEF n
<1>6. CASE /\ ~ (At(t, e) \in Quote /\ word \in FPrefixes)
           /\ ~ (At(t, e) \in Quote /\ word \in StringPrefixes)
  <2>1. n = Upto(s, kind, e)
    BY <1>6 DEF ScanIdentifier, e, word, kind
  <2>2. n.lexer.pos = e /\ n.lexer.fstrings = s.fstrings
    BY <2>1 DEF Upto, LexerState
  <2> HIDE DEF n
  <2>3. IdentifierAt(t, s, n, e)
    BY <1>0, <2>2 DEF IdentifierAt
  <2> QED BY <1>2, <2>3 DEF n
<1> QED BY <1>4, <1>5, <1>6

LEMMA IdentifierGoes ==
  ASSUME NEW C, NEW t \in Seq(C), NEW s \in LexerState, s.pos < Len(t),
         InName(At(t, s.pos))
  PROVE  Goes(t, s, ScanIdentifier(t, s))
<1> DEFINE n == ScanIdentifier(t, s)
           p == s.pos
<1>1. PICK e \in p + 1 .. Len(t) : IdentifierAt(t, s, n, e)
  BY IdentifierIs
<1>2. Len(t) \in Nat /\ p \in Nat /\ e \in Nat /\ p < e
  <2>1. Len(t) \in Nat /\ p \in Nat
    BY LenProperties DEF LexerState
  <2> HIDE DEF p
  <2> QED BY <1>1, <2>1
<1> HIDE DEF n
<1>3. CASE /\ At(t, e) \in Quote /\ Prefixed(t, e)
           /\ n.lexer.fstrings = Append(s.fstrings, FStringAt(t, e))
           /\ n.lexer.pos = IF FStringAt(t, e).triple THEN e + 3 ELSE e + 1
  <2>1. FStringAt(t, e).triple \/ n.lexer.pos = e + 1
    BY <1>3
  <2>2. n.lexer.pos \in {e + 3, e + 1}
    BY <1>3
  <2> HIDE DEF p
  <2>3. p < n.lexer.pos /\ e \in p + 1 .. n.lexer.pos - 1
    BY <1>2, <2>2
  <2> QED BY <1>3, <2>1, <2>3 DEF Goes, n, p
<1>4. CASE At(t, e) \in Quote /\ n.lexer.fstrings = s.fstrings
           /\ n.lexer.pos = StringEnd(t, e)
  <2>1. StringEnd(t, e) \in e + 1 .. Len(t)
    BY <1>2, <1>4, StringEndIs
  <2>2. s.pos < n.lexer.pos
    BY <1>2, <1>4, <2>1
  <2> QED BY <1>4, <2>2, OnlyGoes DEF n
<1>5. CASE n.lexer.fstrings = s.fstrings /\ n.lexer.pos = e
  BY <1>2, <1>5, OnlyGoes DEF n
<1> QED BY <1>1, <1>3, <1>4, <1>5 DEF IdentifierAt, n

LEMMA NextGoes ==
  ASSUME NEW C, NEW t \in Seq(C), NEW s \in LexerState, s.pos < Len(t)
  PROVE  Goes(t, s, ReadNext(t, s))
<1> DEFINE c == At(t, s.pos)
           n == ReadNext(t, s)
<1>1. Len(t) \in Nat /\ s.pos \in Nat /\ s.pos + 1 \in Nat \ {0}
  BY LenProperties DEF LexerState
<1>2. CASE c = "#"
  <2> DEFINE e == CommentEnd(t, s.pos)
  <2>1. n = Upto(s, "comment", e)
    BY <1>1, <1>2 DEF ReadNext
  <2>2. e \in s.pos + 1 .. Len(t)
    <3>1. /\ e \in s.pos .. Len(t)
          /\ e = Len(t) \/ At(t, e) \notin Range(t) \ {"nl"}
      BY <1>1, PassEnds DEF CommentEnd
    <3>2. c \in Range(t) \ {"nl"}
      BY <1>1, <1>2, AtInside
    <3> HIDE DEF e
    <3> QED BY <1>1, <3>1, <3>2
  <2> HIDE DEF e
  <2>3. n.lexer.pos = e /\ n.lexer.fstrings = s.fstrings
    BY <2>1 DEF Upto, LexerState
  <2> HIDE DEF n
  <2>4. s.pos < n.lexer.pos
    BY <1>1, <2>2, <2>3
  <2> QED BY <2>3, <2>4, OnlyGoes DEF n
<1>3. CASE c \in Opener \cup Closer
  <2>1. ReadNext(t, s) = ScanBracket(t, s)
    <3>1. c # "#"
      BY <1>3 DEF Opener, Closer
    <3> QED BY <1>1, <1>3, <3>1 DEF ReadNext
  <2> QED BY <1>3, <2>1, BracketGoes
<1>4. CASE c = "nl"
  <2> DEFINE r == [s EXCEPT !.fresh = TRUE]
  <2>1. n = Upto(r, "newline", s.pos + 1)
    BY <1>1, <1>4 DEF ReadNext, Opener, Closer
  <2> HIDE DEF n
  <2>2. n.lexer.pos = s.pos + 1 /\ n.lexer.fstrings = s.fstrings
    BY <2>1 DEF Upto, LexerState
  <2>3. s.pos < n.lexer.pos
    BY <1>1, <2>2
  <2> QED BY <2>2, <2>3, OnlyGoes DEF n
<1>5. CASE c \in Quote
  <2>1. n = ReadString(t, s, s.pos + 1)
    <3>1. c # "#" /\ c # "nl" /\ c \notin Opener \cup Closer
      BY <1>5 DEF Quote, Opener, Closer
    <3> QED BY <1>1, <1>5, <3>1 DEF ReadNext
  <2>2. s.pos < s.pos + 1 /\ (s.pos + 1) - 1 = s.pos
    BY <1>1
  <2>3. TookOnly(t, s, n)
    BY <1>1, <1>5, <2>1, <2>2, StringTook
  <2> HIDE DEF n
  <2> QED BY <2>3, OnlyGoes DEF TookOnly, n
<1>6. CASE /\ c # "#" /\ c # "nl" /\ c \notin Opener \cup Closer
           /\ c \notin Quote
           /\ c \in Digit \/ (c = "." /\ At(t, s.pos + 1) \in Digit)
  <2>1. n = ScanNumber(t, s)
    <3> HIDE DEF c
    <3> QED BY <1>1, <1>6 DEF ReadNext, c
  <2>2. TookOnly(t, s, n)
    BY <2>1, NumberTook
  <2> HIDE DEF n
  <2> QED BY <2>2, OnlyGoes DEF TookOnly, n
<1>7. CASE /\ c # "#" /\ c # "nl" /\ c \notin Opener \cup Closer
           /\ c \notin Quote
           /\ ~ (c \in Digit \/ (c = "." /\ At(t, s.pos + 1) \in Digit))
           /\ InName(c)
  <2>1. ReadNext(t, s) = ScanIdentifier(t, s)
    <3> HIDE DEF c
    <3> QED BY <1>1, <1>7 DEF ReadNext, c
  <2> QED BY <1>1, <1>7, <2>1, IdentifierGoes
<1>8. CASE /\ c # "#" /\ c # "nl" /\ c \notin Opener \cup Closer
           /\ c \notin Quote
           /\ ~ (c \in Digit \/ (c = "." /\ At(t, s.pos + 1) \in Digit))
           /\ ~ InName(c)
  <2>1. n = ScanOperator(t, s)
    <3> HIDE DEF c
    <3> QED BY <1>1, <1>8 DEF ReadNext, c
  <2>2. TookOnly(t, s, n)
    BY <2>1, OperatorTook
  <2> HIDE DEF n
  <2> QED BY <2>2, OnlyGoes DEF TookOnly, n
<1> HIDE DEF c
<1> QED BY <1>2, <1>3, <1>4, <1>5, <1>6, <1>7, <1>8

\* The braces counted in the hole of an f-string.
LEMMA BracesCounted ==
  ASSUME NEW s \in LexerState, s.fstrings # <<>>, Last(s.fstrings).braces # 0
  PROVE  LET f == s.fstrings
             d == Last(f).braces
         IN  /\ d \in Nat
             /\ EnterBrace(s).fstrings = [f EXCEPT ![Len(f)].braces = d + 1]
             /\ LeaveBrace(s).fstrings = [f EXCEPT ![Len(f)].braces = d - 1]
<1> DEFINE f == s.fstrings
           d == Last(f).braces
<1>1. f \in Seq(FString)
  BY DEF LexerState
<1>2. Last(f) = f[Len(f)] /\ d \in Nat /\ Len(f) \in DOMAIN f
  <2> HIDE DEF f
  <2>1. Last(f) = f[Len(f)] /\ Last(f) \in FString /\ Len(f) \in DOMAIN f
    BY <1>1, LastAndFront DEF f
  <2>2. \A x \in FString : x.braces \in Nat
    BY DEF FString
  <2> QED BY <2>1, <2>2
<1>3. EnterBrace(s).fstrings = [f EXCEPT ![Len(f)].braces = d + 1]
  <2>1. EnterBrace(s).fstrings = [f EXCEPT ![Len(f)].braces = f[Len(f)].braces + 1]
    BY DEF EnterBrace, LexerState
  <2> QED BY <1>2, <2>1
<1>4. LeaveBrace(s).fstrings = [f EXCEPT ![Len(f)].braces = d - 1]
  <2>1. d > 0
    BY <1>2
  <2>2. LeaveBrace(s).fstrings = [f EXCEPT ![Len(f)].braces = f[Len(f)].braces - 1]
    BY <2>1 DEF LeaveBrace, LexerState
  <2> QED BY <1>2, <2>2
<1> QED BY <1>2, <1>3, <1>4

\* A call in a hole goes the way PassFString does.
StaysInHole(t, q, f, n) ==
  \/ n.lexer.fstrings = f /\ Ends(t, q, n.lexer.pos, Last(f).braces)
  \/ \E b \in Nat : /\ n.lexer.fstrings = [f EXCEPT ![Len(f)].braces = b]
                    /\ Ends(t, q, n.lexer.pos, b)

LEMMA HoleGoes ==
  ASSUME NEW C, NEW t \in Seq(C), NEW s \in LexerState, s.pos < Len(t),
         s.fstrings # <<>>, Last(s.fstrings).braces # 0, NEW q,
         Ends(t, q, s.pos, Last(s.fstrings).braces)
  PROVE  StaysInHole(t, q, s.fstrings, ReadNext(t, s))
<1> DEFINE f == s.fstrings
           d == Last(f).braces
           c == At(t, s.pos)
           n == ReadNext(t, s)
           p == s.pos
<1>1. Len(t) \in Nat /\ p \in Nat /\ p # Len(t) /\ p \in 0 .. Len(t)
  BY LenProperties DEF LexerState
<1>2. d \in Nat
  BY BracesCounted
<1>3. n.lexer.pos \in p .. Len(t) /\ n.lexer.pos \in 0 .. Len(t)
  <2>1. n.lexer.pos \in p .. Len(t)
    BY NextTook DEF Took
  <2> HIDE DEF n, p
  <2> QED BY <1>1, <2>1
<1>4. /\ c \notin {"nl", "#", "\\"}
      /\ c \in Quote => ~ Prefixed(t, p) /\ Ends(t, q, StringEnd(t, p), d)
      /\ c = "{" => Ends(t, q, p + 1, d + 1)
      /\ c = "}" => Ends(t, q, p + 1, d - 1)
      /\ c \notin Quote \cup {"{", "}"} => Ends(t, q, p + 1, d)
  BY <1>1, <1>2, EndsInHole
<1>5. CASE c \in Opener \cup Closer
  <2>1. ReadNext(t, s) = ScanBracket(t, s)
    <3>1. c # "#"
      BY <1>4
    <3> QED BY <1>1, <1>5, <3>1 DEF ReadNext
  <2>2. /\ n.lexer.pos = p + 1
        /\ n.lexer.fstrings = IF c = "{" THEN EnterBrace(s).fstrings
                              ELSE IF c = "}" THEN LeaveBrace(s).fstrings
                              ELSE f
    <3> DEFINE k == ScanBracket(t, s)
    <3>1. /\ k.lexer.pos = p + 1
          /\ k.lexer.fstrings = IF c = "{" THEN EnterBrace(s).fstrings
                                ELSE IF c = "}" THEN LeaveBrace(s).fstrings
                                ELSE f
      BY <1>5, BracketGoes
    <3>2. n = k
      BY <2>1
    <3> HIDE DEF n, k, c
    <3> QED BY <3>1, <3>2
  <2>3. c \notin Quote
    BY <1>5, Zenon DEF Quote, Opener, Closer
  <2>4. /\ EnterBrace(s).fstrings = [f EXCEPT ![Len(f)].braces = d + 1]
        /\ LeaveBrace(s).fstrings = [f EXCEPT ![Len(f)].braces = d - 1]
    BY BracesCounted
  <2>5. d + 1 \in Nat /\ d - 1 \in Nat
    BY <1>2
  <2> DEFINE x == d + 1
             y == d - 1
             z == p + 1
             g == [f EXCEPT ![Len(f)].braces = x]
             h == [f EXCEPT ![Len(f)].braces = y]
  <2>6. /\ x \in Nat /\ y \in Nat /\ n.lexer.pos = z
        /\ n.lexer.fstrings = IF c = "{" THEN g ELSE IF c = "}" THEN h ELSE f
        /\ c = "{" => Ends(t, q, z, x)
        /\ c = "}" => Ends(t, q, z, y)
        /\ c \notin Quote \cup {"{", "}"} => Ends(t, q, z, d)
    BY <1>4, <2>2, <2>4, <2>5
  <2> HIDE DEF n, x, y, z, c
  <2>7. CASE c = "{"
    <3>1. n.lexer.fstrings = g /\ Ends(t, q, n.lexer.pos, x)
      BY <2>6, <2>7
    <3> QED BY <2>6, <3>1 DEF StaysInHole, n
  <2>8. CASE c = "}"
    <3>1. n.lexer.fstrings = h /\ Ends(t, q, n.lexer.pos, y)
      BY <2>6, <2>8
    <3> QED BY <2>6, <3>1 DEF StaysInHole, n
  <2>9. CASE c \notin {"{", "}"}
    <3>1. n.lexer.fstrings = f /\ Ends(t, q, n.lexer.pos, d)
      BY <2>3, <2>6, <2>9
    <3> QED BY <3>1 DEF StaysInHole, n
  <2> QED BY <2>7, <2>8, <2>9
<1>6. CASE c \in Quote
  <2>1. n = ReadString(t, s, s.pos + 1)
    <3>1. c \notin Opener \cup Closer
      BY <1>6, Zenon DEF Quote, Opener, Closer
    <3> QED BY <1>1, <1>4, <1>6, <3>1 DEF ReadNext
  <2>2. (p + 1) - 1 = p /\ (p + 1) + 2 = p + 3
    BY <1>1
  <2>3. \E k : n = Upto(s, k, StringEnd(t, p))
    BY <2>1, <2>2 DEF ReadString, StringEnd
  <2> HIDE DEF n
  <2>4. n.lexer.pos = StringEnd(t, p) /\ n.lexer.fstrings = f
    BY <2>3, UptoFields
  <2> QED BY <1>4, <1>6, <2>4 DEF StaysInHole, n
<1>7. ASSUME n.lexer.fstrings = f, Plain(t, p, n.lexer.pos)
      PROVE  StaysInHole(t, q, f, n)
  <2> HIDE DEF n
  <2>1. Ends(t, q, n.lexer.pos, d)
    BY <1>1, <1>2, <1>3, <1>7, EndsBehind
  <2> QED BY <1>7, <2>1 DEF StaysInHole
<1>8. CASE /\ c \notin Opener \cup Closer /\ c \notin Quote
           /\ c \in Digit \/ (c = "." /\ At(t, s.pos + 1) \in Digit)
  <2>1. n = ScanNumber(t, s)
    <3> HIDE DEF c
    <3> QED BY <1>1, <1>4, <1>8 DEF ReadNext, c
  <2>2. n.lexer.fstrings = f
    BY <2>1, NumberTook DEF TookOnly
  <2>3. Plain(t, p, n.lexer.pos)
    BY <1>8, <2>1, NumberPlain
  <2> QED BY <1>7, <2>2, <2>3
<1>9. CASE /\ c \notin Opener \cup Closer /\ c \notin Quote
           /\ ~ (c \in Digit \/ (c = "." /\ At(t, s.pos + 1) \in Digit))
           /\ ~ InName(c)
  <2>1. n = ScanOperator(t, s)
    <3> HIDE DEF c
    <3> QED BY <1>1, <1>4, <1>9 DEF ReadNext, c
  <2>2. n.lexer.fstrings = f
    BY <2>1, OperatorTook DEF TookOnly
  <2>3. Plain(t, p, n.lexer.pos)
    BY <1>9, <2>1, OperatorPlain
  <2> QED BY <1>7, <2>2, <2>3
<1>10. CASE /\ c \notin Opener \cup Closer /\ c \notin Quote
            /\ ~ (c \in Digit \/ (c = "." /\ At(t, s.pos + 1) \in Digit))
            /\ InName(c)
  <2>1. n = ScanIdentifier(t, s)
    <3> HIDE DEF c
    <3> QED BY <1>1, <1>4, <1>10 DEF ReadNext, c
  <2>2. PICK e \in p + 1 .. Len(t) : IdentifierAt(t, s, n, e)
    BY <1>10, <2>1, IdentifierIs
  <2> HIDE DEF n
  <2>3. Plain(t, p, e)
    BY <2>2 DEF IdentifierAt
  <2>4. e \in p .. Len(t) /\ e \in 0 .. Len(t)
    <3> HIDE DEF p
    <3> QED BY <1>1
  <2>5. Ends(t, q, e, d)
    BY <1>1, <1>2, <2>3, <2>4, EndsBehind
  <2>6. At(t, e) \in Quote
          => e # Len(t) /\ ~ Prefixed(t, e) /\ Ends(t, q, StringEnd(t, e), d)
    <3> SUFFICES ASSUME At(t, e) \in Quote
                 PROVE  e # Len(t) /\ ~ Prefixed(t, e) /\ Ends(t, q, StringEnd(t, e), d)
      OBVIOUS
    <3>1. e < Len(t) /\ e \in Nat
      BY <1>1, <2>4, QuoteIsByte, AtInside
    <3>2. e # Len(t)
      BY <1>1, <3>1
    <3> QED BY <1>2, <2>4, <2>5, <3>2, EndsInHole
  <2>7. \/ n.lexer.fstrings = f /\ n.lexer.pos = StringEnd(t, e) /\ At(t, e) \in Quote
        \/ n.lexer.fstrings = f /\ n.lexer.pos = e
    BY <2>2, <2>6 DEF IdentifierAt
  <2> QED BY <2>5, <2>6, <2>7 DEF StaysInHole, n
<1> QED BY <1>5, <1>6, <1>8, <1>9, <1>10

\* Inside an f-string a call takes its end, or a hole, or a piece of text
\* that is not empty, or does not return.
LEMMA ContentGoes ==
  ASSUME NEW C, NEW t \in Seq(C), NEW s \in LexerState, s.pos <= Len(t),
         InFString(s), s.pending = <<>>, ~ NeverReturns(t, s)
  PROVE  LET n == ScanFStringContent(t, s)
         IN  \/ n.lexer.fstrings = Front(s.fstrings)
             \/ /\ EntersHole(t, s.pos) /\ n.lexer.pos = s.pos + 1
                /\ n.lexer.fstrings
                     = [s.fstrings EXCEPT ![Len(s.fstrings)].braces = 1]
                /\ Rebraced(t, s.pos, s.fstrings, n.lexer.fstrings)
             \/ /\ s.pos < n.lexer.pos /\ n.lexer.pos = LiteralEnd(t, s)
                /\ n.lexer.fstrings = s.fstrings
<1> DEFINE f == Last(s.fstrings)
           n == ScanFStringContent(t, s)
           o == s.pos
<1>1. Len(t) \in Nat /\ o \in 0 .. Len(t) /\ s.fstrings \in Seq(FString)
      /\ s.fstrings # <<>>
  BY LenProperties DEF LexerState, InFString
<1>2. CASE o = Len(t) \/ Closes(t, o, f)
  <2> DEFINE left == [s EXCEPT !.fstrings = Front(@)]
  <2>1. \E k, e : n = Upto(left, k, e)
    <3>1. CASE o = Len(t)
      <4>1. n = Upto(left, "error", s.pos)
        BY <3>1 DEF ScanFStringContent
      <4> QED BY <4>1
    <3>2. CASE o # Len(t) /\ Closes(t, o, f)
      <4>1. n = Upto(left, "fend", s.pos + (IF f.triple THEN 3 ELSE 1))
        BY <3>2 DEF ScanFStringContent
      <4> QED BY <4>1
    <3> QED BY <1>2, <3>1, <3>2
  <2>3. left \in LexerState /\ left.fstrings = Front(s.fstrings)
    <3>1. Front(s.fstrings) \in Seq(FString)
      BY <1>1, LastAndFront
    <3> QED BY <3>1 DEF LexerState
  <2> HIDE DEF n, left
  <2>4. PICK k, e : n = Upto(left, k, e)
    BY <2>1
  <2>2. n.lexer.fstrings = Front(s.fstrings)
    BY <2>3, <2>4, UptoFields
  <2> QED BY <2>2 DEF n
<1>3. CASE o # Len(t) /\ ~ Closes(t, o, f) /\ EntersHole(t, o)
  <2> DEFINE g == [s.fstrings EXCEPT ![Len(s.fstrings)].braces = 1]
             hole == [s EXCEPT !.fstrings[Len(s.fstrings)].braces = 1,
                               !.depth = @ + 1]
  <2>1. PICK k : n = Upto(hole, k, o + 1)
    BY <1>3 DEF ScanFStringContent
  <2>2. AtBrace(t, o)
    BY <1>3 DEF EntersHole, AtBrace
  <2>3. g \in Seq(FString) /\ Rebraced(t, o, s.fstrings, g)
    BY <1>1, <2>2, BracesSet
  <2>4. hole \in LexerState /\ hole.fstrings = g
    <3>1. hole = [s EXCEPT !.fstrings = g, !.depth = s.depth + 1]
      BY DEF LexerState
    <3> DEFINE d == s.depth + 1
    <3>2. d \in Nat /\ g \in Seq(FString)
      BY <2>3 DEF LexerState
    <3> HIDE DEF g, hole, d
    <3>3. hole = [s EXCEPT !.fstrings = g, !.depth = d]
      BY <3>1 DEF d
    <3> QED BY <3>2, <3>3 DEF LexerState
  <2>5. n.lexer.fstrings = hole.fstrings /\ n.lexer.pos = o + 1
    <3> HIDE DEF n, g, hole
    <3> QED BY <2>1, <2>4, UptoFields
  <2>6. n.lexer.fstrings = g
    BY <2>4, <2>5
  <2> HIDE DEF n, hole
  <2> QED BY <1>3, <2>3, <2>5, <2>6 DEF n
<1>4. CASE o # Len(t) /\ ~ Closes(t, o, f) /\ ~ EntersHole(t, o)
  <2>1. PICK k : n = Upto(s, k, LiteralEnd(t, s))
    BY <1>4 DEF ScanFStringContent
  <2>2. LiteralEnd(t, s) \in o .. Len(t)
    BY <1>1, LiteralEnds DEF LiteralEnd
  <2> DEFINE e == LiteralEnd(t, s)
  <2> HIDE DEF n, e
  <2>3. n.lexer.fstrings = s.fstrings /\ n.lexer.pos = e
    BY <2>1, UptoFields DEF e
  <2>4. o < Len(t)
    BY <1>1, <1>4
  <2>5. e # o
    BY <1>4, <2>4 DEF NeverReturns, e
  <2>6. o < e
    <3>1. e \in o .. Len(t)
      BY <2>2 DEF e
    <3> DEFINE a == o
    <3>2. a \in Nat /\ e \in a .. Len(t) /\ e # a
      BY <1>1, <2>5, <3>1
    <3> HIDE DEF a
    <3>3. a < e
      BY <1>1, <3>2
    <3> QED BY <3>3 DEF a
  <2> QED BY <2>3, <2>6 DEF n, e
<1> QED BY <1>2, <1>3, <1>4

\* An f-string in single quotes that is open is the last, and ends; or no
\* newline is left to break it.
Quiet(t, p) == \A j \in p + 1 .. Len(t) : t[j] # "nl"

AllEnd(t, p, f) ==
  \A n \in DOMAIN f :
    f[n].triple \/ (n = Len(f) /\ Ends(t, f[n].quote, p, f[n].braces))

FStringsOpen(t, s) ==
  FStringsClose(t) => Quiet(t, s.pos) \/ AllEnd(t, s.pos, s.fstrings)

LEMMA QuietLater ==
  ASSUME NEW t, NEW p \in Nat, NEW q \in Nat, p <= q, Quiet(t, p)
  PROVE  Quiet(t, q)
<1>1. \A j \in q + 1 .. Len(t) : j \in p + 1 .. Len(t)
  OBVIOUS
<1> QED BY <1>1 DEF Quiet

LEMMA AllEndFront ==
  ASSUME NEW t, NEW p, NEW q, NEW f \in Seq(FString), f # <<>>, AllEnd(t, p, f)
  PROVE  AllEnd(t, q, Front(f))
<1> DEFINE g == Front(f)
<1>1. /\ Len(f) \in Nat /\ DOMAIN f = 1 .. Len(f) /\ DOMAIN g = 1 .. Len(f) - 1
      /\ \A m \in 1 .. Len(f) - 1 : g[m] = f[m]
  BY LastAndFront, LenProperties
<1> HIDE DEF g
<1>2. ASSUME NEW m \in DOMAIN g PROVE g[m].triple
  <2>1. m \in DOMAIN f /\ m # Len(f) /\ g[m] = f[m]
    BY <1>1
  <2> QED BY <2>1 DEF AllEnd
<1> QED BY <1>2 DEF AllEnd, g

LEMMA AllEndThere ==
  ASSUME NEW t, NEW p, NEW q, NEW f \in Seq(FString), AllEnd(t, p, f),
         f # <<>> => \/ Last(f).triple
                     \/ Ends(t, Last(f).quote, q, Last(f).braces)
  PROVE  AllEnd(t, q, f)
<1>1. ASSUME NEW m \in DOMAIN f, ~ f[m].triple
      PROVE  m = Len(f) /\ Ends(t, f[m].quote, q, f[m].braces)
  <2>1. m = Len(f)
    BY <1>1 DEF AllEnd
  <2>2. f # <<>>
    <3>1. DOMAIN <<>> = {}
      OBVIOUS
    <3> QED BY <1>1, <3>1, Zenon
  <2>3. Last(f) = f[Len(f)]
    BY <2>2, LastAndFront
  <2> QED BY <1>1, <2>1, <2>2, <2>3
<1> QED BY <1>1 DEF AllEnd

LEMMA AllEndBraces ==
  ASSUME NEW t, NEW p, NEW q, NEW f \in Seq(FString), f # <<>>,
         AllEnd(t, p, f), NEW b \in Nat,
         Last(f).triple \/ Ends(t, Last(f).quote, q, b)
  PROVE  AllEnd(t, q, [f EXCEPT ![Len(f)].braces = b])
<1> DEFINE l == Len(f)
           h == [f[l] EXCEPT !.braces = b]
           g == [f EXCEPT ![l] = h]
<1>1. l \in DOMAIN f /\ Last(f) = f[l] /\ f[l] \in FString
  BY LastAndFront
<1>2. /\ h.quote = f[l].quote /\ h.triple = f[l].triple /\ h.braces = b
      /\ h \in FString
  BY <1>1 DEF FString
<1>3. g = [f EXCEPT ![Len(f)].braces = b]
  OBVIOUS
<1> HIDE DEF h
<1>4. /\ DOMAIN g = DOMAIN f /\ Len(g) = l /\ g[l] = h
      /\ \A m \in DOMAIN f : m # l => g[m] = f[m]
  <2> HIDE DEF l
  <2>1. g \in Seq(FString) /\ Len(g) = Len(f)
    BY <1>1, <1>2, ExceptSeq
  <2> QED BY <1>1, <2>1 DEF l
<1> HIDE DEF g
<1>5. ASSUME NEW m \in DOMAIN g, ~ g[m].triple
      PROVE  m = Len(g) /\ Ends(t, g[m].quote, q, g[m].braces)
  <2>1. CASE m = l
    BY <1>1, <1>2, <1>4, <1>5, <2>1
  <2>2. CASE m # l
    <3>1. g[m] = f[m] /\ m \in DOMAIN f
      BY <1>4, <2>2
    <3> QED BY <1>5, <2>2, <3>1 DEF AllEnd
  <2> QED BY <2>1, <2>2
<1>6. AllEnd(t, q, g)
  BY <1>5 DEF AllEnd
<1> QED BY <1>3, <1>6

LEMMA AllEndNew ==
  ASSUME NEW t, NEW q, NEW f \in Seq(FString),
         \A m \in DOMAIN f : f[m].triple, NEW h,
         h.triple \/ Ends(t, h.quote, q, h.braces)
  PROVE  AllEnd(t, q, Append(f, h))
<1> DEFINE g == Append(f, h)
<1>1. /\ Len(f) \in Nat /\ DOMAIN f = 1 .. Len(f) /\ Len(g) = Len(f) + 1
      /\ DOMAIN g = 1 .. Len(f) + 1 /\ g[Len(f) + 1] = h
      /\ \A m \in 1 .. Len(f) : g[m] = f[m]
  BY LenProperties
<1> HIDE DEF g
<1>2. ASSUME NEW m \in DOMAIN g, ~ g[m].triple
      PROVE  m = Len(g) /\ Ends(t, g[m].quote, q, g[m].braces)
  <2>1. CASE m = Len(f) + 1
    BY <1>1, <1>2, <2>1
  <2>2. CASE m # Len(f) + 1
    <3>1. m \in DOMAIN f /\ g[m] = f[m]
      BY <1>1, <2>2
    <3> QED BY <1>2, <3>1
  <2> QED BY <2>1, <2>2
<1> QED BY <1>2 DEF AllEnd, g

\* Outside f-strings, or in a hole.
LEMMA OpenElsewhere ==
  ASSUME NEW C, NEW t \in Seq(C), NEW s \in LexerState, s.pos < Len(t),
         FStringsOpen(t, s), ~ InFString(s)
  PROVE  FStringsOpen(t, ReadNext(t, s).lexer)
<1> DEFINE f == s.fstrings
           n == ReadNext(t, s)
           g == n.lexer.fstrings
           p == s.pos
           q == n.lexer.pos
<1>1. /\ f \in Seq(FString) /\ DOMAIN f = 1 .. Len(f) /\ Len(f) \in Nat
      /\ p \in Nat /\ Len(t) \in Nat /\ DOMAIN t = 1 .. Len(t)
  BY LenProperties DEF LexerState
<1>2. Goes(t, s, n) /\ Took(t, s, n)
  BY NextGoes, NextTook
<1>3. q \in Nat /\ p < q /\ q <= Len(t) /\ g \in Seq(FString)
  <2>1. n.lexer \in LexerState /\ q \in p .. Len(t) /\ p < q
    BY <1>2 DEF Took, Goes
  <2>2. g \in Seq(FString) /\ q \in Nat
    BY <2>1 DEF LexerState
  <2> HIDE DEF p, q, g
  <2> QED BY <1>1, <2>1, <2>2
<1> SUFFICES ASSUME FStringsClose(t)
             PROVE  Quiet(t, q) \/ AllEnd(t, q, g)
  BY DEF FStringsOpen
<1>4. CASE Quiet(t, p)
  <2> HIDE DEF p, q
  <2>1. p <= q
    BY <1>1, <1>3
  <2> QED BY <1>1, <1>3, <1>4, <2>1, QuietLater
<1>5. CASE ~ Quiet(t, p) /\ f # <<>> /\ ~ Last(f).triple
  <2>1. AllEnd(t, p, f)
    BY <1>5 DEF FStringsOpen
  <2>2. Len(f) \in DOMAIN f /\ Last(f) = f[Len(f)] /\ Last(f) \in FString
    BY <1>1, <1>5, LastAndFront
  <2>3. Ends(t, Last(f).quote, p, Last(f).braces)
    BY <1>5, <2>1, <2>2 DEF AllEnd
  <2>4. Last(f).braces # 0
    BY <1>5 DEF InFString
  <2>5. StaysInHole(t, Last(f).quote, f, n)
    BY <1>5, <2>3, <2>4, HoleGoes
  <2> HIDE DEF n, f
  <2>6. CASE g = f /\ Ends(t, Last(f).quote, q, Last(f).braces)
    <3>1. AllEnd(t, q, f)
      BY <1>1, <2>1, <2>6, AllEndThere
    <3> QED BY <2>6, <3>1
  <2>7. CASE \E b \in Nat : /\ g = [f EXCEPT ![Len(f)].braces = b]
                            /\ Ends(t, Last(f).quote, q, b)
    <3>1. PICK b \in Nat : /\ g = [f EXCEPT ![Len(f)].braces = b]
                           /\ Ends(t, Last(f).quote, q, b)
      BY <2>7
    <3>2. AllEnd(t, q, [f EXCEPT ![Len(f)].braces = b])
      BY <1>1, <1>5, <2>1, <3>1, AllEndBraces
    <3> QED BY <3>1, <3>2
  <2> QED BY <2>5, <2>6, <2>7 DEF StaysInHole
<1>6. CASE ~ Quiet(t, p) /\ (f = <<>> \/ Last(f).triple)
  <2>1. ASSUME NEW m \in DOMAIN f PROVE f[m].triple
    <3>1. AllEnd(t, p, f)
      BY <1>6 DEF FStringsOpen
    <3>2. f # <<>>
      <4>1. DOMAIN <<>> = {}
        OBVIOUS
      <4> QED BY <2>1, <4>1, Zenon
    <3>3. Last(f) = f[Len(f)]
      BY <1>1, <3>2, LastAndFront
    <3> HIDE DEF f
    <3> QED BY <1>6, <2>1, <3>1, <3>2, <3>3 DEF AllEnd
  <2>2. CASE Rebraced(t, p, f, g)
    <3>1. DOMAIN g = DOMAIN f
      BY <1>1, <1>3, <2>2, LenProperties DEF Rebraced
    <3> HIDE DEF f, g
    <3>2. \A m \in DOMAIN g : g[m].triple
      BY <2>1, <2>2, <3>1 DEF Rebraced
    <3> QED BY <3>2 DEF AllEnd
  <2>3. CASE \E i \in p + 1 .. q - 1 :
               /\ At(t, i) \in Quote /\ Prefixed(t, i)
               /\ g = Append(f, FStringAt(t, i))
               /\ FStringAt(t, i).triple \/ q = i + 1
    <3>1. PICK i \in p + 1 .. q - 1 :
               /\ At(t, i) \in Quote /\ Prefixed(t, i)
               /\ g = Append(f, FStringAt(t, i))
               /\ FStringAt(t, i).triple \/ q = i + 1
      BY <2>3
    <3> DEFINE h == FStringAt(t, i)
    <3>2. h.quote = At(t, i) /\ h.triple = Thrice(t, i, At(t, i)) /\ h.braces = 0
      BY DEF FStringAt
    <3> HIDE DEF f, g, p, q, h, n
    <3>3. i \in Nat /\ i \in DOMAIN t
      BY <1>1, <1>3
    <3>4. CASE h.triple \/ Ends(t, h.quote, q, h.braces)
      BY <1>1, <2>1, <3>1, <3>4, AllEndNew DEF h
    <3>5. CASE ~ h.triple /\ ~ Ends(t, h.quote, q, h.braces)
      <4>1. q = i + 1 /\ LooksOpen(t, i)
        BY <3>1, <3>2, <3>5 DEF LooksOpen, h
      <4>2. ~ Ends(t, At(t, i), i + 1, 0)
        BY <3>2, <3>5, <4>1
      <4>3. \A j \in i .. Len(t) : t[j] # "nl"
        BY <3>3, <4>1, <4>2 DEF FStringsClose
      <4>4. \A j \in q + 1 .. Len(t) : j \in i .. Len(t)
        BY <3>3, <4>1
      <4> QED BY <4>3, <4>4 DEF Quiet
    <3> QED BY <3>4, <3>5
  <2> QED BY <1>2, <2>2, <2>3 DEF Goes
<1> QED BY <1>4, <1>5, <1>6

\* Inside an f-string.
LEMMA OpenInside ==
  ASSUME NEW C, NEW t \in Seq(C), NEW s \in LexerState, s.pos <= Len(t),
         InFString(s), s.pending = <<>>, ~ NeverReturns(t, s),
         FStringsOpen(t, s)
  PROVE  FStringsOpen(t, ScanFStringContent(t, s).lexer)
<1> DEFINE n == ScanFStringContent(t, s)
           f == s.fstrings
           g == n.lexer.fstrings
           p == s.pos
           q == n.lexer.pos
<1>1. /\ f \in Seq(FString) /\ f # <<>> /\ p \in Nat /\ Len(t) \in Nat
      /\ p \in 0 .. Len(t) /\ Last(f).braces = 0
  BY LenProperties DEF LexerState, InFString
<1>2. q \in Nat /\ p <= q
  <2>1. q \in p .. Len(t)
    BY <1>1, FStringContentTook DEF Took
  <2> HIDE DEF p, q
  <2> QED BY <1>1, <2>1
<1>3. /\ Len(f) \in DOMAIN f /\ Last(f) = f[Len(f)] /\ Last(f) \in FString
  BY <1>1, LastAndFront
<1>4. \/ g = Front(f)
      \/ /\ EntersHole(t, p) /\ q = p + 1
         /\ g = [f EXCEPT ![Len(f)].braces = 1]
      \/ q = LiteralEnd(t, s) /\ g = f
  BY ContentGoes
<1> SUFFICES ASSUME FStringsClose(t)
             PROVE  Quiet(t, q) \/ AllEnd(t, q, g)
  BY DEF FStringsOpen
<1>5. CASE Quiet(t, p)
  <2> HIDE DEF p, q
  <2> QED BY <1>1, <1>2, <1>5, QuietLater
<1>6. CASE ~ Quiet(t, p)
  <2>1. AllEnd(t, p, f)
    BY <1>6 DEF FStringsOpen
  <2>2. ~ Last(f).triple => EndsInText(t, Last(f).quote, p)
    <3>1. ~ Last(f).triple => Ends(t, Last(f).quote, p, Last(f).braces)
      BY <1>3, <2>1 DEF AllEnd
    <3> QED BY <1>1, <3>1 DEF EndsInText
  <2>3. Last(f).quote \in Quote
    BY <1>3 DEF FString
  <2>4. LiteralEnd(t, s) = ScanFStringLiteral(t, Last(f))[p]
    BY DEF LiteralEnd
  <2> HIDE DEF n, f, p
  <2>5. CASE g = Front(f)
    <3>1. AllEnd(t, q, Front(f))
      BY <1>1, <2>1, AllEndFront
    <3> QED BY <2>5, <3>1
  <2>6. CASE /\ EntersHole(t, p) /\ q = p + 1
             /\ g = [f EXCEPT ![Len(f)].braces = 1]
    <3> DEFINE b == 1
    <3>1. b \in Nat
      OBVIOUS
    <3>2. ~ Last(f).triple => Ends(t, Last(f).quote, q, b)
      BY <1>1, <2>2, <2>3, <2>6, EndsText
    <3> HIDE DEF b
    <3>3. AllEnd(t, q, [f EXCEPT ![Len(f)].braces = b])
      BY <1>1, <2>1, <3>1, <3>2, AllEndBraces
    <3> QED BY <2>6, <3>3 DEF b
  <2>7. CASE q = LiteralEnd(t, s) /\ g = f
    <3>1. ~ Last(f).triple => EndsInText(t, Last(f).quote, q)
      BY <1>1, <1>3, <2>2, <2>4, <2>7, EndsBehindText
    <3>2. ~ Last(f).triple => Ends(t, Last(f).quote, q, Last(f).braces)
      BY <1>1, <3>1 DEF EndsInText
    <3>3. AllEnd(t, q, f)
      BY <1>1, <2>1, <3>2, AllEndThere
    <3> QED BY <2>7, <3>3
  <2> QED BY <1>4, <2>5, <2>6, <2>7
<1> QED BY <1>5, <1>6

\* Where an f-string is broken by a newline the lexer does not return: not in
\* a text in which they close.
LEMMA ClosedReturns ==
  ASSUME NEW C, NEW t \in Seq(C), NEW s \in LexerState,
         FStringsClose(t), FStringsOpen(t, s)
  PROVE  ~ NeverReturns(t, s)
<1> SUFFICES ASSUME NeverReturns(t, s) PROVE FALSE
  OBVIOUS
<1> DEFINE f == Last(s.fstrings)
           p == s.pos
<1>1. /\ s.fstrings \in Seq(FString) /\ s.fstrings # <<>> /\ p \in Nat
      /\ p < Len(t) /\ Len(t) \in Nat /\ DOMAIN t = 1 .. Len(t)
      /\ ~ Closes(t, p, f) /\ ~ EntersHole(t, p) /\ LiteralEnd(t, s) = p
  BY LenProperties DEF NeverReturns, InFString, LexerState
<1>2. /\ Len(s.fstrings) \in DOMAIN s.fstrings /\ f = s.fstrings[Len(s.fstrings)]
      /\ f \in FString
  BY <1>1, LastAndFront
<1> DEFINE next == PassLiteral(t, f)
<1>3. p \in 0 .. Len(t) /\ next \in Loop(Len(t)) /\ next[p] = p
  <2>1. p \in 0 .. Len(t) /\ next \in Loop(Len(t))
    BY <1>1, LiteralLoop
  <2> HIDE DEF next
  <2>2. Follow(next)[p] \in p .. Len(t) /\ next[Follow(next)[p]] = Follow(next)[p]
    BY <1>1, <2>1, FollowEnds
  <2>3. Follow(next)[p] = p
    BY <1>1 DEF LiteralEnd, ScanFStringLiteral, next
  <2> QED BY <2>1, <2>2, <2>3
<1>4. At(t, p) = "nl" /\ ~ f.triple
  <2>1. next[p] = IF p = Len(t) THEN p
                  ELSE IF Doubled(t, p) THEN p + 2
                  ELSE IF StopsLiteral(t, p, f) THEN p
                  ELSE IF At(t, p) = "\\" THEN Least(p + 2, Len(t))
                  ELSE p + 1
    BY <1>3 DEF PassLiteral
  <2>2. p # Len(t) /\ p + 2 # p /\ p + 1 # p /\ Least(p + 2, Len(t)) # p
    BY <1>1 DEF Least
  <2> HIDE DEF next
  <2>3. ~ Doubled(t, p) /\ StopsLiteral(t, p, f)
    BY <1>3, <2>1, <2>2, Zenon
  <2> QED BY <1>1, <2>3, Zenon DEF StopsLiteral, EntersHole
<1>5. CASE Quiet(t, p)
  <2>1. p + 1 \in p + 1 .. Len(t) /\ t[p + 1] = "nl"
    BY <1>1, <1>4 DEF At
  <2> QED BY <1>5, <2>1 DEF Quiet
<1>6. CASE ~ Quiet(t, p)
  <2>1. f.braces = 0
    BY DEF NeverReturns, InFString
  <2>2. EndsInText(t, f.quote, p)
    BY <1>2, <1>4, <1>6, <2>1 DEF FStringsOpen, AllEnd, EndsInText
  <2>3. f.quote \in Quote
    BY <1>2 DEF FString
  <2> QED BY <1>3, <1>4, <2>2, <2>3, EndsText
<1> QED BY <1>5, <1>6

\* Tokens are paid for by the bytes read: what waits, the blocks open and the
\* f-strings open stand for tokens to come.
Weight(s) == Len(s.pending) + Len(s.indents) + Len(s.fstrings)

Paid(s, n) ==
  n.token.kind # "eof"
    => 1 + Weight(n.lexer) + 2 * s.pos <= Weight(s) + 2 * n.lexer.pos

LEMMA WeightType ==
  ASSUME NEW s \in LexerState
  PROVE  /\ Len(s.pending) \in Nat /\ Len(s.indents) \in Nat
         /\ Len(s.fstrings) \in Nat /\ Weight(s) \in Nat
         /\ s.pos \in Nat
<1>1. /\ s.pending \in Seq(Tok) /\ s.indents \in Seq(Nat)
      /\ s.fstrings \in Seq(FString) /\ s.pos \in Nat
  BY DEF LexerState
<1>2. /\ Len(s.pending) \in Nat /\ Len(s.indents) \in Nat
      /\ Len(s.fstrings) \in Nat
  BY <1>1, LenProperties
<1>3. Len(s.pending) + Len(s.indents) + Len(s.fstrings) \in Nat
  <2>1. \A x, y, z \in Nat : x + y + z \in Nat
    OBVIOUS
  <2> QED BY <1>2, <2>1, Zenon
<1> QED BY <1>1, <1>2, <1>3 DEF Weight

\* What a token costs, in numbers.
LEMMA PaidIf ==
  ASSUME NEW s \in LexerState, NEW n, n.lexer \in LexerState,
         NEW w \in Nat, NEW v \in Nat, NEW a \in Nat, NEW b \in Nat,
         Weight(s) = w, Weight(n.lexer) = v, s.pos = a, n.lexer.pos = b,
         1 + v + 2 * a <= w + 2 * b
  PROVE  Paid(s, n)
BY DEF Paid

LEMMA PaidTook ==
  ASSUME NEW C, NEW t \in Seq(C), NEW s \in LexerState, NEW n,
         Took(t, s, n), Goes(t, s, n)
  PROVE  Paid(s, n)
<1> DEFINE a == s.pos
           b == n.lexer.pos
           f == Len(s.fstrings)
           g == Len(n.lexer.fstrings)
           x == Len(s.pending)
           y == Len(s.indents)
<1>1. /\ n.lexer \in LexerState /\ n.lexer.pending = s.pending
      /\ n.lexer.indents = s.indents /\ a < b
  BY DEF Took, Goes
<1>2. /\ a \in Nat /\ b \in Nat /\ f \in Nat /\ g \in Nat /\ x \in Nat
      /\ y \in Nat
  BY <1>1, WeightType
<1>3. Weight(s) = x + y + f /\ Weight(n.lexer) = x + y + g
  BY <1>1 DEF Weight
<1>4. g = f \/ (g = f + 1 /\ a + 1 < b)
  <2>1. CASE Rebraced(t, s.pos, s.fstrings, n.lexer.fstrings)
    BY <2>1 DEF Rebraced
  <2>2. CASE \E i \in s.pos + 1 .. n.lexer.pos - 1 :
               n.lexer.fstrings = Append(s.fstrings, FStringAt(t, i))
    <3>1. PICK i \in s.pos + 1 .. n.lexer.pos - 1 :
               n.lexer.fstrings = Append(s.fstrings, FStringAt(t, i))
      BY <2>2
    <3>2. g = f + 1
      <4>1. s.fstrings \in Seq(FString)
        BY DEF LexerState
      <4> QED BY <3>1, <4>1
    <3>3. i \in a + 1 .. b - 1
      BY <3>1
    <3> HIDE DEF a, b
    <3> QED BY <1>2, <3>2, <3>3
  <2> QED BY <2>1, <2>2 DEF Goes
<1> HIDE DEF a, b, f, g, x, y
<1>5. 1 + (x + y + g) + 2 * a <= (x + y + f) + 2 * b
  BY <1>1, <1>2, <1>4
<1>6. x + y + g \in Nat /\ x + y + f \in Nat
  BY <1>2
<1> QED BY <1>1, <1>2, <1>3, <1>5, <1>6, PaidIf DEF a, b

\* A stack that is popped: the token and what waits still are what waited.
LEMMA PaidPopped ==
  ASSUME NEW s \in LexerState, s.pending # <<>>
  PROVE  1 + Weight(Popped(s).lexer) = Weight(s)
<1> DEFINE n == Popped(s)
           x == Len(s.pending)
           z == Len(n.lexer.pending)
           y == Len(s.indents)
           f == Len(s.fstrings)
<1>1. /\ n.lexer \in LexerState /\ n.lexer.pending = Front(s.pending)
      /\ n.lexer.indents = s.indents
  BY PoppedState
<1>2. n.lexer.fstrings = s.fstrings
  BY DEF Popped, LexerState
<1>3. x \in Nat /\ y \in Nat /\ f \in Nat /\ z \in Nat
  BY <1>1, WeightType
<1>4. z = x - 1
  <2>1. s.pending \in Seq(Tok)
    BY DEF LexerState
  <2> QED BY <1>1, <2>1, LastAndFront
<1>5. Weight(s) = x + y + f /\ Weight(n.lexer) = z + y + f
  BY <1>1, <1>2 DEF Weight
<1> HIDE DEF x, y, z, f, n
<1>6. 1 + (z + y + f) = x + y + f
  BY <1>3, <1>4
<1> QED BY <1>5, <1>6 DEF n

\* At the end of the text.
LEMMA PaidEnd ==
  ASSUME NEW s \in LexerState, Rising(s.indents)
  PROVE  Paid(s, EndOfText(s))
<1> DEFINE open   == Len(s.indents) - 1
           dedent == Token("dedent", s.pos, s.pos)
           p      == s.pending \o Copies(dedent, open)
           closed == [s EXCEPT !.done = TRUE, !.indents = <<0>>, !.pending = p]
           n      == EndOfText(s)
<1>1. /\ s.pending \in Seq(Tok) /\ s.pos \in Nat /\ open \in Nat
      /\ Len(s.pending) \in Nat /\ Len(s.indents) \in Nat
      /\ Len(s.fstrings) \in Nat
  BY WeightType DEF LexerState, Rising
<1>2. dedent \in Tok
  <2>1. "dedent" \in Kind
    BY DEF Kind
  <2> QED BY <1>1, <2>1, TokenType
<1> HIDE DEF open, dedent
<1>3. p \in Seq(Tok) /\ Len(p) = Len(s.pending) + open
  <2>1. Copies(dedent, open) \in Seq(Tok) /\ Len(Copies(dedent, open)) = open
    BY <1>1, <1>2 DEF Copies
  <2> DEFINE c == Copies(dedent, open)
  <2> HIDE DEF c
  <2>2. p = s.pending \o c
    BY DEF c
  <2>3. c \in Seq(Tok) /\ Len(c) = open
    BY <2>1 DEF c
  <2> HIDE DEF p
  <2> QED BY <1>1, <2>2, <2>3, ConcatProperties
<1>4. closed = [s EXCEPT !.done = TRUE, !.indents = <<0>>,
                         !.pending = @ \o [i \in 1 .. open |-> dedent]]
  BY <1>1 DEF LexerState, Copies
<1> HIDE DEF p
<1>5. /\ closed \in LexerState /\ closed.pos = s.pos /\ closed.pending = p
      /\ closed.indents = <<0>> /\ closed.fstrings = s.fstrings
  <2>1. <<0>> \in Seq(Nat)
    OBVIOUS
  <2> QED BY <1>3, <2>1 DEF LexerState
<1>6. n = IF ~ s.done /\ closed.pending # <<>> THEN Popped(closed)
          ELSE [lexer |-> [s EXCEPT !.done = TRUE],
                token |-> Token("eof", s.pos, s.pos)]
  BY <1>4 DEF EndOfText, open, dedent
<1> HIDE DEF closed, n
<1>7. CASE ~ s.done /\ closed.pending # <<>>
  <2> DEFINE w == Weight(s)
             v == Weight(n.lexer)
             a == s.pos
             x == Len(s.pending)
             y == Len(s.indents)
             f == Len(s.fstrings)
  <2>1. n = Popped(closed)
    BY <1>6, <1>7
  <2>2. 1 + v = Weight(closed) /\ n.lexer \in LexerState /\ n.lexer.pos = a
    BY <1>5, <1>7, <2>1, PaidPopped, PoppedState
  <2>3. w \in Nat /\ v \in Nat /\ a \in Nat /\ w = x + y + f
        /\ x \in Nat /\ y \in Nat /\ f \in Nat
    BY <2>2, WeightType DEF Weight
  <2>4. Weight(closed) = Len(p) + 1 + f
    BY <1>5 DEF Weight
  <2>5. Len(p) = x + (y - 1)
    BY <1>3 DEF open
  <2> HIDE DEF a, w, v, x, y, f
  <2>6. 1 + v + 2 * a <= w + 2 * a
    BY <2>2, <2>3, <2>4, <2>5
  <2>7. /\ Weight(s) = w /\ Weight(n.lexer) = v /\ s.pos = a
        /\ n.lexer.pos = a /\ n.lexer \in LexerState
    BY <2>2 DEF a, w, v
  <2>8. Paid(s, n)
    BY <2>3, <2>6, <2>7, PaidIf
  <2> QED BY <2>8 DEF n
<1>8. CASE ~ (~ s.done /\ closed.pending # <<>>)
  <2>1. n.token.kind = "eof"
    BY <1>6, <1>8 DEF Token
  <2> QED BY <2>1 DEF Paid, n
<1> QED BY <1>7, <1>8

\* Comments that stand alone are no more than the bytes of their lines.
CommentsPaid(t, o, l) ==
  /\ Len(l.comments) <= l.end - o
  /\ l.end < Len(t) => Len(l.comments) <= l.start - o

LEMMA CommentsCounted ==
  ASSUME NEW C, NEW t \in Seq(C), NEW o \in 0 .. Len(t)
  PROVE  CommentsPaid(t, o, PassBlankLines(t, o))
<1> DEFINE next == PassLine(t)
           found == CommentOfLine(t)
           S == {k \in 0 .. Len(t) : CommentsPaid(t, k, PassBlankLines(t, k))}
<1>0. Len(t) \in Nat /\ next \in Loop(Len(t))
  BY LenProperties, LineLoop
<1>1. ASSUME NEW k \in 0 .. Len(t), \A j \in k + 1 .. Len(t) : j \in S
      PROVE  k \in S
  <2> DEFINE b == IndentEnd(t, k)
             e == CommentEnd(t, b)
             c == Token("comment", b, e)
             p == next[k]
             l == PassBlankLines(t, k)
             u == PassBlankLines(t, p)
  <2>1. /\ b \in k .. Len(t) /\ e \in b .. Len(t)
        /\ At(t, b) = "#" => b < e
    BY LineFacts
  <2>2. p = IF At(t, b) = "nl" THEN b + 1
            ELSE IF At(t, b) = "#" /\ e < Len(t) THEN e + 1 ELSE k
    BY DEF PassLine
  <2>3. found[k] = IF At(t, b) = "#" THEN <<c>> ELSE <<>>
    BY DEF CommentOfLine
  <2>4. p \in k .. Len(t)
    BY <1>0 DEF Loop
  <2>5. CASE p = k
    <3>1. Follow(next)[k] = k /\ Gather(next, found)[k] = found[k]
      <4> HIDE DEF next, found
      <4> QED BY <1>0, <2>5, FollowDef, GatherDef
    <3>2. /\ l.start = k /\ l.comments = found[k]
          /\ l.end = IF At(t, b) = "#" THEN e ELSE b
      <4> HIDE DEF b, e
      <4> QED BY <3>1 DEF PassBlankLines, b, e
    <3> HIDE DEF b, e, c, l, p, next, found
    <3>3. CASE At(t, b) = "#"
      <4>1. e = Len(t) /\ l.end = e /\ k < e
        BY <1>0, <2>1, <2>2, <2>5, <3>2, <3>3
      <4>2. Len(l.comments) = 1
        BY <2>3, <3>2, <3>3
      <4>3. CommentsPaid(t, k, l)
        BY <1>0, <2>1, <4>1, <4>2 DEF CommentsPaid
      <4> QED BY <4>3 DEF l
    <3>4. CASE At(t, b) # "#"
      <4>1. Len(l.comments) = 0 /\ l.end = b /\ l.start = k
        BY <2>3, <3>2, <3>4
      <4>2. CommentsPaid(t, k, l)
        BY <1>0, <2>1, <4>1 DEF CommentsPaid
      <4> QED BY <4>2 DEF l
    <3> QED BY <3>3, <3>4
  <2>6. CASE p # k
    <3>1. p \in k + 1 .. Len(t)
      BY <1>0, <2>4, <2>6
    <3>2. CommentsPaid(t, p, u)
      BY <1>1, <3>1
    <3>3. /\ Follow(next)[k] = Follow(next)[p]
          /\ Gather(next, found)[k] = found[k] \o Gather(next, found)[p]
      <4> HIDE DEF next, found
      <4>1. Follow(next)[k] = Follow(next)[p]
        BY <1>0, <2>6, FollowDef
      <4>2. Gather(next, found)[k] = found[k] \o Gather(next, found)[p]
        BY <1>0, <2>6, GatherDef, ZenonT(30)
      <4> QED BY <4>1, <4>2
    <3>4. /\ l.start = u.start /\ l.end = u.end
          /\ l.comments = found[k] \o u.comments
      BY <3>3 DEF PassBlankLines
    <3>5. p \in 0 .. Len(t)
      BY <1>0, <2>4
    <3>6. /\ u.comments \in Seq(Tok) /\ u.start \in p .. Len(t)
          /\ u.end \in u.start .. Len(t)
      BY <3>5, LinesPassed DEF LinesOK
    <3>7. found[k] \in Seq({c}) /\ Len(found[k]) \in {0, 1}
      <4> HIDE DEF c, found
      <4>1. <<c>> \in Seq({c}) /\ Len(<<c>>) = 1
        OBVIOUS
      <4>2. <<>> \in Seq({c}) /\ Len(<<>>) = 0
        OBVIOUS
      <4> QED BY <2>3, <4>1, <4>2
    <3> HIDE DEF b, e, c, l, p, u, next, found
    <3>8. Len(l.comments) = Len(found[k]) + Len(u.comments)
      <4>1. found[k] \in Seq({c} \cup Tok) /\ u.comments \in Seq({c} \cup Tok)
        BY <3>6, <3>7
      <4> QED BY <3>4, <4>1, ConcatProperties
    <3>9. Len(u.comments) \in Nat
      BY <3>6, LenProperties
    <3>10. CommentsPaid(t, k, l)
      <4> DEFINE x == Len(u.comments)
                 y == Len(found[k])
                 z == Len(l.comments)
                 g == u.start
                 h == u.end
      <4>1. /\ x \in Nat /\ y \in {0, 1} /\ z = y + x /\ g \in Nat /\ h \in Nat
            /\ x <= h - p /\ (h < Len(t) => x <= g - p)
        BY <1>0, <3>1, <3>2, <3>6, <3>7, <3>8, <3>9 DEF CommentsPaid
      <4> HIDE DEF x, y, z, g, h
      <4>2. z <= h - k /\ (h < Len(t) => z <= g - k)
        BY <1>0, <3>1, <4>1
      <4> QED BY <3>4, <4>2 DEF CommentsPaid, z, g, h
    <3> QED BY <3>10 DEF l
  <2> QED BY <2>5, <2>6
<1>2. \A k \in 0 .. Len(t) : k \in S
  <2> HIDE DEF S
  <2>1. \A k \in 0 .. Len(t) : (\A j \in k + 1 .. Len(t) : j \in S) => k \in S
    BY <1>1
  <2> QED BY <1>0, <2>1, Downwards
<1> QED BY <1>2

LEMMA NoColumn ==
  ASSUME NEW t, NEW a \in Nat
  PROVE  Column(t, a, a) = 0
<1> DEFINE column == CHOOSE f : IsColumn(f, t, a, 0)
<1>1. a - a = 0
  OBVIOUS
<1>2. IsColumn(column, t, a, 0)
  BY ColumnDef
<1>3. Column(t, a, a) = column[0]
  BY <1>1 DEF Column, IsColumn
<1> HIDE DEF column
<1>4. column[0] = 0
  BY <1>2 DEF IsColumn
<1> QED BY <1>3, <1>4

\* Blanks, and lines passed outside of holes, leave the f-strings as they
\* are.
LEMMA OpenSkipped ==
  ASSUME NEW C, NEW t \in Seq(C), NEW s \in LexerState, NEW u \in LexerState,
         FStringsOpen(t, s), ~ InFString(s),
         s.pos <= u.pos, u.pos <= Len(t), u.fstrings = s.fstrings,
         NEW k \in s.pos .. Len(t), \A i \in s.pos .. k - 1 : At(t, i) \in Unseen,
         k = u.pos \/ At(t, k) \in {"nl", "#"}
  PROVE  FStringsOpen(t, u)
<1> DEFINE f == s.fstrings
           d == Last(f).braces
           p == s.pos
           q == u.pos
<1>1. f \in Seq(FString) /\ p \in Nat /\ q \in Nat /\ Len(t) \in Nat /\ p <= q
  BY LenProperties DEF LexerState
<1>2. p \in 0 .. Len(t) /\ k \in 0 .. Len(t)
  <2> HIDE DEF p
  <2>1. k \in p .. Len(t)
    BY DEF p
  <2> QED BY <1>1, <2>1
<1> SUFFICES ASSUME FStringsClose(t)
             PROVE  Quiet(t, q) \/ AllEnd(t, q, f)
  BY DEF FStringsOpen
<1>3. CASE Quiet(t, p)
  <2> HIDE DEF p, q
  <2> QED BY <1>1, <1>3, QuietLater
<1>4. CASE ~ Quiet(t, p)
  <2>1. AllEnd(t, p, f)
    BY <1>4 DEF FStringsOpen
  <2>2. CASE f = <<>> \/ Last(f).triple
    <3> HIDE DEF f, p, q
    <3>1. AllEnd(t, q, f)
      BY <1>1, <2>1, <2>2, AllEndThere
    <3> QED BY <3>1
  <2>3. CASE f # <<>> /\ ~ Last(f).triple
    <3>1. Len(f) \in DOMAIN f /\ Last(f) = f[Len(f)] /\ Last(f) \in FString
      BY <1>1, <2>3, LastAndFront
    <3>2. Ends(t, Last(f).quote, p, d)
      BY <2>1, <2>3, <3>1 DEF AllEnd
    <3>3. d \in Nat /\ d # 0
      BY <2>3, <3>1 DEF InFString, FString
    <3>4. Plain(t, p, k)
      <4>1. Unseen \cap (Quote \cup {"{", "}"}) = {}
        BY Zenon DEF Unseen, Blank, Quote
      <4> QED BY <4>1 DEF Plain
    <3> HIDE DEF d
    <3>5. Ends(t, Last(f).quote, k, d)
      BY <1>2, <3>2, <3>3, <3>4, EndsBehind DEF p
    <3>6. k = q
      <4> SUFFICES ASSUME At(t, k) \in {"nl", "#"} PROVE FALSE
        OBVIOUS
      <4>1. At(t, k) # "end"
        OBVIOUS
      <4>2. k # Len(t)
        BY <1>1, <1>2, <4>1, AtInside
      <4> QED BY <1>2, <3>3, <3>5, <4>2, EndsInHole
    <3>7. Ends(t, Last(f).quote, q, Last(f).braces)
      BY <3>5, <3>6 DEF d
    <3> HIDE DEF f, p, q
    <3>8. AllEnd(t, q, f)
      BY <1>1, <2>1, <3>7, AllEndThere
    <3> QED BY <3>8
  <2> QED BY <2>2, <2>3
<1> QED BY <1>3, <1>4

LEMMA EndKeeps ==
  ASSUME NEW s \in LexerState, Rising(s.indents)
  PROVE  /\ EndOfText(s).lexer \in LexerState
         /\ EndOfText(s).lexer.pos = s.pos
         /\ EndOfText(s).lexer.fstrings = s.fstrings
<1> DEFINE open   == Len(s.indents) - 1
           dedent == Token("dedent", s.pos, s.pos)
           c      == Copies(dedent, open)
           p      == s.pending \o c
           closed == [s EXCEPT !.done = TRUE, !.indents = <<0>>, !.pending = p]
           n      == EndOfText(s)
<1>1. s.pending \in Seq(Tok) /\ s.pos \in Nat /\ open \in Nat
  BY WeightType DEF LexerState, Rising
<1>2. c \in Seq(Tok)
  <2>1. "dedent" \in Kind
    BY DEF Kind
  <2>2. dedent \in Tok
    BY <1>1, <2>1, TokenType
  <2> HIDE DEF dedent, open
  <2> QED BY <1>1, <2>2 DEF Copies
<1>3. closed = [s EXCEPT !.done = TRUE, !.indents = <<0>>,
                         !.pending = @ \o [i \in 1 .. open |-> dedent]]
  BY <1>1 DEF LexerState, Copies
<1> HIDE DEF open, dedent, c
<1>4. p \in Seq(Tok)
  BY <1>1, <1>2, ConcatProperties
<1> HIDE DEF p
<1>5. /\ closed \in LexerState /\ closed.pos = s.pos /\ closed.pending = p
      /\ closed.fstrings = s.fstrings
  <2>1. <<0>> \in Seq(Nat)
    OBVIOUS
  <2> QED BY <1>4, <2>1 DEF LexerState
<1>6. n = IF ~ s.done /\ closed.pending # <<>> THEN Popped(closed)
          ELSE [lexer |-> [s EXCEPT !.done = TRUE],
                token |-> Token("eof", s.pos, s.pos)]
  BY <1>3 DEF EndOfText, open, dedent
<1> HIDE DEF closed, n
<1>7. CASE ~ s.done /\ closed.pending # <<>>
  <2>1. n = Popped(closed)
    BY <1>6, <1>7
  <2>2. n.lexer \in LexerState /\ n.lexer.pos = s.pos
    BY <1>5, <1>7, <2>1, PoppedState
  <2>3. n.lexer.fstrings = s.fstrings
    BY <1>5, <2>1 DEF Popped, LexerState
  <2> QED BY <2>2, <2>3 DEF n
<1>8. CASE ~ (~ s.done /\ closed.pending # <<>>)
  <2>1. n.lexer = [s EXCEPT !.done = TRUE]
    BY <1>6, <1>8
  <2>2. /\ n.lexer \in LexerState /\ n.lexer.pos = s.pos
        /\ n.lexer.fstrings = s.fstrings
    BY <2>1 DEF LexerState
  <2> QED BY <2>2 DEF n
<1> QED BY <1>7, <1>8

\* What a call does for the invariant of reading.
PaidAndOpen(t, s, n) ==
  /\ n.lexer \in LexerState /\ Paid(s, n)
  /\ FStringsOpen(t, s) => FStringsOpen(t, n.lexer)

\* NextInLine: blanks cost nothing, and leave the f-strings as they are.
LEMMA LinePaid ==
  ASSUME NEW C, NEW t \in Seq(C), NEW s, LexerOK(t, s), ~ InFString(s)
  PROVE  PaidAndOpen(t, s, NextInLine(t, s))
<1> DEFINE w == SkipWhitespace(t, s.depth)[s.pos]
           u == [s EXCEPT !.pos = w]
           n == NextInLine(t, s)
<1>1. /\ s \in LexerState /\ s.pos \in 0 .. Len(t) /\ s.depth \in Nat
      /\ Len(t) \in Nat /\ Rising(s.indents)
  BY LenProperties DEF LexerOK, LexerState
<1>2. w \in s.pos .. Len(t)
  BY <1>1, WhitespaceSkipped
<1>3. n = ReadNext(t, u)
  BY DEF NextInLine
<1> HIDE DEF w
<1>4. /\ u \in LexerState /\ u.pos = w /\ u.indents = s.indents
      /\ u.pending = s.pending /\ u.fstrings = s.fstrings
  <2>1. w \in Nat
    BY <1>1, <1>2
  <2> QED BY <1>1, <2>1 DEF LexerState
<1> HIDE DEF u, n
<1>5. ~ InFString(u) /\ (FStringsOpen(t, s) => FStringsOpen(t, u))
  <2>1. s.pos <= u.pos /\ u.pos <= Len(t)
    BY <1>1, <1>2, <1>4
  <2>2. /\ \A i \in s.pos .. w - 1 : At(t, i) \in Unseen
        /\ w \in s.pos .. Len(t) /\ w = u.pos
    BY <1>1, <1>2, <1>4, WhitespaceSkipped DEF w
  <2> QED BY <1>1, <1>4, <2>1, <2>2, OpenSkipped DEF InFString
<1>6. PaidAndOpen(t, u, n)
  <2>1. CASE w = Len(t)
    <3>1. n = EndOfText(u)
      BY <1>3, <1>4, <2>1 DEF ReadNext
    <3>2. Paid(u, n)
      BY <1>1, <1>4, <3>1, PaidEnd
    <3>3. /\ n.lexer \in LexerState /\ n.lexer.pos = u.pos
          /\ n.lexer.fstrings = u.fstrings
      BY <1>1, <1>4, <3>1, EndKeeps
    <3>5. FStringsOpen(t, u) => FStringsOpen(t, n.lexer)
      BY <3>3 DEF FStringsOpen
    <3> QED BY <3>2, <3>3, <3>5 DEF PaidAndOpen
  <2>2. CASE w # Len(t)
    <3>1. u.pos < Len(t)
      BY <1>1, <1>2, <1>4, <2>2
    <3>2. Took(t, u, n) /\ Goes(t, u, n)
      BY <1>3, <1>4, <3>1, NextTook, NextGoes
    <3>3. n.lexer \in LexerState /\ n.lexer.pos <= Len(t)
      BY <1>1, <1>2, <1>4, <3>2 DEF Took
    <3>4. Paid(u, n)
      BY <1>4, <3>2, PaidTook
    <3>5. FStringsOpen(t, u) => FStringsOpen(t, n.lexer)
      BY <1>3, <1>4, <1>5, <3>1, OpenElsewhere
    <3> QED BY <3>3, <3>4, <3>5 DEF PaidAndOpen
  <2> QED BY <2>1, <2>2
<1>7. Paid(s, n)
  <2> DEFINE x == Weight(s)
             v == Weight(n.lexer)
             a == s.pos
             b == n.lexer.pos
  <2>1. x \in Nat /\ v \in Nat /\ a \in Nat /\ b \in Nat /\ w \in Nat /\ a <= w
    BY <1>1, <1>2, <1>6, WeightType DEF PaidAndOpen
  <2>2. Weight(u) = x
    BY <1>4 DEF Weight
  <2>3. CASE n.token.kind = "eof"
    BY <2>3 DEF Paid
  <2>4. CASE n.token.kind # "eof"
    <3>1. 1 + v + 2 * w <= x + 2 * b
      BY <1>4, <1>6, <2>2, <2>4 DEF PaidAndOpen, Paid
    <3> HIDE DEF x, v, a, b
    <3>2. 1 + v + 2 * a <= x + 2 * b
      BY <2>1, <3>1
    <3> QED BY <2>1, <3>2 DEF Paid, x, v, a, b
  <2> QED BY <2>3, <2>4
<1> QED BY <1>5, <1>6, <1>7 DEF PaidAndOpen, n

\* handle_indentation, and the line behind it if it returned nothing.
LEMMA IndentationPaid ==
  ASSUME NEW C, NEW t \in Seq(C), NEW s, LexerOK(t, s), ~ InFString(s),
         s.pending = <<>>, ~ s.done
  PROVE  PaidAndOpen(t, s, NextBehind(t, HandleIndentation(t, s)))
<1> DEFINE line == PassBlankLines(t, s.pos)
           at == [s EXCEPT !.pos = line.end, !.pending = line.comments]
           width == Column(t, line.start, line.end)
           deeper == {i \in DOMAIN s.indents : s.indents[i] > width}
           m == Cardinality(deeper)
           dedent == Token("dedent", line.start, line.end)
           below == SubSeq(s.indents, 1, Len(s.indents) - m)
           stack == line.comments \o Copies(dedent, m)
           h == HandleIndentation(t, s)
           n == NextBehind(t, h)
           a == s.pos
           b == line.end
           c == Len(line.comments)
           y == Len(s.indents)
           f == Len(s.fstrings)
<1>1. /\ s \in LexerState /\ a \in 0 .. Len(t) /\ s.indents \in Seq(Nat)
      /\ Len(t) \in Nat /\ Rising(s.indents)
  BY LenProperties DEF LexerOK, LexerState
<1>2. LinesOK(t, a, line) /\ CommentsPaid(t, a, line)
  BY <1>1, LinesPassed, CommentsCounted
<1>3. y \in Nat /\ f \in Nat /\ Weight(s) = y + f
  <2>1. /\ Len(s.indents) \in Nat /\ Len(s.fstrings) \in Nat
        /\ Len(s.pending) = 0
    BY <1>1, WeightType
  <2> HIDE DEF line
  <2> QED BY <2>1 DEF Weight
<1> HIDE DEF line
<1>4. /\ line.start \in Nat /\ b \in Nat /\ a \in Nat /\ c \in Nat
      /\ a <= line.start /\ line.start <= b /\ b <= Len(t)
      /\ line.comments \in Seq(Tok)
      /\ \A i \in DOMAIN line.comments : line.comments[i].kind = "comment"
  <2>1. /\ line.start \in a .. Len(t) /\ b \in line.start .. Len(t)
        /\ line.comments \in Seq(Tok)
        /\ \A i \in DOMAIN line.comments : line.comments[i].kind = "comment"
    BY <1>2 DEF LinesOK
  <2>2. c \in Nat
    BY <2>1, LenProperties
  <2> QED BY <1>1, <2>1, <2>2
<1>5. c <= b - a /\ (b < Len(t) => c <= line.start - a)
  BY <1>2 DEF CommentsPaid
<1>6. width \in Nat /\ (line.start = b => width = 0)
  BY <1>4, ColumnType, NoColumn
<1>7. /\ at \in LexerState /\ at.pos = b /\ at.pending = line.comments
      /\ at.indents = s.indents /\ at.fstrings = s.fstrings /\ ~ at.done
  BY <1>1, <1>4 DEF LexerState
<1>8. LexerOK(t, at) /\ ~ InFString(at)
  BY <1>1, <1>4, <1>7 DEF LexerOK, InFString
<1>9. Weight(at) = c + y + f
  BY <1>7 DEF Weight
<1>10. h = IndentLine(t, s, line)
  BY DEF HandleIndentation, line
<1>11. ASSUME NEW u \in LexerState, u.fstrings = s.fstrings, u.pos = b,
              FStringsOpen(t, s)
       PROVE  FStringsOpen(t, u)
  <2> DEFINE k == IndentEnd(t, a)
             e == CommentEnd(t, k)
  <2>1. /\ s.pos <= u.pos /\ u.pos <= Len(t)
    BY <1>4, <1>11
  <2>2. /\ k \in a .. Len(t)
        /\ \A i \in a .. k - 1 : At(t, i) \in {"sp", "tab"}
    BY <1>1, LineFacts
  <2>3. k = u.pos \/ At(t, k) \in {"nl", "#"}
    <3> SUFFICES ASSUME At(t, k) \notin {"nl", "#"} PROVE k = b
      BY <1>11
    <3>1. PassLine(t)[a] = a
      BY <1>1 DEF PassLine
    <3> DEFINE next == PassLine(t)
    <3>2. next \in Loop(Len(t)) /\ next[a] = a
      BY <3>1, LineLoop
    <3> HIDE DEF next
    <3>3. Follow(next)[a] = a
      BY <1>1, <3>2, FollowDef
    <3> HIDE DEF k
    <3> QED BY <3>3 DEF PassBlankLines, line, next, k
  <2>4. \A i \in s.pos .. k - 1 : At(t, i) \in Unseen
    BY <2>2 DEF Unseen, Blank
  <2> HIDE DEF k
  <2> QED BY <1>1, <1>11, <2>1, <2>2, <2>3, <2>4, OpenSkipped
<1> HIDE DEF width, m, dedent, below, stack, at, h, n, a, b, c, y, f
<1>12. CASE line.comments # <<>> /\ Last(line.comments).end = Len(t)
  <2>1. h = Popped(at)
    BY <1>10, <1>12 DEF IndentLine, at, a, b
  <2>2. /\ h.lexer \in LexerState /\ h.token = Last(line.comments)
        /\ h.lexer.pos = b
    BY <1>7, <1>12, <2>1, PoppedState
  <2>3. h.lexer.fstrings = s.fstrings
    BY <1>7, <2>1 DEF Popped, LexerState
  <2>4. h.token.kind = "comment"
    <3>1. /\ Last(line.comments) = line.comments[Len(line.comments)]
          /\ Len(line.comments) \in DOMAIN line.comments
      BY <1>4, <1>12, LastAndFront
    <3> QED BY <1>4, <2>2, <3>1
  <2>5. n = h
    BY <2>4 DEF NextBehind, n
  <2>6. 1 + Weight(h.lexer) = c + y + f
    BY <1>7, <1>9, <1>12, <2>1, PaidPopped
  <2> DEFINE v == Weight(h.lexer)
  <2>7. v \in Nat
    BY <2>2, WeightType
  <2>8. 1 + v = c + y + f
    BY <2>6
  <2> HIDE DEF v
  <2>9. y + f \in Nat /\ 1 + v + 2 * a <= (y + f) + 2 * b
    BY <1>3, <1>4, <1>5, <2>7, <2>8
  <2>10. s.pos = a /\ Weight(h.lexer) = v
    BY DEF a, v
  <2>11. Paid(s, h)
    BY <1>1, <1>3, <1>4, <2>2, <2>7, <2>9, <2>10, PaidIf
  <2>12. PaidAndOpen(t, s, h)
    BY <1>11, <2>2, <2>3, <2>11 DEF PaidAndOpen
  <2> QED BY <2>5, <2>12 DEF h, n
<1>13. CASE /\ ~ (line.comments # <<>> /\ Last(line.comments).end = Len(t))
            /\ b = Len(t) \/ (width <= Last(s.indents) /\ deeper = {})
  <2>1. h = [lexer |-> at, token |-> Token("none", 0, 0)]
    BY <1>10, <1>13 DEF IndentLine, at, width, a, b
  <2>2. n = NextInLine(t, at)
    <3>1. h.token.kind = "none" /\ h.lexer = at
      BY <2>1 DEF Token
    <3> QED BY <3>1 DEF NextBehind, n
  <2>3. PaidAndOpen(t, at, n)
    BY <1>8, <2>2, LinePaid
  <2> DEFINE v == Weight(n.lexer)
             e == n.lexer.pos
  <2>4. n.lexer \in LexerState /\ v \in Nat /\ e \in Nat
    BY <2>3, WeightType DEF PaidAndOpen
  <2>5. FStringsOpen(t, s) => FStringsOpen(t, n.lexer)
    BY <1>7, <1>11, <2>3 DEF PaidAndOpen
  <2>6. Paid(s, n)
    <3>1. CASE n.token.kind = "eof"
      BY <3>1 DEF Paid
    <3>2. CASE n.token.kind # "eof"
      <4>1. 1 + v + 2 * b <= c + y + f + 2 * e
        BY <1>7, <1>9, <2>3, <3>2 DEF PaidAndOpen, Paid
      <4> HIDE DEF v, e
      <4>2. y + f \in Nat /\ 1 + v + 2 * a <= (y + f) + 2 * e
        BY <1>3, <1>4, <1>5, <2>4, <4>1
      <4>3. /\ s.pos = a /\ Weight(n.lexer) = v /\ n.lexer.pos = e
            /\ Weight(s) = y + f
        BY <1>3 DEF a, v, e
      <4> QED BY <1>1, <1>4, <2>4, <4>2, <4>3, PaidIf
    <3> QED BY <3>1, <3>2
  <2> QED BY <2>4, <2>5, <2>6 DEF PaidAndOpen, n, h
<1>14. CASE /\ ~ (line.comments # <<>> /\ Last(line.comments).end = Len(t))
            /\ ~ (b = Len(t) \/ (width <= Last(s.indents) /\ deeper = {}))
            /\ width > Last(s.indents)
  <2> DEFINE k == Token("indent", line.start, line.end)
             u == [at EXCEPT !.indents = Append(s.indents, width)]
  <2>1. h = [lexer |-> u, token |-> k]
    BY <1>7, <1>10, <1>14 DEF IndentLine, at, width, LexerState, b
  <2>2. /\ Append(s.indents, width) \in Seq(Nat)
        /\ Len(Append(s.indents, width)) = y + 1
    BY <1>1, <1>6, AppendProperties DEF y
  <2>3. /\ u \in LexerState /\ u.pos = b /\ u.pending = line.comments
        /\ u.indents = Append(s.indents, width) /\ u.fstrings = s.fstrings
    BY <1>7, <2>2 DEF LexerState
  <2>4. k.kind = "indent"
    BY DEF Token
  <2> HIDE DEF k, u
  <2>5. n = h /\ h.lexer = u /\ h.token = k
    BY <2>1, <2>4 DEF NextBehind, n
  <2>6. Weight(u) = c + (y + 1) + f
    BY <2>2, <2>3 DEF Weight, c, f
  <2>7. line.start < b /\ b < Len(t)
    <3>1. width # 0
      <4>1. Last(s.indents) \in Nat
        <5>1. s.indents # <<>>
          BY <1>1 DEF Rising
        <5> QED BY <1>1, <5>1, LastAndFront
      <4> QED BY <1>6, <1>14, <4>1
    <3> QED BY <1>1, <1>4, <1>6, <1>14, <3>1
  <2> DEFINE v == c + (y + 1) + f
  <2>8. v \in Nat
    BY <1>3, <1>4
  <2>9. y + f \in Nat /\ 1 + v + 2 * a <= (y + f) + 2 * b
    BY <1>3, <1>4, <1>5, <2>7
  <2>10. Weight(u) = v /\ s.pos = a
    BY <2>6 DEF a
  <2> HIDE DEF v
  <2>11. Paid(s, h)
    BY <1>1, <1>3, <1>4, <2>3, <2>5, <2>8, <2>9, <2>10, PaidIf
  <2>12. PaidAndOpen(t, s, h)
    BY <1>11, <2>3, <2>5, <2>11 DEF PaidAndOpen
  <2> QED BY <2>5, <2>12 DEF h, n
<1>15. CASE /\ ~ (line.comments # <<>> /\ Last(line.comments).end = Len(t))
            /\ ~ (b = Len(t) \/ (width <= Last(s.indents) /\ deeper = {}))
            /\ ~ (width > Last(s.indents))
  <2> DEFINE u == [at EXCEPT !.indents = below, !.pending = stack]
  <2>1. h = Popped(u)
    <3>1. h = Popped([at EXCEPT
             !.indents = SubSeq(@, 1, Len(@) - m),
             !.pending = @ \o [i \in 1 .. m |-> dedent]])
      BY <1>10, <1>15 DEF IndentLine, at, width, m, dedent, b
    <3>2. u = [at EXCEPT !.indents = SubSeq(@, 1, Len(@) - m),
                         !.pending = @ \o [i \in 1 .. m |-> dedent]]
      BY <1>7 DEF below, stack, Copies, LexerState
    <3> HIDE DEF u
    <3> QED BY <3>1, <3>2
  <2>2. deeper # {}
    <3>1. Last(s.indents) \in Nat
      <4>1. s.indents # <<>>
        BY <1>1 DEF Rising
      <4> QED BY <1>1, <4>1, LastAndFront
    <3> HIDE DEF deeper
    <3> QED BY <1>6, <1>15, <3>1
  <2>3. /\ m \in Nat /\ m # 0 /\ below \in Seq(Nat) /\ Len(below) + m = y
    BY <1>1, <1>6, <2>2, ShallowerRises DEF m, below, y
  <2>4. dedent \in Tok /\ dedent.kind = "dedent"
    <3>1. "dedent" \in Kind
      BY DEF Kind
    <3> QED BY <1>4, <3>1, TokenType DEF dedent, b
  <2> HIDE DEF deeper
  <2>5. stack \in Seq(Tok) /\ Len(stack) = c + m /\ Last(stack) = dedent
        /\ stack # <<>>
    <3> DEFINE q == Copies(dedent, m)
    <3>1. q \in Seq(Tok) /\ Len(q) = m /\ \A i \in 1 .. m : q[i] = dedent
      BY <2>3, <2>4 DEF Copies
    <3> HIDE DEF q
    <3>2. stack = line.comments \o q
      BY DEF stack, q
    <3>3. /\ stack \in Seq(Tok) /\ Len(stack) = c + m
          /\ \A i \in 1 .. c + m : stack[i] = IF i <= c THEN line.comments[i]
                                              ELSE q[i - c]
      <4> DEFINE p == line.comments
      <4>1. p \in Seq(Tok) /\ Len(p) = c /\ stack = p \o q
        BY <1>4, <3>2 DEF c
      <4> HIDE DEF p
      <4>2. /\ stack \in Seq(Tok) /\ Len(stack) = c + m
            /\ \A i \in 1 .. c + m : stack[i] = IF i <= c THEN p[i] ELSE q[i - c]
        BY <3>1, <4>1, ConcatProperties
      <4> QED BY <4>2 DEF p
    <3>4. Len(stack) # 0
      BY <1>4, <2>3, <3>3
    <3>5. stack # <<>>
      BY <3>4, EmptySeq
    <3>6. stack[c + m] = dedent
      BY <1>4, <2>3, <3>1, <3>3
    <3> QED BY <3>3, <3>5, <3>6, LastAndFront
  <2>6. /\ u \in LexerState /\ u.pos = b /\ u.pending = stack
        /\ u.indents = below /\ u.fstrings = s.fstrings
    BY <1>7, <2>3, <2>5 DEF LexerState
  <2> HIDE DEF u
  <2>7. /\ h.lexer \in LexerState /\ h.token = dedent /\ h.lexer.pos = b
    BY <2>1, <2>5, <2>6, PoppedState
  <2>8. h.lexer.fstrings = s.fstrings
    BY <2>1, <2>6 DEF Popped, LexerState
  <2>9. n = h
    BY <2>4, <2>7 DEF NextBehind, n
  <2> DEFINE v == Weight(h.lexer)
             z == Len(below)
  <2>10. v \in Nat /\ z \in Nat
    BY <2>3, <2>7, WeightType, LenProperties
  <2>11. 1 + v = (c + m) + z + f
    <3>1. Weight(u) = (c + m) + z + f
      BY <2>5, <2>6 DEF Weight, f
    <3> QED BY <2>1, <2>5, <2>6, <3>1, PaidPopped
  <2>12. z + m = y
    BY <2>3
  <2> HIDE DEF v, z
  <2>13. y + f \in Nat /\ 1 + v + 2 * a <= (y + f) + 2 * b
    BY <1>3, <1>4, <1>5, <2>3, <2>10, <2>11, <2>12
  <2>14. Weight(h.lexer) = v /\ s.pos = a
    BY DEF v, a
  <2>15. Paid(s, h)
    BY <1>1, <1>3, <1>4, <2>7, <2>10, <2>13, <2>14, PaidIf
  <2>16. PaidAndOpen(t, s, h)
    BY <1>11, <2>7, <2>8, <2>15 DEF PaidAndOpen
  <2> QED BY <2>9, <2>16 DEF h, n
<1> QED BY <1>12, <1>13, <1>14, <1>15

\* A call of next_token.
LEMMA NextPaid ==
  ASSUME NEW C, NEW t \in Seq(C), NEW s, LexerOK(t, s), ~ NeverReturns(t, s)
  PROVE  PaidAndOpen(t, s, NextToken(t, s))
<1> DEFINE n == NextToken(t, s)
           stale == [s EXCEPT !.fresh = FALSE]
<1>1. s \in LexerState /\ s.pos \in Nat /\ s.pos <= Len(t) /\ s.depth \in Nat
  BY DEF LexerOK, LexerState
<1>2. /\ LexerOK(t, stale) /\ stale.pos = s.pos /\ stale.pending = s.pending
      /\ stale.indents = s.indents /\ stale.fstrings = s.fstrings
      /\ stale.done = s.done
  <2>1. /\ stale \in LexerState /\ stale.pos = s.pos
        /\ stale.pending = s.pending /\ stale.indents = s.indents
        /\ stale.fstrings = s.fstrings /\ stale.done = s.done
    BY <1>1 DEF LexerState
  <2> HIDE DEF stale
  <2> QED BY <2>1 DEF LexerOK
<1>3. ASSUME PaidAndOpen(t, stale, n) PROVE PaidAndOpen(t, s, n)
  <2> HIDE DEF stale, n
  <2>1. Weight(stale) = Weight(s)
    BY <1>2 DEF Weight
  <2>2. FStringsOpen(t, s) => FStringsOpen(t, stale)
    BY <1>2 DEF FStringsOpen
  <2> QED BY <1>2, <1>3, <2>1, <2>2 DEF PaidAndOpen, Paid
<1> HIDE DEF stale
<1>4. CASE s.pending # <<>>
  <2>1. n = Popped(s)
    BY <1>4 DEF NextToken
  <2> HIDE DEF n
  <2>2. n.lexer \in LexerState /\ n.lexer.pos = s.pos
    BY <1>1, <1>4, <2>1, PoppedState
  <2>3. n.lexer.fstrings = s.fstrings
    BY <1>1, <2>1 DEF Popped, LexerState
  <2>4. FStringsOpen(t, s) => FStringsOpen(t, n.lexer)
    BY <2>2, <2>3 DEF FStringsOpen
  <2> DEFINE w == Weight(s)
             v == Weight(n.lexer)
             a == s.pos
  <2>5. w \in Nat /\ v \in Nat /\ a \in Nat /\ 1 + v = w
    BY <1>1, <1>4, <2>1, <2>2, PaidPopped, WeightType
  <2>6. Weight(s) = w /\ Weight(n.lexer) = v /\ s.pos = a /\ n.lexer.pos = a
    BY <2>2
  <2> HIDE DEF w, v, a
  <2>7. 1 + v + 2 * a <= w + 2 * a
    BY <2>5
  <2>8. Paid(s, n)
    BY <1>1, <2>2, <2>5, <2>6, <2>7, PaidIf
  <2> QED BY <2>2, <2>4, <2>8 DEF PaidAndOpen, n
<1>5. CASE s.pending = <<>> /\ InFString(s)
  <2>1. n = ScanFStringContent(t, s) /\ s.fstrings # <<>>
    BY <1>5 DEF NextToken, NextInText, InFString
  <2>2. FStringsOpen(t, s) => FStringsOpen(t, n.lexer)
    BY <1>1, <1>5, <2>1, OpenInside
  <2>3. Took(t, s, n)
    BY <1>1, <2>1, FStringContentTook
  <2>4. \/ n.lexer.fstrings = Front(s.fstrings)
        \/ /\ s.pos < n.lexer.pos
           /\ Rebraced(t, s.pos, s.fstrings, n.lexer.fstrings)
    <3>1. Rebraced(t, s.pos, s.fstrings, s.fstrings)
      BY DEF Rebraced
    <3> DEFINE e == [s.fstrings EXCEPT ![Len(s.fstrings)].braces = 1]
               later == s.pos + 1
    <3>2. s.pos < later
      BY <1>1
    <3> HIDE DEF n, e, later
    <3>3. \/ n.lexer.fstrings = Front(s.fstrings)
          \/ /\ n.lexer.pos = later
             /\ Rebraced(t, s.pos, s.fstrings, n.lexer.fstrings)
          \/ s.pos < n.lexer.pos /\ n.lexer.fstrings = s.fstrings
      BY <1>1, <1>5, <2>1, ContentGoes DEF later
    <3> QED BY <3>1, <3>2, <3>3
  <2>5. Paid(s, n)
    <3>1. CASE /\ s.pos < n.lexer.pos
               /\ Rebraced(t, s.pos, s.fstrings, n.lexer.fstrings)
      <4>1. Goes(t, s, n)
        BY <3>1 DEF Goes
      <4> HIDE DEF n
      <4> QED BY <1>1, <2>3, <4>1, PaidTook
    <3>2. CASE n.lexer.fstrings = Front(s.fstrings)
      <4> DEFINE a == s.pos
                 b == n.lexer.pos
                 w == Weight(s)
                 v == Weight(n.lexer)
                 x == Len(s.pending)
                 y == Len(s.indents)
                 f == Len(s.fstrings)
                 g == Len(n.lexer.fstrings)
      <4> HIDE DEF n
      <4>1. /\ n.lexer \in LexerState /\ n.lexer.pending = s.pending
            /\ n.lexer.indents = s.indents /\ n.lexer.pos \in s.pos .. Len(t)
        BY <2>3 DEF Took
      <4>2. /\ a \in Nat /\ b \in Nat /\ w \in Nat /\ v \in Nat /\ x \in Nat
            /\ y \in Nat /\ f \in Nat /\ g \in Nat
        BY <1>1, <4>1, WeightType
      <4>3. g = f - 1
        <5>1. s.fstrings \in Seq(FString)
          BY <1>1 DEF LexerState
        <5> QED BY <2>1, <3>2, <5>1, LastAndFront
      <4>4. w = x + y + f /\ v = x + y + g
        BY <4>1 DEF Weight
      <4>5. b \in a .. Len(t)
        BY <4>1
      <4>6. Weight(s) = w /\ Weight(n.lexer) = v /\ s.pos = a /\ n.lexer.pos = b
        OBVIOUS
      <4> HIDE DEF a, b, w, v, x, y, f, g
      <4>7. a <= b
        BY <4>2, <4>5
      <4>8. 1 + v + 2 * a <= w + 2 * b
        BY <4>2, <4>3, <4>4, <4>7
      <4> QED BY <1>1, <4>1, <4>2, <4>6, <4>8, PaidIf
    <3> QED BY <2>4, <3>1, <3>2
  <2>6. n.lexer \in LexerState
    BY <2>3 DEF Took
  <2> QED BY <2>2, <2>5, <2>6 DEF PaidAndOpen
<1>6. CASE /\ s.pending = <<>> /\ ~ InFString(s)
           /\ s.fresh /\ s.pos < Len(t) /\ s.depth > 0
  <2>1. n = NextInLine(t, stale)
    BY <1>6 DEF NextToken, NextInText, stale
  <2> HIDE DEF n
  <2>2. PaidAndOpen(t, stale, n)
    BY <1>2, <1>6, <2>1, LinePaid DEF InFString
  <2> QED BY <1>3, <2>2 DEF n
<1>7. CASE /\ s.pending = <<>> /\ ~ InFString(s)
           /\ s.fresh /\ s.pos < Len(t) /\ ~ (s.depth > 0)
  <2>1. n = NextBehind(t, HandleIndentation(t, stale))
    BY <1>7 DEF NextToken, NextInText, stale
  <2> HIDE DEF n
  <2>2. ~ s.done
    BY <1>1, <1>7 DEF LexerOK
  <2>3. PaidAndOpen(t, stale, n)
    BY <1>2, <1>7, <2>1, <2>2, IndentationPaid DEF InFString
  <2> QED BY <1>3, <2>3 DEF n
<1>8. CASE /\ s.pending = <<>> /\ ~ InFString(s)
           /\ ~ (s.fresh /\ s.pos < Len(t))
  <2>1. n = NextInLine(t, s)
    BY <1>8 DEF NextToken, NextInText
  <2> QED BY <1>8, <2>1, LinePaid
<1> QED BY <1>4, <1>5, <1>6, <1>7, <1>8

\* The invariant of reading a text in which f-strings close.
ReadInTime(t, l, toks) ==
  /\ Len(toks) + Weight(l) <= 2 * l.pos + 1
  /\ FStringsOpen(t, l)

LEMMA InTimeStart ==
  ASSUME NEW C, NEW t \in Seq(C)
  PROVE  ReadInTime(t, NewLexer, <<>>)
<1>1. /\ NewLexer.pos = 0 /\ Len(NewLexer.pending) = 0
      /\ Len(NewLexer.indents) = 1 /\ NewLexer.fstrings = <<>>
  BY DEF NewLexer
<1>2. Weight(NewLexer) = 1
  BY <1>1 DEF Weight
<1>3. DOMAIN <<>> = {} /\ Len(<<>>) = 0
  OBVIOUS
<1>4. FStringsOpen(t, NewLexer)
  <2>1. AllEnd(t, NewLexer.pos, <<>>)
    BY <1>3 DEF AllEnd
  <2> QED BY <1>1, <2>1 DEF FStringsOpen
<1> QED BY <1>1, <1>2, <1>3, <1>4 DEF ReadInTime

LEMMA InTimeStep ==
  ASSUME NEW C, NEW t \in Seq(C), FStringsClose(t), NEW l, NEW toks,
         ReadOK(t, l, toks), ReadInTime(t, l, toks)
  PROVE  LET n == NextToken(t, l)
         IN  /\ ~ NeverReturns(t, l)
             /\ n.token.kind # "eof"
                  => ReadInTime(t, n.lexer, Append(toks, n.token))
<1> DEFINE n == NextToken(t, l)
           r == Append(toks, n.token)
<1>1. LexerOK(t, l) /\ l \in LexerState /\ toks \in Seq(Tok)
  BY DEF ReadOK, LexerOK
<1>2. ~ NeverReturns(t, l)
  BY <1>1, ClosedReturns DEF ReadInTime
<1>3. /\ n.lexer \in LexerState /\ Paid(l, n) /\ FStringsOpen(t, n.lexer)
  BY <1>1, <1>2, NextPaid DEF PaidAndOpen, ReadInTime
<1>4. ASSUME n.token.kind # "eof" PROVE ReadInTime(t, n.lexer, r)
  <2> HIDE DEF n
  <2> DEFINE a == l.pos
             b == n.lexer.pos
             w == Weight(l)
             v == Weight(n.lexer)
             x == Len(toks)
             z == Len(r)
  <2>1. /\ a \in Nat /\ b \in Nat /\ w \in Nat /\ v \in Nat /\ x \in Nat
    BY <1>1, <1>3, WeightType, LenProperties
  <2>2. z = x + 1
    BY <1>1
  <2>3. x + w <= 2 * a + 1
    BY DEF ReadInTime
  <2>4. 1 + v + 2 * a <= w + 2 * b
    BY <1>3, <1>4 DEF Paid
  <2> HIDE DEF a, b, w, v, x, z
  <2>5. z + v <= 2 * b + 1
    BY <2>1, <2>2, <2>3, <2>4
  <2> QED BY <1>3, <2>5 DEF ReadInTime, z, v, b
<1> QED BY <1>2, <1>4

\* Twice as many tokens as bytes at most.
LEMMA InTimeBound ==
  ASSUME NEW C, NEW t \in Seq(C), NEW l, NEW toks,
         ReadOK(t, l, toks), ReadInTime(t, l, toks)
  PROVE  Len(toks) <= 2 * Len(t)
<1> DEFINE a == l.pos
           x == Len(toks)
           i == Len(l.indents)
           p == Len(l.pending)
           f == Len(l.fstrings)
           w == Weight(l)
<1>1. /\ l \in LexerState /\ a \in Nat /\ a <= Len(t) /\ Len(t) \in Nat
      /\ x \in Nat /\ i >= 1
  BY LenProperties DEF ReadOK, LexerOK, LexerState, Rising
<1>2. i \in Nat /\ p \in Nat /\ f \in Nat /\ w = p + i + f
  BY <1>1, WeightType DEF Weight
<1>3. x + w <= 2 * a + 1
  BY DEF ReadInTime
<1> HIDE DEF a, x, i, p, f, w
<1>4. x <= 2 * Len(t)
  BY <1>1, <1>2, <1>3
<1> QED BY <1>4 DEF x

\* The bound on the calls of tokenize loses nothing: it reads every text in
\* which f-strings close to its end.
THEOREM TokenizeEnds ==
  ASSUME NEW C, NEW t \in Seq(C), FStringsClose(t)
  PROVE  Tokenize(t).over
<1> DEFINE N == 3 * Len(t) + 3
           f == CHOOSE g : IsRead(g, t)
           State(l, toks, o) == [lexer |-> l, tokens |-> toks, over |-> o]
           Good(r, n) ==
             \E l, toks, o :
               /\ r = State(l, toks, o) /\ ReadOK(t, l, toks)
               /\ o = TRUE \/ /\ o = FALSE /\ ReadInTime(t, l, toks)
                              /\ Len(toks) = n
           S == {n \in 0 .. N : Good(f[n], n)}
<1>1. Len(t) \in Nat
  BY LenProperties
<1>2. N \in Nat /\ N > 2 * Len(t)
  BY <1>1
<1>3. IsRead(f, t)
  BY <1>1, ReadExists
<1>4. Tokenize(t) = f[N]
  BY DEF Tokenize, IsRead
<1> HIDE DEF f
<1>5. f[0] = NothingRead /\ \A n \in 1 .. N : f[n] = ReadOne(t, f[n - 1])
  BY <1>2, <1>3 DEF IsRead
<1> HIDE DEF N
<1>6. 0 \in S
  <2>1. NothingRead = State(NewLexer, <<>>, FALSE)
    BY DEF NothingRead
  <2>2. ReadOK(t, NewLexer, <<>>) /\ ReadInTime(t, NewLexer, <<>>)
    BY ReadStart, InTimeStart
  <2>3. Len(<<>>) = 0
    OBVIOUS
  <2> HIDE DEF State
  <2>4. Good(NothingRead, 0)
    BY <2>1, <2>2, <2>3
  <2> HIDE DEF Good
  <2> QED BY <1>2, <1>5, <2>4
<1>7. ASSUME NEW r, NEW m \in Nat, Good(r, m) PROVE Good(ReadOne(t, r), m + 1)
  <2>1. PICK l, toks, o :
          /\ r = State(l, toks, o) /\ ReadOK(t, l, toks)
          /\ o = TRUE \/ /\ o = FALSE /\ ReadInTime(t, l, toks)
                         /\ Len(toks) = m
    BY <1>7
  <2> DEFINE n == NextToken(t, l)
  <2>2. r.lexer = l /\ r.tokens = toks /\ r.over = o
    BY <2>1
  <2>3. ReadOne(t, r) = IF o \/ NeverReturns(t, l) THEN r
                        ELSE IF n.token.kind = "eof"
                          THEN [r EXCEPT !.over = TRUE]
                        ELSE [r EXCEPT !.lexer = n.lexer,
                                       !.tokens = Append(@, n.token)]
    BY <2>2 DEF ReadOne
  <2>4. \/ n.token.kind = "eof"
        \/ n.token.kind # "eof" /\ ReadOK(t, n.lexer, Append(toks, n.token))
    BY <2>1, ReadStep
  <2>5. CASE o = TRUE
    <3>1. ReadOne(t, r) = State(l, toks, TRUE)
      <4> HIDE DEF State, n
      <4> QED BY <2>1, <2>3, <2>5
    <3> HIDE DEF State
    <3> QED BY <2>1, <3>1
  <2>6. CASE o = FALSE
    <3>1. ReadInTime(t, l, toks) /\ Len(toks) = m
      BY <2>1, <2>6
    <3>2. /\ ~ NeverReturns(t, l)
          /\ n.token.kind # "eof"
               => ReadInTime(t, n.lexer, Append(toks, n.token))
      BY <2>1, <3>1, InTimeStep
    <3> HIDE DEF n
    <3>3. CASE n.token.kind = "eof"
      <4>1. [r EXCEPT !.over = TRUE] = State(l, toks, TRUE)
        <5>1. \A v : [State(l, toks, o) EXCEPT !.over = v] = State(l, toks, v)
          OBVIOUS
        <5> HIDE DEF State
        <5> QED BY <2>1, <5>1
      <4>2. ReadOne(t, r) = State(l, toks, TRUE)
        BY <2>3, <2>6, <3>2, <3>3, <4>1, Zenon
      <4> HIDE DEF State
      <4> QED BY <2>1, <4>2
    <3>4. CASE n.token.kind # "eof"
      <4> DEFINE q == Append(toks, n.token)
      <4>1. ReadOne(t, r) = [r EXCEPT !.lexer = n.lexer,
                                      !.tokens = Append(@, n.token)]
        BY <2>3, <2>6, <3>2, <3>4, Zenon
      <4>2. ReadOne(t, r) = State(n.lexer, q, FALSE)
        <5>1. ReadOne(t, r) = State(n.lexer, q, o)
          BY <2>1, <2>2, <4>1
        <5> HIDE DEF State, q
        <5> QED BY <2>6, <5>1
      <4>3. Len(q) = m + 1
        <5>1. toks \in Seq(Tok)
          BY <2>1 DEF ReadOK
        <5> QED BY <3>1, <5>1
      <4>4. ReadOK(t, n.lexer, q) /\ ReadInTime(t, n.lexer, q)
        BY <2>4, <3>2, <3>4
      <4> HIDE DEF State, q
      <4> QED BY <4>2, <4>3, <4>4
    <3> QED BY <3>3, <3>4
  <2> HIDE DEF Good
  <2> QED BY <2>1, <2>5, <2>6
<1>8. N \in S
  <2>1. ASSUME NEW k \in 0 .. N - 1, k \in S PROVE k + 1 \in S
    <3>1. k + 1 \in 1 .. N /\ (k + 1) - 1 = k /\ k + 1 \in 0 .. N /\ k \in Nat
      BY <1>2
    <3>2. f[k + 1] = ReadOne(t, f[k])
      BY <1>5, <3>1
    <3>3. Good(f[k + 1], k + 1)
      <4> HIDE DEF Good
      <4> QED BY <1>7, <2>1, <3>1, <3>2
    <3> HIDE DEF Good
    <3> QED BY <3>1, <3>3
  <2> HIDE DEF S
  <2>2. \A k \in 0 .. N : k \in S
    BY <1>2, <1>6, <2>1, Upwards
  <2> QED BY <1>2, <2>2
<1>9. PICK l, toks, o :
        /\ f[N] = State(l, toks, o) /\ ReadOK(t, l, toks)
        /\ o = TRUE \/ /\ o = FALSE /\ ReadInTime(t, l, toks)
                       /\ Len(toks) = N
  <2>1. Good(f[N], N)
    <3> HIDE DEF Good
    <3> QED BY <1>8
  <2> HIDE DEF State
  <2> QED BY <2>1
<1>10. o = TRUE
  <2> SUFFICES ASSUME o = FALSE PROVE FALSE
    BY <1>9
  <2>1. Len(toks) <= 2 * Len(t) /\ Len(toks) = N
    BY <1>9, InTimeBound
  <2> QED BY <1>1, <1>2, <2>1
<1> QED BY <1>4, <1>9, <1>10

-------------------------------------------------------------------------------
(***************************************************************************)
(* The invariant of the specification, and what follows.                   *)
(***************************************************************************)
SliceFits == slice[1] <= slice[2] /\ slice[2] <= Len(text)

PhaseOK ==
  /\ phase \in {"reading", "read", "relexed"}
  /\ before \in Seq(STRING) /\ LexerOK(before, lexer)

ReadingOK ==
  /\ phase # "relexed" => text = before /\ ReadOK(before, lexer, tokens)
  /\ phase = "read" => lexer.pending = <<>> /\ Len(lexer.indents) = 1

RelexedOK ==
  (phase = "relexed" /\ NoComments(before)) => Ordered(tokens) /\ SliceFits

IInv == PhaseOK /\ ReadingOK /\ LogicalLines /\ RelexedOK

LEMMA StartInvariant == Init => IInv
<1> SUFFICES ASSUME Init PROVE IInv
  OBVIOUS
<1>1. /\ text \in Seq(STRING) /\ before = text /\ phase = "reading"
      /\ lexer = NewLexer /\ tokens = <<>>
  BY RelexingAssumption DEF Init
<1>2. ReadOK(before, lexer, tokens)
  BY <1>1, ReadStart
<1>3. LexerOK(before, lexer)
  BY <1>2 DEF ReadOK
<1> QED BY <1>1, <1>2, <1>3
       DEF IInv, PhaseOK, ReadingOK, LogicalLines, RelexedOK

LEMMA ReadTokenKeeps ==
  ASSUME IInv, ReadToken
  PROVE  IInv'
<1> DEFINE n == NextToken(text, lexer)
           r == Append(tokens, n.token)
<1>1. /\ phase = "reading" /\ lexer' = n.lexer
      /\ text' = text /\ before' = before /\ slice' = slice
      /\ IF n.token.kind = "eof" THEN phase' = "read" /\ tokens' = tokens
         ELSE tokens' = r /\ phase' = phase
  BY DEF ReadToken
<1>2. text = before /\ text \in Seq(STRING) /\ ReadOK(text, lexer, tokens)
  BY <1>1 DEF IInv, PhaseOK, ReadingOK
<1>3. \/ /\ n.token.kind = "eof" /\ ReadOK(text, n.lexer, tokens)
         /\ n.lexer.pending = <<>> /\ Len(n.lexer.indents) = 1
      \/ /\ n.token.kind # "eof" /\ ReadOK(text, n.lexer, r)
         /\ n.token.kind \in {"newline", "indent", "dedent"}
              => Opened(r)[Len(tokens)] = 0 \/ n.lexer.done
  BY <1>2, ReadStep
<1>4. n.token.kind # "eof" => n.token \in Tok /\ tokens \in Seq(Tok)
  <2>1. ASSUME n.token.kind # "eof" PROVE n.token \in Tok /\ tokens \in Seq(Tok)
    <3>1. r \in Seq(Tok) /\ tokens \in Seq(Tok)
      BY <1>2, <1>3, <2>1 DEF ReadOK
    <3>2. Len(tokens) \in Nat /\ Len(r) = Len(tokens) + 1
          /\ r[Len(tokens) + 1] = n.token
      BY <3>1
    <3> HIDE DEF r, n
    <3>3. Len(tokens) + 1 \in 1 .. Len(r)
      BY <3>2
    <3> QED BY <3>1, <3>2, <3>3, ElementOfSeq
  <2> QED BY <2>1
<1> HIDE DEF n
<1>5. CASE n.token.kind = "eof"
  <2>1. /\ phase' = "read" /\ tokens' = tokens
        /\ ReadOK(before', lexer', tokens') /\ text' = before'
        /\ lexer'.pending = <<>> /\ Len(lexer'.indents) = 1
        /\ before' \in Seq(STRING)
    BY <1>1, <1>2, <1>3, <1>5
  <2>2. LexerOK(before', lexer')
    BY <2>1 DEF ReadOK
  <2> QED BY <2>1, <2>2
         DEF IInv, PhaseOK, ReadingOK, LogicalLines, RelexedOK
<1>6. CASE n.token.kind # "eof"
  <2>1. /\ phase' = "reading" /\ tokens' = r
        /\ ReadOK(before', lexer', tokens') /\ text' = before'
        /\ before' \in Seq(STRING)
        /\ n.token.kind \in {"newline", "indent", "dedent"}
              => Opened(r)[Len(tokens)] = 0 \/ lexer'.done
    BY <1>1, <1>2, <1>3, <1>6
  <2>2. LexerOK(before', lexer')
    BY <2>1 DEF ReadOK
  <2>3. /\ Len(tokens) \in Nat /\ Len(r) = Len(tokens) + 1
        /\ r[Len(tokens) + 1] = n.token
    BY <1>4, <1>6, Appended
  <2> HIDE DEF r
  <2>4. LogicalLines'
    <3>1. SUFFICES ASSUME Opened(r)[Len(r) - 1] > 0
                   PROVE  \/ r[Len(r)].kind \notin {"newline", "indent", "dedent"}
                          \/ lexer'.done
      BY <2>1 DEF LogicalLines
    <3>2. Len(r) - 1 = Len(tokens) /\ r[Len(r)] = n.token
      BY <2>3
    <3>3. Opened(r)[Len(tokens)] # 0
      BY <3>1, <3>2
    <3> QED BY <2>1, <3>2, <3>3
  <2> QED BY <2>1, <2>2, <2>4 DEF IInv, PhaseOK, ReadingOK, RelexedOK
<1> QED BY <1>5, <1>6

LEMMA EditKeeps ==
  ASSUME IInv, Edit
  PROVE  IInv'
<1>1. /\ phase = "read" /\ phase' = "relexed" /\ lexer' = lexer
      /\ text = before /\ before \in Seq(STRING)
      /\ ReadOK(before, lexer, tokens) /\ LexerOK(before, lexer)
  BY DEF IInv, PhaseOK, ReadingOK, Edit
<1>2. PICK a \in 0 .. Len(text), d \in 0 .. MaxDeleted, ins \in Insertions :
        LET b   == a + d
            new == SubSeq(text, 1, a) \o ins \o SubSeq(text, b + 1, Len(text))
        IN  /\ b <= Len(text) /\ text' = new /\ before' = text
            /\ \E r \in {Relex(tokens, text, new, a, b, Len(ins),
                               FirstAffected(tokens, a))} :
                 tokens' = r.tokens /\ slice' = r.slice
  BY DEF Edit
<1> DEFINE b   == a + d
           u   == SubSeq(text, 1, a)
           w   == SubSeq(text, b + 1, Len(text))
           new == u \o ins \o w
           r   == Relex(tokens, text, new, a, b, Len(ins),
                        FirstAffected(tokens, a))
<1>3. /\ b <= Len(text) /\ text' = new /\ before' = text
      /\ tokens' = r.tokens /\ slice' = r.slice
  BY <1>2
<1>4. /\ Len(text) \in Nat /\ text \in Seq(STRING)
      /\ \A i \in 1 .. Len(text) : text[i] \in STRING
  BY <1>1, LenProperties, ElementOfSeq
<1>5. a \in Nat /\ b \in Nat /\ a <= b /\ a <= Len(text)
  BY <1>4, RelexingAssumption
<1>6. ins \in Seq(STRING) /\ Len(ins) \in Nat
  BY RelexingAssumption, LenProperties
<1> HIDE DEF b, r
<1>7. u \in Seq(STRING) /\ Len(u) = a
  <2>1. \A i \in 1 .. a : text[i] \in STRING
    BY <1>4, <1>5
  <2>2. u \in Seq(STRING) /\ Len(u) = IF 1 <= a THEN a - 1 + 1 ELSE 0
    BY <1>5, <2>1, SubSeqProperties
  <2> QED BY <1>5, <2>2
<1>8. w \in Seq(STRING) /\ Len(w) = Len(text) - b
  <2>1. \A i \in b + 1 .. Len(text) : text[i] \in STRING
    BY <1>4, <1>5
  <2>2. b + 1 \in Int /\ Len(text) \in Int
    BY <1>4, <1>5
  <2>3. w \in Seq(STRING)
    BY <2>1, <2>2, SubSeqProperties
  <2>4. Len(w) = IF b + 1 <= Len(text) THEN Len(text) - (b + 1) + 1 ELSE 0
    BY <2>1, <2>2, SubSeqProperties
  <2> QED BY <1>3, <1>4, <1>5, <2>3, <2>4
<1> HIDE DEF u, w
<1>9. new \in Seq(STRING) /\ Len(new) = Len(text) + Len(ins) - (b - a)
  <2>1. u \o ins \in Seq(STRING) /\ Len(u \o ins) = a + Len(ins)
    BY <1>6, <1>7, ConcatProperties
  <2>2. new \in Seq(STRING) /\ Len(new) = Len(u \o ins) + Len(w)
    BY <1>8, <2>1, ConcatProperties
  <2> HIDE DEF new
  <2> QED BY <1>4, <1>5, <1>6, <1>8, <2>1, <2>2
<1> HIDE DEF new
<1>10. NoComments(before)
         => /\ Ordered(r.tokens)
            /\ r.slice[1] <= r.slice[2] /\ r.slice[2] <= Len(new)
  BY <1>1, <1>3, <1>4, <1>5, <1>6, <1>9, RelexOrdered DEF r
<1>11. RelexedOK'
  BY <1>1, <1>3, <1>10 DEF RelexedOK, SliceFits
<1>12. PhaseOK' /\ ReadingOK' /\ LogicalLines'
  BY <1>1, <1>3 DEF PhaseOK, ReadingOK, LogicalLines
<1> QED BY <1>11, <1>12 DEF IInv

LEMMA InvariantHolds == Spec => []IInv
<1>1. IInv /\ [Next]_vars => IInv'
  <2> SUFFICES ASSUME IInv, [Next]_vars PROVE IInv'
    OBVIOUS
  <2>1. CASE ReadToken
    BY <2>1, ReadTokenKeeps
  <2>2. CASE Edit
    BY <2>2, EditKeeps
  <2>3. CASE Recurse \/ UNCHANGED vars
    BY <2>3 DEF Recurse, vars, IInv, PhaseOK, ReadingOK, LogicalLines,
                RelexedOK, SliceFits
  <2> QED BY <2>1, <2>2, <2>3 DEF Next
<1> QED BY <1>1, StartInvariant, PTL DEF Spec

\* The lexer's position lies in the text, its indentations rise, and depths
\* are never below zero.
THEOREM TypeCorrect == Spec => []TypeOK
<1>1. IInv => TypeOK
  <2> SUFFICES ASSUME IInv PROVE TypeOK
    OBVIOUS
  <2>1. /\ phase \in {"reading", "read", "relexed"}
        /\ lexer \in LexerState /\ lexer.pos <= Len(before)
        /\ Rising(lexer.indents) /\ Len(before) \in Nat
    BY LenProperties DEF IInv, PhaseOK, LexerOK
  <2>2. /\ lexer.pos \in Nat /\ lexer.depth \in Nat
        /\ lexer.fstrings \in Seq(FString)
    BY <2>1 DEF LexerState
  <2>3. lexer.fresh \in BOOLEAN /\ lexer.done \in BOOLEAN
    BY <2>1 DEF LexerState
  <2>4. \A i \in DOMAIN lexer.fstrings : lexer.fstrings[i] \in FString
    BY <2>2, LenProperties, ElementOfSeq
  <2>5. \A i \in DOMAIN lexer.fstrings : lexer.fstrings[i].braces \in Nat
    BY <2>4 DEF FString
  <2>6. lexer.pos \in 0 .. Len(before)
    BY <2>1, <2>2
  <2> QED BY <2>1, <2>2, <2>3, <2>5, <2>6 DEF TypeOK, Rising
<1> QED BY <1>1, InvariantHolds, PTL

\* No byte a reader sees is lost or read twice, whatever the text.
THEOREM BytesReadOnce == Spec => []BytesOnce
<1>1. IInv => BytesOnce
  <2> SUFFICES ASSUME IInv, phase # "relexed",
                      NEW o \in 0 .. lexer.pos - 1, Visible(o)
               PROVE  LET known == tokens \o lexer.pending
                      IN  Cardinality({i \in DOMAIN known :
                                         Covers(known[i], o)}) = 1
    BY DEF BytesOnce
  <2> DEFINE p == lexer.pending
             M == Len(tokens)
             N == Len(p)
             r == tokens \o p
             T == {i \in DOMAIN r : Covers(r[i], o)}
  <2>1. /\ ReadOK(text, lexer, tokens) /\ tokens \in Seq(Tok) /\ p \in Seq(Tok)
    BY DEF IInv, ReadingOK, ReadOK, LexerOK, LexerState
  <2>2. \/ OneOf(tokens, o) /\ NoneOf(p, o)
        \/ NoneOf(tokens, o) /\ OneOf(p, o)
    <3>1. At(text, o) \notin Unseen
      BY DEF Visible, Unseen
    <3> QED BY <2>1, <3>1 DEF ReadOK, KnownOnce
  <2>3. /\ M \in Nat /\ N \in Nat /\ DOMAIN tokens = 1 .. M /\ DOMAIN p = 1 .. N
        /\ r \in Seq(Tok) /\ Len(r) = M + N
        /\ \A i \in 1 .. M + N : r[i] = IF i <= M THEN tokens[i] ELSE p[i - M]
    BY <2>1, LenProperties, ConcatProperties
  <2>4. DOMAIN r = 1 .. M + N
    BY <2>3, LenProperties
  <2> HIDE DEF r, p, M, N
  <2>5. /\ \A i \in 1 .. M : i \in DOMAIN r /\ r[i] = tokens[i]
        /\ \A i \in 1 .. N : M + i \in DOMAIN r /\ r[M + i] = p[i]
        /\ \A i \in DOMAIN r : \/ i \in 1 .. M
                               \/ i - M \in 1 .. N /\ i = M + (i - M)
    BY <2>3, <2>4
  <2>6. CASE OneOf(tokens, o) /\ NoneOf(p, o)
    <3>1. PICK x \in 1 .. M : /\ Spans(tokens[x], o)
                              /\ \A j \in 1 .. M : Spans(tokens[j], o) => j = x
      BY <2>3, <2>6 DEF OneOf
    <3>2. \A j \in 1 .. N : ~ Spans(p[j], o)
      BY <2>3, <2>6 DEF NoneOf
    <3>3. x \in T
      BY <2>5, <3>1 DEF Covers, Spans
    <3>4. ASSUME NEW i \in T PROVE i = x
      <4>1. i \in DOMAIN r /\ Spans(r[i], o)
        BY DEF Covers, Spans
      <4>2. CASE i \in 1 .. M
        BY <2>5, <3>1, <4>1, <4>2
      <4>3. CASE i - M \in 1 .. N /\ i = M + (i - M)
        <5>1. r[i] = p[i - M]
          BY <2>5, <4>3
        <5> QED BY <3>2, <4>1, <4>3, <5>1
      <4> QED BY <2>5, <4>1, <4>2, <4>3
    <3> HIDE DEF T
    <3>5. T = {x}
      BY <3>3, <3>4
    <3> QED BY <3>5, FS_Singleton DEF T, r, p
  <2>7. CASE NoneOf(tokens, o) /\ OneOf(p, o)
    <3>1. PICK x \in 1 .. N : /\ Spans(p[x], o)
                              /\ \A j \in 1 .. N : Spans(p[j], o) => j = x
      BY <2>3, <2>7 DEF OneOf
    <3>2. \A j \in 1 .. M : ~ Spans(tokens[j], o)
      BY <2>3, <2>7 DEF NoneOf
    <3>3. M + x \in T
      BY <2>5, <3>1 DEF Covers, Spans
    <3>4. ASSUME NEW i \in T PROVE i = M + x
      <4>1. i \in DOMAIN r /\ Spans(r[i], o)
        BY DEF Covers, Spans
      <4>2. CASE i \in 1 .. M
        BY <2>5, <3>2, <4>1, <4>2
      <4>3. CASE i - M \in 1 .. N /\ i = M + (i - M)
        <5>1. r[i] = p[i - M]
          BY <2>5, <4>3
        <5>2. i - M = x
          BY <3>1, <4>1, <4>3, <5>1
        <5> QED BY <4>3, <5>2
      <4> QED BY <2>5, <4>1, <4>2, <4>3
    <3> HIDE DEF T
    <3>5. T = {M + x}
      BY <3>3, <3>4
    <3> QED BY <3>5, FS_Singleton DEF T, r, p
  <2> QED BY <2>2, <2>6, <2>7
<1> QED BY <1>1, InvariantHolds, PTL

\* Tokens are in the order of the text, as read and, if the old text has no
\* comments, as put together by relex.
THEOREM TokensOrdered == Spec => []InOrder
<1>1. IInv => InOrder
  <2> SUFFICES ASSUME IInv, phase = "relexed" => NoComments(before)
               PROVE  Ordered(tokens)
    BY DEF InOrder, NoComments, Ordered
  <2>1. CASE phase = "relexed"
    BY <2>1 DEF IInv, RelexedOK
  <2>2. CASE phase # "relexed"
    BY <2>2 DEF IInv, ReadingOK, ReadOK, Placed
  <2> QED BY <2>1, <2>2
<1> QED BY <1>1, InvariantHolds, PTL

\* No dedent comes before its indent, and all blocks are closed in the end.
THEOREM BlocksBalanced == Spec => []BlocksBalance
<1>1. IInv => BlocksBalance
  <2> SUFFICES ASSUME IInv, phase # "relexed" PROVE BlocksBalance
    BY DEF BlocksBalance
  <2> DEFINE N == Len(tokens)
             I == Number(tokens, {"indent"}, N)
             D == Number(tokens, {"dedent"}, N)
  <2>1. PICK d, m : /\ Stack(text, lexer.pending, d, m)
                    /\ BlocksCounted(lexer, tokens, m)
    BY DEF IInv, ReadingOK, ReadOK
  <2>2. tokens \in Seq(Tok)
    BY DEF IInv, ReadingOK, ReadOK
  <2>3. N \in Nat /\ DOMAIN tokens = 1 .. N
    BY <2>2, LenProperties
  <2>4. \A kinds, n : Count(kinds, n) = Number(tokens, kinds, n)
    BY DEF Count, Number
  <2>5. \A n \in DOMAIN tokens : Count({"dedent"}, n) <= Count({"indent"}, n)
    <3>1. \A n \in DOMAIN tokens : n \in 0 .. N
      BY <2>3
    <3>2. \A n \in 0 .. N : Number(tokens, {"dedent"}, n)
                              <= Number(tokens, {"indent"}, n)
      BY <2>1 DEF BlocksCounted
    <3> QED BY <2>4, <3>1, <3>2
  <2>6. ASSUME phase = "read"
        PROVE  Count({"dedent"}, N) = Count({"indent"}, N)
    <3>1. lexer.pending = <<>> /\ Len(lexer.indents) = 1
      BY <2>6 DEF IInv, ReadingOK
    <3>2. m = 0
      BY <2>1, <3>1 DEF Stack
    <3>3. D + 0 + 1 = I + 1
      BY <2>1, <3>1, <3>2 DEF BlocksCounted
    <3>4. D \in Nat /\ I \in Nat
      BY <2>3, NumberType
    <3> HIDE DEF D, I
    <3>5. D = I
      BY <3>3, <3>4
    <3> QED BY <2>4, <3>5 DEF D, I
  <2> QED BY <2>5, <2>6 DEF BlocksBalance
<1> QED BY <1>1, InvariantHolds, PTL

\* Inside brackets no newline is returned and no block begins or ends.
THEOREM LinesAreLogical == Spec => []LogicalLines
<1>1. IInv => LogicalLines
  BY DEF IInv
<1> QED BY <1>1, InvariantHolds, PTL

\* What relex reads again is a slice of the new text: indexing it does not
\* panic, if the old text has no comments.
THEOREM RegionIsInText == Spec => []RegionIsSlice
<1>1. IInv => RegionIsSlice
  <2> SUFFICES ASSUME IInv, phase = "relexed", NoComments(before)
               PROVE  SliceFits
    BY DEF RegionIsSlice, NoComments, SliceFits
  <2> QED BY DEF IInv, RelexedOK
<1> QED BY <1>1, InvariantHolds, PTL

\* Every text is read to its end: next_token returns whenever it is called,
\* and there are twice as many tokens as bytes at most.
TimeOK ==
  (phase = "reading" /\ FStringsClose(text)) => ReadInTime(text, lexer, tokens)

LEMMA TimeKept ==
  ASSUME IInv, TimeOK, [Next]_vars
  PROVE  TimeOK'
<1> DEFINE n == NextToken(text, lexer)
<1> SUFFICES ASSUME phase' = "reading", FStringsClose(text')
             PROVE  ReadInTime(text', lexer', tokens')
  BY DEF TimeOK
<1>1. CASE ReadToken
  <2>1. /\ phase = "reading" /\ lexer' = n.lexer /\ text' = text
        /\ IF n.token.kind = "eof" THEN phase' = "read"
           ELSE tokens' = Append(tokens, n.token)
    BY <1>1 DEF ReadToken
  <2>2. /\ text \in Seq(STRING) /\ ReadOK(text, lexer, tokens)
        /\ FStringsClose(text) /\ ReadInTime(text, lexer, tokens)
    BY <2>1 DEF IInv, PhaseOK, ReadingOK, TimeOK
  <2>3. n.token.kind # "eof"
          => ReadInTime(text, n.lexer, Append(tokens, n.token))
    BY <2>2, InTimeStep
  <2> HIDE DEF n
  <2> QED BY <2>1, <2>3
<1>2. CASE Edit
  BY <1>2 DEF Edit
<1>3. CASE Recurse \/ UNCHANGED vars
  <2>1. UNCHANGED <<text, lexer, tokens, phase>>
    BY <1>3 DEF Recurse, vars
  <2> QED BY <2>1 DEF TimeOK
<1> QED BY <1>1, <1>2, <1>3 DEF Next

THEOREM TextsAreRead == Spec => []EveryTextIsRead
<1>1. Init => TimeOK
  <2> SUFFICES ASSUME Init PROVE ReadInTime(text, lexer, tokens)
    BY DEF TimeOK
  <2>1. text \in Seq(STRING) /\ lexer = NewLexer /\ tokens = <<>>
    BY RelexingAssumption DEF Init
  <2> QED BY <2>1, InTimeStart
<1>2. IInv /\ TimeOK /\ [Next]_vars => TimeOK'
  BY TimeKept
<1>3. IInv /\ TimeOK => EveryTextIsRead
  <2> SUFFICES ASSUME IInv, TimeOK, phase = "reading", FStringsClose(text)
               PROVE  /\ ~ NeverReturns(text, lexer)
                      /\ Len(tokens) <= 2 * Len(text)
    BY DEF EveryTextIsRead
  <2>1. /\ text \in Seq(STRING) /\ ReadOK(text, lexer, tokens)
        /\ ReadInTime(text, lexer, tokens)
    BY DEF IInv, PhaseOK, ReadingOK, TimeOK
  <2> QED BY <2>1, InTimeStep, InTimeBound
<1> QED BY <1>1, <1>2, <1>3, InvariantHolds, PTL DEF Spec
-------------------------------------------------------------------------------
(***************************************************************************)
(* Texts that can be read line by line, of which a part is read alone: all *)
(* of it from the start of a line on, or up to a newline.                  *)
(***************************************************************************)
Slice(t, k, v) ==
  /\ k + Len(v) <= Len(t)
  /\ \A i \in 1 .. Len(v) : v[i] = t[k + i]
  /\ LineByLine(v)
  /\ k + Len(v) < Len(t)
       => At(t, k + Len(v)) = "nl" /\ Len(v) > 0 /\ v[Len(v)] # "nl"

\* The bytes of the part, and what is seen at its end.
LEMMA SliceAt ==
  ASSUME NEW C, NEW t \in Seq(C), NEW v \in Seq(C), NEW k \in Nat, Slice(t, k, v),
         NEW o \in 0 .. Len(v)
  PROVE  /\ o < Len(v) => At(v, o) = v[o + 1] /\ At(t, k + o) = v[o + 1]
         /\ o = Len(v) => At(v, o) = "end" /\ At(t, k + o) \in {"nl", "end"}
         /\ \A c : c # "nl" /\ c # "end" => (At(v, o) = c <=> At(t, k + o) = c)
<1>1. Len(t) \in Nat /\ Len(v) \in Nat
  BY LenProperties
<1>2. CASE o < Len(v)
  <2>1. o + 1 \in 1 .. Len(v) /\ k + o < Len(t)
    BY <1>1, <1>2 DEF Slice
  <2>2. At(t, k + o) = t[k + (o + 1)]
    BY <1>1, <2>1 DEF At
  <2>3. At(v, o) = v[o + 1]
    BY <1>1, <1>2 DEF At
  <2> QED BY <1>2, <2>1, <2>2, <2>3 DEF Slice
<1>3. CASE o = Len(v)
  <2>1. At(v, o) = "end"
    BY <1>1, <1>3 DEF At
  <2>2. k + o < Len(t) => At(t, k + o) = "nl"
    BY <1>3 DEF Slice
  <2>3. ~ (k + o < Len(t)) => At(t, k + o) = "end"
    BY <1>1 DEF At
  <2> QED BY <1>1, <1>3, <2>1, <2>2, <2>3
<1> QED BY <1>1, <1>2, <1>3

\* Two loops that go alike end alike.
LEMMA FollowAlike ==
  ASSUME NEW n \in Nat, NEW m \in Nat, NEW k \in Nat, k + n <= m,
         NEW f \in Loop(n), NEW g \in Loop(m), NEW T \in SUBSET (0 .. n),
         \A p \in T : f[p] \in T /\ g[k + p] = k + f[p], NEW o \in T
  PROVE  Follow(g)[k + o] = k + Follow(f)[o]
<1> DEFINE S == {p \in 0 .. n : p \in T => Follow(g)[k + p] = k + Follow(f)[p]}
<1>1. ASSUME NEW p \in 0 .. n, \A j \in p + 1 .. n : j \in S
      PROVE  p \in S
  <2> SUFFICES ASSUME p \in T PROVE Follow(g)[k + p] = k + Follow(f)[p]
    OBVIOUS
  <2>1. /\ Follow(f)[p] = IF f[p] = p THEN p ELSE Follow(f)[f[p]]
        /\ Follow(g)[k + p]
             = IF g[k + p] = k + p THEN k + p ELSE Follow(g)[g[k + p]]
    <3>1. k + p \in 0 .. m
      OBVIOUS
    <3> QED BY <3>1, FollowDef
  <2>2. f[p] \in T /\ g[k + p] = k + f[p] /\ f[p] \in p .. n
    BY DEF Loop
  <2>3. CASE f[p] = p
    BY <2>1, <2>2, <2>3
  <2>4. CASE f[p] # p
    <3>1. f[p] \in p + 1 .. n /\ g[k + p] # k + p
      BY <2>2, <2>4
    <3>2. f[p] \in S
      BY <1>1, <3>1
    <3> QED BY <2>1, <2>2, <2>4, <3>1, <3>2
  <2> QED BY <2>3, <2>4
<1>2. \A p \in 0 .. n : p \in S
  <2> HIDE DEF S
  <2>1. \A p \in 0 .. n : (\A j \in p + 1 .. n : j \in S) => p \in S
    BY <1>1
  <2> QED BY <2>1, Downwards
<1> QED BY <1>2

LEMMA PassIs ==
  ASSUME NEW C, NEW t \in Seq(C), NEW o \in 0 .. Len(t), NEW bytes,
         NEW e \in o .. Len(t), \A i \in o .. e - 1 : At(t, i) \in bytes,
         e = Len(t) \/ At(t, e) \notin bytes
  PROVE  Pass(t, o, bytes) = e
<1> DEFINE p == Pass(t, o, bytes)
<1>1. /\ p \in o .. Len(t) /\ \A i \in o .. p - 1 : At(t, i) \in bytes
      /\ p = Len(t) \/ At(t, p) \notin bytes
  BY PassEnds
<1>2. Len(t) \in Nat
  BY LenProperties
<1> HIDE DEF p
<1>3. ~ p < e
  <2> SUFFICES ASSUME p < e PROVE FALSE
    OBVIOUS
  <2>1. p \in o .. e - 1 /\ p # Len(t)
    BY <1>1, <1>2
  <2> QED BY <1>1, <2>1
<1>4. ~ e < p
  <2> SUFFICES ASSUME e < p PROVE FALSE
    OBVIOUS
  <2>1. e \in o .. p - 1 /\ e # Len(t)
    BY <1>1, <1>2
  <2> QED BY <1>1, <2>1
<1>5. p = e
  BY <1>1, <1>2, <1>3, <1>4
<1> QED BY <1>5 DEF p

LEMMA PassAlike ==
  ASSUME NEW C, NEW t \in Seq(C), NEW v \in Seq(C), NEW k \in Nat, Slice(t, k, v),
         NEW o \in 0 .. Len(v), NEW B, NEW D, "nl" \notin D,
         \A i \in 0 .. Len(v) - 1 : At(v, i) \in B <=> At(t, k + i) \in D
  PROVE  Pass(t, k + o, D) = k + Pass(v, o, B)
<1> DEFINE e == Pass(v, o, B)
<1>1. Len(t) \in Nat /\ Len(v) \in Nat /\ k + Len(v) <= Len(t)
  BY LenProperties DEF Slice
<1>2. /\ e \in o .. Len(v) /\ \A i \in o .. e - 1 : At(v, i) \in B
      /\ e = Len(v) \/ At(v, e) \notin B
  BY PassEnds
<1> HIDE DEF e
<1>3. k + o \in 0 .. Len(t) /\ k + e \in k + o .. Len(t)
  BY <1>1, <1>2
<1>4. ASSUME NEW i \in k + o .. (k + e) - 1 PROVE At(t, i) \in D
  <2>1. i - k \in o .. e - 1 /\ i - k \in 0 .. Len(v) - 1 /\ i = k + (i - k)
    BY <1>1, <1>2
  <2> QED BY <1>2, <2>1
<1>5. k + e = Len(t) \/ At(t, k + e) \notin D
  <2>1. CASE e = Len(v)
    BY <1>1, <2>1 DEF Slice
  <2>2. CASE e # Len(v)
    <3>1. e \in 0 .. Len(v) - 1
      BY <1>1, <1>2, <2>2
    <3> QED BY <1>2, <2>2, <3>1
  <2> QED BY <2>1, <2>2
<1>6. Pass(t, k + o, D) = k + e
  BY <1>3, <1>4, <1>5, PassIs
<1> QED BY <1>6 DEF e

\* The bytes such a text has.
LEMMA LineBytes ==
  ASSUME NEW C, NEW v \in Seq(C), LineByLine(v), NEW o \in Nat
  PROVE  /\ At(v, o) \notin {"#", "\\"} \cup Opener \cup Closer
         /\ At(v, o) \in Quote => ~ Thrice(v, o, At(v, o))
         /\ At(v, o) \in Blank => o > 0 /\ v[o] # "nl"
<1>1. Len(v) \in Nat /\ DOMAIN v = 1 .. Len(v)
  BY LenProperties
<1>2. CASE o < Len(v)
  <2>1. o + 1 \in DOMAIN v /\ At(v, o) = v[o + 1] /\ (o + 1) - 1 = o
    BY <1>1, <1>2 DEF At
  <2> QED BY <2>1 DEF LineByLine
<1>3. CASE ~ (o < Len(v))
  <2>1. At(v, o) = "end"
    BY <1>3 DEF At
  <2> QED BY <2>1 DEF Opener, Closer, Quote, Blank
<1> QED BY <1>2, <1>3

LEMMA ThriceAlike ==
  ASSUME NEW C, NEW t \in Seq(C), NEW v \in Seq(C), NEW k \in Nat, Slice(t, k, v),
         NEW o \in 0 .. Len(v), NEW q, q # "nl", q # "end"
  PROVE  Thrice(v, o, q) <=> Thrice(t, k + o, q)
<1>1. Len(v) \in Nat
  BY LenProperties
<1>2. \A x \in 0 .. Len(v) : At(v, x) = q <=> At(t, k + x) = q
  BY SliceAt
<1>3. At(v, Len(v)) # q /\ At(t, k + Len(v)) # q
  BY <1>1, SliceAt
<1>4. Thrice(v, o, q) <=> At(v, o) = q /\ At(v, o + 1) = q /\ At(v, o + 2) = q
  BY DEF Thrice
<1>5. Thrice(t, k + o, q)
        <=> At(t, k + o) = q /\ At(t, k + o + 1) = q /\ At(t, k + o + 2) = q
  BY DEF Thrice
<1>6. CASE At(v, o) = q
  <2>1. o + 1 \in 0 .. Len(v) /\ k + (o + 1) = k + o + 1
    BY <1>1, <1>3, <1>6
  <2>2. CASE At(v, o + 1) = q
    <3>1. o + 2 \in 0 .. Len(v) /\ k + (o + 2) = k + o + 2
      <4>1. o + 1 # Len(v)
        BY <1>3, <2>2
      <4> QED BY <1>1, <2>1, <4>1
    <3> QED BY <1>2, <1>4, <1>5, <1>6, <2>1, <2>2, <3>1
  <2> QED BY <1>2, <1>4, <1>5, <1>6, <2>1, <2>2
<1> QED BY <1>2, <1>4, <1>5, <1>6

LEMMA WhitespaceAlike ==
  ASSUME NEW C, NEW t \in Seq(C), NEW v \in Seq(C), NEW k \in Nat, Slice(t, k, v),
         NEW o \in 0 .. Len(v)
  PROVE  LET e == SkipWhitespace(v, 0)[o]
         IN  /\ e \in o .. Len(v) /\ At(v, e) \notin Blank
             /\ e = o \/ v[e] \in Blank
             /\ SkipWhitespace(t, 0)[k + o] = k + e
<1> DEFINE f == PassWhitespace(v, 0)
           g == PassWhitespace(t, 0)
           e == Follow(f)[o]
           T == 0 .. Len(v)
           B == {p \in 0 .. Len(v) : p = o \/ v[p] \in Blank}
<1>1. Len(t) \in Nat /\ Len(v) \in Nat /\ k + Len(v) <= Len(t)
  BY LenProperties DEF Slice
<1>2. f \in Loop(Len(v)) /\ g \in Loop(Len(t))
  BY WhitespaceLoop
<1>3. ASSUME NEW p \in T
      PROVE  /\ f[p] = IF At(v, p) \in Blank THEN p + 1 ELSE p
             /\ g[k + p] = k + f[p]
  <2>1. /\ At(v, p) # "\\" /\ At(t, k + p) # "\\"
        /\ At(v, p) \in Blank <=> At(t, k + p) \in Blank
    <3>1. At(v, p) # "\\"
      BY <1>1, LineBytes DEF Slice
    <3>2. \A c : c # "nl" /\ c # "end" => (At(v, p) = c <=> At(t, k + p) = c)
      BY SliceAt
    <3> QED BY <3>1, <3>2 DEF Blank
  <2>2. k + p \in 0 .. Len(t)
    BY <1>1
  <2>3. f[p] = IF At(v, p) \in Blank THEN p + 1 ELSE p
    BY <2>1 DEF PassWhitespace
  <2>4. g[k + p] = IF At(t, k + p) \in Blank THEN k + p + 1 ELSE k + p
    BY <2>1, <2>2 DEF PassWhitespace
  <2> HIDE DEF f, g
  <2> QED BY <1>1, <2>1, <2>3, <2>4
<1>4. \A p \in T : f[p] \in T /\ p <= f[p]
  BY <1>1, <1>2 DEF Loop
<1> HIDE DEF f, g
<1>5. Follow(g)[k + o] = k + e
  <2>1. \A p \in T : f[p] \in T /\ g[k + p] = k + f[p]
    BY <1>3, <1>4
  <2>2. T \in SUBSET (0 .. Len(v)) /\ o \in T
    OBVIOUS
  <2> HIDE DEF T
  <2> QED BY <1>1, <1>2, <2>1, <2>2, FollowAlike
<1>6. e \in o .. Len(v) /\ f[e] = e
  BY <1>1, <1>2, FollowEnds
<1>7. e \in B
  <2>1. \A p \in B : f[p] \in B
    <3> SUFFICES ASSUME NEW p \in B PROVE f[p] \in B
      OBVIOUS
    <3>1. p \in T /\ p \in Nat
      BY <1>1
    <3>2. CASE At(v, p) \in Blank
      <4>1. f[p] = p + 1 /\ p + 1 \in 0 .. Len(v)
        BY <1>3, <1>4, <3>1, <3>2
      <4>2. p < Len(v)
        BY <1>1, <3>1, <4>1
      <4>3. v[p + 1] \in Blank
        BY <3>2, <4>2 DEF At
      <4> QED BY <4>1, <4>3
    <3>3. CASE At(v, p) \notin Blank
      BY <1>3, <3>1, <3>3
    <3> QED BY <3>2, <3>3
  <2>2. B \in SUBSET (0 .. Len(v)) /\ o \in B
    OBVIOUS
  <2> HIDE DEF B
  <2> QED BY <1>1, <1>2, <2>1, <2>2, FollowKeeps
<1>8. At(v, e) \notin Blank
  BY <1>1, <1>3, <1>6
<1> QED BY <1>5, <1>6, <1>7, <1>8 DEF SkipWhitespace, f, g

\* Strings and the literals of f-strings end in their line.
LEMMA LoopInLine ==
  ASSUME NEW C, NEW t \in Seq(C), NEW v \in Seq(C), NEW k \in Nat, Slice(t, k, v),
         NEW o \in 0 .. Len(v), NEW q \in Quote,
         NEW f \in Loop(Len(v)), NEW g \in Loop(Len(t)),
         \A p \in 0 .. Len(v) :
           f[p] = IF p = Len(v) \/ At(v, p) \in {"nl", q} THEN p ELSE p + 1,
         \A p \in 0 .. Len(v) :
           g[k + p] = IF k + p = Len(t) \/ At(t, k + p) \in {"nl", q} THEN k + p
                      ELSE k + p + 1
  PROVE  LET e == Follow(f)[o]
         IN  /\ e \in o .. Len(v) /\ (e = o \/ v[e] # "nl")
             /\ Follow(g)[k + o] = k + e
             /\ At(v, e) = q <=> At(t, k + e) = q
<1> DEFINE e == Follow(f)[o]
           T == 0 .. Len(v)
           B == {p \in 0 .. Len(v) : p = o \/ v[p] # "nl"}
<1>1. Len(t) \in Nat /\ Len(v) \in Nat /\ k + Len(v) <= Len(t)
  BY LenProperties DEF Slice
<1>2. \A p \in T : f[p] \in T /\ p <= f[p]
  BY <1>1 DEF Loop
<1>3. ASSUME NEW p \in T PROVE g[k + p] = k + f[p]
  <2>1. k + p \in 0 .. Len(t)
    BY <1>1
  <2>2. CASE p = Len(v)
    <3>1. k + p = Len(t) \/ At(t, k + p) = "nl"
      BY <1>1, <2>2 DEF Slice
    <3> QED BY <2>1, <2>2, <3>1
  <2>3. CASE p # Len(v)
    <3>1. At(v, p) = At(t, k + p) /\ k + p # Len(t)
      BY <1>1, <2>3, SliceAt
    <3>2. f[p] = IF At(v, p) \in {"nl", q} THEN p ELSE p + 1
      BY <1>1, <2>3
    <3>3. g[k + p] = IF At(t, k + p) \in {"nl", q} THEN k + p ELSE k + p + 1
      BY <1>1, <3>1
    <3>4. p \in Nat /\ k + p + 1 = k + (p + 1)
      BY <1>1
    <3> HIDE DEF T
    <3> QED BY <3>1, <3>2, <3>3, <3>4
  <2> QED BY <2>2, <2>3
<1>4. Follow(g)[k + o] = k + e
  <2>1. T \in SUBSET (0 .. Len(v)) /\ o \in T
    OBVIOUS
  <2> HIDE DEF T
  <2> QED BY <1>1, <1>2, <1>3, <2>1, FollowAlike, SMTT(30)
<1>5. e \in o .. Len(v) /\ f[e] = e
  BY <1>1, FollowEnds
<1>6. e \in B
  <2>1. \A p \in B : f[p] \in B
    <3> SUFFICES ASSUME NEW p \in B, f[p] # p PROVE f[p] \in B
      OBVIOUS
    <3>1. f[p] = p + 1 /\ At(v, p) # "nl" /\ p # Len(v) /\ p \in Nat
      BY <1>1
    <3>2. v[p + 1] # "nl" /\ p + 1 \in 0 .. Len(v)
      BY <1>1, <3>1 DEF At
    <3> QED BY <3>1, <3>2
  <2>2. B \in SUBSET (0 .. Len(v)) /\ o \in B
    OBVIOUS
  <2> HIDE DEF B
  <2> QED BY <1>1, <2>1, <2>2, FollowKeeps
<1>7. At(v, e) = q <=> At(t, k + e) = q
  <2>1. e \in 0 .. Len(v) /\ q # "nl" /\ q # "end"
    BY <1>1, <1>5, QuoteIsByte
  <2> HIDE DEF e
  <2> QED BY <2>1, SliceAt
<1> QED BY <1>4, <1>5, <1>6, <1>7

LineString(t, o, q) == ScanString(t, o, q, FALSE)

LEMMA StringAlike ==
  ASSUME NEW C, NEW t \in Seq(C), NEW v \in Seq(C), NEW k \in Nat, Slice(t, k, v),
         NEW o \in 0 .. Len(v), NEW q \in Quote
  PROVE  LET r == LineString(v, o, q)
             x == LineString(t, k + o, q)
         IN  /\ r.end \in o .. Len(v) /\ (r.end = o \/ v[r.end] # "nl")
             /\ r.kind \in {"string", "error"}
             /\ x.kind = r.kind /\ x.end = k + r.end
<1> DEFINE f == PassString(v, q, FALSE)
           g == PassString(t, q, FALSE)
           e == Follow(f)[o]
           r == ScanString(v, o, q, FALSE)
           x == ScanString(t, k + o, q, FALSE)
<1>1. Len(t) \in Nat /\ Len(v) \in Nat /\ k + Len(v) <= Len(t)
  BY LenProperties DEF Slice
<1>2. f \in Loop(Len(v)) /\ g \in Loop(Len(t))
  BY StringLoop
<1>3. ASSUME NEW p \in 0 .. Len(v)
      PROVE  f[p] = IF p = Len(v) \/ At(v, p) \in {"nl", q} THEN p ELSE p + 1
  <2>1. At(v, p) # "\\"
    BY <1>1, LineBytes DEF Slice
  <2> QED BY <2>1 DEF PassString, StopsString
<1>4. ASSUME NEW p \in 0 .. Len(v)
      PROVE  g[k + p] = IF k + p = Len(t) \/ At(t, k + p) \in {"nl", q} THEN k + p
                        ELSE k + p + 1
  <2>1. At(t, k + p) # "\\"
    <3>1. At(v, p) # "\\"
      BY <1>1, LineBytes DEF Slice
    <3> QED BY <3>1, SliceAt
  <2>2. k + p \in 0 .. Len(t)
    BY <1>1
  <2> QED BY <2>1, <2>2 DEF PassString, StopsString
<1> HIDE DEF f, g
<1>5. /\ e \in o .. Len(v) /\ (e = o \/ v[e] # "nl")
      /\ Follow(g)[k + o] = k + e
      /\ At(v, e) = q <=> At(t, k + e) = q
  BY <1>2, <1>3, <1>4, LoopInLine
<1> HIDE DEF e
<1>6. /\ r = IF At(v, e) = q THEN [kind |-> "string", end |-> e + 1]
             ELSE [kind |-> "error", end |-> e]
      /\ x = IF At(t, k + e) = q THEN [kind |-> "string", end |-> k + e + 1]
             ELSE [kind |-> "error", end |-> k + e]
  BY <1>5 DEF ScanString, e, f, g
<1> HIDE DEF r, x
<1>7. CASE At(v, e) = q
  <2>1. e + 1 \in o .. Len(v) /\ v[e + 1] = q
    <3>1. e < Len(v) /\ At(v, e) = v[e + 1]
      BY <1>1, <1>5, <1>7, QuoteIsByte, AtInside DEF At
    <3>2. e \in Nat /\ o \in Nat /\ o <= e
      BY <1>1, <1>5
    <3>3. e + 1 \in o .. Len(v)
      BY <1>1, <3>1, <3>2
    <3> QED BY <1>7, <3>1, <3>3
  <2>2. /\ r.kind = "string" /\ r.end = e + 1
        /\ x.kind = "string" /\ x.end = k + e + 1
    BY <1>5, <1>6, <1>7
  <2>3. v[e + 1] # "nl" /\ k + e + 1 = k + (e + 1)
    BY <1>1, <1>5, <2>1, QuoteIsByte
  <2>4. /\ r.end \in o .. Len(v) /\ (r.end = o \/ v[r.end] # "nl")
        /\ r.kind \in {"string", "error"}
        /\ x.kind = r.kind /\ x.end = k + r.end
    BY <2>1, <2>2, <2>3
  <2> QED BY <2>4 DEF r, x, LineString
<1>8. CASE At(v, e) # q
  <2>1. /\ r.kind = "error" /\ r.end = e
        /\ x.kind = "error" /\ x.end = k + e
    BY <1>5, <1>6, <1>8
  <2>2. /\ r.end \in o .. Len(v) /\ (r.end = o \/ v[r.end] # "nl")
        /\ r.kind \in {"string", "error"}
        /\ x.kind = r.kind /\ x.end = k + r.end
    BY <1>5, <2>1
  <2> QED BY <2>2 DEF r, x, LineString
<1> QED BY <1>7, <1>8 DEF LineString

\* An f-string in single quotes, none of its holes open.
FStringOf(q) == [quote |-> q, triple |-> FALSE, braces |-> 0]

LEMMA LiteralAlike ==
  ASSUME NEW C, NEW t \in Seq(C), NEW v \in Seq(C), NEW k \in Nat, Slice(t, k, v),
         NEW o \in 0 .. Len(v), NEW q \in Quote
  PROVE  LET e == ScanFStringLiteral(v, FStringOf(q))[o]
         IN  /\ e \in o .. Len(v) /\ (e = o \/ v[e] # "nl")
             /\ ScanFStringLiteral(t, FStringOf(q))[k + o] = k + e
<1> DEFINE f == PassLiteral(v, FStringOf(q))
           g == PassLiteral(t, FStringOf(q))
           e == Follow(f)[o]
<1>1. Len(t) \in Nat /\ Len(v) \in Nat /\ k + Len(v) <= Len(t)
  BY LenProperties DEF Slice
<1>2. f \in Loop(Len(v)) /\ g \in Loop(Len(t))
  BY LiteralLoop
<1>3. FStringOf(q).quote = q /\ FStringOf(q).triple = FALSE
  BY DEF FStringOf
<1>4. ASSUME NEW p \in 0 .. Len(v)
      PROVE  At(v, p) \notin {"\\", "{", "}"} /\ At(t, k + p) \notin {"\\", "{", "}"}
  <2>1. At(v, p) \notin {"#", "\\"} \cup Opener \cup Closer
    <3>1. LineByLine(v) /\ p \in Nat
      BY <1>1 DEF Slice
    <3> QED BY <3>1, LineBytes
  <2>2. At(v, p) \notin {"\\", "{", "}"}
    BY <2>1 DEF Opener, Closer
  <2>3. \A c : c # "nl" /\ c # "end" => (At(v, p) = c <=> At(t, k + p) = c)
    BY SliceAt
  <2> QED BY <2>2, <2>3
<1>5. ASSUME NEW p \in 0 .. Len(v)
      PROVE  f[p] = IF p = Len(v) \/ At(v, p) \in {"nl", q} THEN p ELSE p + 1
  BY <1>3, <1>4 DEF PassLiteral, Doubled, StopsLiteral, Closes
<1>6. ASSUME NEW p \in 0 .. Len(v)
      PROVE  g[k + p] = IF k + p = Len(t) \/ At(t, k + p) \in {"nl", q} THEN k + p
                        ELSE k + p + 1
  <2>1. k + p \in 0 .. Len(t)
    BY <1>1
  <2> QED BY <1>3, <1>4, <2>1 DEF PassLiteral, Doubled, StopsLiteral, Closes
<1> HIDE DEF f, g
<1>7. e \in o .. Len(v) /\ (e = o \/ v[e] # "nl") /\ Follow(g)[k + o] = k + e
  BY <1>2, <1>5, <1>6, LoopInLine
<1> QED BY <1>7 DEF ScanFStringLiteral, f, g

LEMMA GatherNothing ==
  ASSUME NEW n \in Nat, NEW next \in Loop(n), NEW found,
         NEW T \in SUBSET (0 .. n),
         \A p \in T : next[p] \in T /\ found[p] = <<>>, NEW o \in T
  PROVE  Gather(next, found)[o] = <<>>
<1> DEFINE S == {p \in 0 .. n : p \in T => Gather(next, found)[p] = <<>>}
<1>1. ASSUME NEW p \in 0 .. n, \A j \in p + 1 .. n : j \in S
      PROVE  p \in S
  <2> SUFFICES ASSUME p \in T PROVE Gather(next, found)[p] = <<>>
    OBVIOUS
  <2>1. Gather(next, found)[p]
          = IF next[p] = p THEN found[p]
            ELSE found[p] \o Gather(next, found)[next[p]]
    BY GatherDef
  <2>2. next[p] \in T /\ found[p] = <<>> /\ next[p] \in p .. n
    BY DEF Loop
  <2>3. CASE next[p] = p
    BY <2>1, <2>2, <2>3
  <2>4. CASE next[p] # p
    <3>1. next[p] \in p + 1 .. n
      BY <2>2, <2>4
    <3>2. Gather(next, found)[next[p]] = <<>>
      BY <1>1, <2>2, <3>1
    <3>3. Gather(next, found)[p] = <<>> \o <<>>
      BY <2>1, <2>2, <2>4, <3>2
    <3> QED BY <3>3
  <2> QED BY <2>3, <2>4
<1>2. \A p \in 0 .. n : p \in S
  <2> HIDE DEF S
  <2>1. \A p \in 0 .. n : (\A j \in p + 1 .. n : j \in S) => p \in S
    BY <1>1
  <2> QED BY <2>1, Downwards
<1> QED BY <1>2

\* Lines are not indented, and blank ones are passed.
LineBegins(v, p) == p = 0 \/ v[p] = "nl"

LEMMA NoIndentation ==
  ASSUME NEW C, NEW t \in Seq(C), NEW v \in Seq(C), NEW k \in Nat, Slice(t, k, v),
         NEW p \in 0 .. Len(v), LineBegins(v, p)
  PROVE  /\ At(v, p) \notin Blank
         /\ IndentEnd(v, p) = p /\ IndentEnd(t, k + p) = k + p
         /\ At(v, p) # "#" /\ At(t, k + p) # "#"
<1>1. Len(t) \in Nat /\ Len(v) \in Nat /\ k + Len(v) <= Len(t) /\ LineByLine(v)
  BY LenProperties DEF Slice
<1>2. At(v, p) \notin Blank /\ At(v, p) # "#"
  <2>1. /\ At(v, p) \notin {"#", "\\"} \cup Opener \cup Closer
        /\ At(v, p) \in Blank => p > 0 /\ v[p] # "nl"
    BY <1>1, LineBytes
  <2> QED BY <2>1 DEF LineBegins
<1>3. At(t, k + p) \notin Blank /\ At(t, k + p) # "#"
  <2>1. \A c : c # "nl" /\ c # "end" => (At(v, p) = c <=> At(t, k + p) = c)
    BY SliceAt
  <2> QED BY <1>2, <2>1 DEF Blank
<1>4. Pass(v, p, {"sp", "tab"}) = p
  <2>1. p \in p .. Len(v) /\ \A i \in p .. p - 1 : At(v, i) \in {"sp", "tab"}
    BY <1>1
  <2>2. At(v, p) \notin {"sp", "tab"}
    BY <1>2 DEF Blank
  <2> QED BY <2>1, <2>2, PassIs
<1>5. Pass(t, k + p, {"sp", "tab"}) = k + p
  <2> DEFINE o == k + p
  <2>1. /\ o \in 0 .. Len(t) /\ o \in o .. Len(t)
        /\ \A i \in o .. o - 1 : At(t, i) \in {"sp", "tab"}
    BY <1>1
  <2>2. At(t, o) \notin {"sp", "tab"}
    BY <1>3 DEF Blank
  <2> HIDE DEF o
  <2>3. Pass(t, o, {"sp", "tab"}) = o
    BY <2>1, <2>2, PassIs
  <2> QED BY <2>3 DEF o
<1> QED BY <1>2, <1>3, <1>4, <1>5 DEF IndentEnd

LineAt(e) == [start |-> e, end |-> e, comments |-> <<>>]

LEMMA BlankLinesAlike ==
  ASSUME NEW C, NEW t \in Seq(C), NEW v \in Seq(C), NEW k \in Nat, Slice(t, k, v),
         NEW p \in 0 .. Len(v), LineBegins(v, p),
         k + Len(v) < Len(t) => p < Len(v)
  PROVE  \E e \in p .. Len(v) :
           /\ LineBegins(v, e) /\ At(v, e) # "nl"
           /\ k + Len(v) < Len(t) => e < Len(v)
           /\ PassBlankLines(v, p) = LineAt(e)
           /\ PassBlankLines(t, k + p) = LineAt(k + e)
<1> DEFINE f == PassLine(v)
           g == PassLine(t)
           T == {x \in 0 .. Len(v) : /\ p <= x /\ LineBegins(v, x)
                                     /\ k + Len(v) < Len(t) => x < Len(v)}
           U == {y \in 0 .. Len(t) : y - k \in T}
           e == Follow(f)[p]
<1>1. Len(t) \in Nat /\ Len(v) \in Nat /\ k + Len(v) <= Len(t) /\ p \in Nat
  BY LenProperties DEF Slice
<1>2. f \in Loop(Len(v)) /\ g \in Loop(Len(t))
  BY LineLoop
<1>3. p \in T /\ T \in SUBSET (0 .. Len(v))
  BY <1>1
<1>4. ASSUME NEW x \in T
      PROVE  /\ f[x] \in T /\ g[k + x] = k + f[x]
             /\ CommentOfLine(v)[x] = <<>> /\ CommentOfLine(t)[k + x] = <<>>
             /\ At(v, x) = "nl" => f[x] # x
             /\ k + x \in 0 .. Len(t)
  <2>1. x \in 0 .. Len(v) /\ p <= x /\ LineBegins(v, x) /\ x \in Nat
    BY <1>1
  <2>2. /\ IndentEnd(v, x) = x /\ IndentEnd(t, k + x) = k + x
        /\ At(v, x) # "#" /\ At(t, k + x) # "#"
    BY <2>1, NoIndentation
  <2>3. k + x \in 0 .. Len(t)
    BY <1>1, <2>1
  <2>4. /\ f[x] = IF At(v, x) = "nl" THEN x + 1 ELSE x
        /\ g[k + x] = IF At(t, k + x) = "nl" THEN k + x + 1 ELSE k + x
    BY <2>1, <2>2, <2>3 DEF PassLine
  <2>5. CommentOfLine(v)[x] = <<>> /\ CommentOfLine(t)[k + x] = <<>>
    BY <2>1, <2>2, <2>3 DEF CommentOfLine
  <2> HIDE DEF f, g
  <2>6. CASE x < Len(v)
    <3>1. At(v, x) = v[x + 1] /\ At(t, k + x) = v[x + 1]
      BY <2>1, <2>6, SliceAt
    <3>2. v[x + 1] = "nl" => x + 1 \in T
      <4> SUFFICES ASSUME v[x + 1] = "nl" PROVE x + 1 \in T
        OBVIOUS
      <4>1. x + 1 \in 0 .. Len(v) /\ p <= x + 1 /\ LineBegins(v, x + 1)
        BY <1>1, <2>1, <2>6 DEF LineBegins
      <4>2. k + Len(v) < Len(t) => v[Len(v)] # "nl"
        BY DEF Slice
      <4>3. k + Len(v) < Len(t) => x + 1 < Len(v)
        BY <1>1, <2>1, <2>6, <4>2
      <4> QED BY <4>1, <4>3
    <3> QED BY <2>1, <2>3, <2>4, <2>5, <3>1, <3>2
  <2>7. CASE x = Len(v)
    <3>1. k + x = Len(t)
      BY <1>1, <2>7
    <3>2. At(v, x) = "end" /\ At(t, k + x) = "end"
      BY <1>1, <2>7, <3>1 DEF At
    <3> QED BY <2>3, <2>4, <2>5, <3>2
  <2> QED BY <1>1, <2>1, <2>6, <2>7
<1> HIDE DEF f, g, T
<1>5. Follow(g)[k + p] = k + e
  <2>1. \A x \in T : f[x] \in T /\ g[k + x] = k + f[x]
    BY <1>4
  <2> QED BY <1>1, <1>2, <1>3, <2>1, FollowAlike
<1>6. e \in p .. Len(v) /\ f[e] = e
  BY <1>1, <1>2, FollowEnds
<1>7. e \in T
  BY <1>1, <1>2, <1>3, <1>4, FollowKeeps
<1>8. Gather(f, CommentOfLine(v))[p] = <<>>
  <2>1. \A x \in T : f[x] \in T /\ CommentOfLine(v)[x] = <<>>
    BY <1>4
  <2> QED BY <1>1, <1>2, <1>3, <2>1, GatherNothing
<1>9. Gather(g, CommentOfLine(t))[k + p] = <<>>
  <2>1. ASSUME NEW y \in U PROVE g[y] \in U /\ CommentOfLine(t)[y] = <<>>
    <3>1. y - k \in T /\ y = k + (y - k)
      BY <1>1
    <3>2. g[y] = k + f[y - k] /\ f[y - k] \in T /\ CommentOfLine(t)[y] = <<>>
      BY <1>4, <3>1
    <3>3. k + f[y - k] \in 0 .. Len(t) /\ f[y - k] \in 0 .. Len(v)
      BY <1>3, <1>4, <3>2
    <3>4. (k + f[y - k]) - k = f[y - k]
      BY <1>1, <3>3
    <3> QED BY <3>2, <3>3, <3>4
  <2>2. k + p \in U /\ U \in SUBSET (0 .. Len(t))
    <3>1. k + p \in 0 .. Len(t) /\ (k + p) - k = p
      BY <1>1, <1>3, <1>4
    <3> QED BY <1>3, <3>1
  <2> HIDE DEF U
  <2> QED BY <1>1, <1>2, <2>1, <2>2, GatherNothing
<1>10. /\ LineBegins(v, e) /\ (k + Len(v) < Len(t) => e < Len(v))
       /\ e \in 0 .. Len(v)
  BY <1>7 DEF T
<1>11. At(v, e) # "nl"
  BY <1>4, <1>6, <1>7
<1> HIDE DEF e
<1>12. /\ IndentEnd(v, e) = e /\ IndentEnd(t, k + e) = k + e
       /\ At(v, e) # "#" /\ At(t, k + e) # "#"
  BY <1>10, NoIndentation
<1>13. /\ PassBlankLines(v, p) = LineAt(e)
       /\ PassBlankLines(t, k + p) = LineAt(k + e)
  BY <1>5, <1>8, <1>9, <1>12 DEF PassBlankLines, LineAt, e, f, g
<1> QED BY <1>6, <1>10, <1>11, <1>13

(***************************************************************************)
(* A token read in the part and in the text.                               *)
(***************************************************************************)
\* A lexer at the offset p, outside brackets and blocks, in a line or where
\* one begins.
Stands(s, p, fs) ==
  /\ s \in LexerState /\ s.pos = p
  /\ s.indents = <<0>> /\ s.pending = <<>> /\ s.depth = 0 /\ ~ s.done
  /\ s.fstrings = fs

InLine(s, p, fs) == Stands(s, p, fs) /\ ~ s.fresh

AtLine(s, p) == Stands(s, p, <<>>) /\ s.fresh

LEMMA UptoIs ==
  ASSUME NEW p, NEW fs, NEW s, InLine(s, p, fs), NEW kind, NEW e \in Nat
  PROVE  /\ InLine(Upto(s, kind, e).lexer, e, fs)
         /\ Upto(s, kind, e).token = Token(kind, p, e)
<1>1. /\ Upto(s, kind, e).lexer = [s EXCEPT !.pos = e]
      /\ Upto(s, kind, e).token = Token(kind, s.pos, e)
  BY DEF Upto
<1>2. InLine([s EXCEPT !.pos = e], e, fs) /\ s.pos = p
  BY DEF InLine, Stands, LexerState
<1> QED BY <1>1, <1>2

ReadAlike(v, k, p, n, m) ==
  \E kind \in PlainKind, e \in p + 1 .. Len(v) : \E fs :
    /\ InLine(n.lexer, e, fs) /\ n.token = Token(kind, p, e)
    /\ InLine(m.lexer, k + e, fs) /\ m.token = Token(kind, k + p, k + e)
    /\ v[e] # "nl"
    /\ \/ fs = <<>>
       \/ p + 2 <= e /\ \E q \in Quote : fs = <<FStringOf(q)>>

LEMMA AlikeIf ==
  ASSUME NEW v, NEW k \in Nat, NEW p \in Nat, NEW s, NEW r,
         InLine(s, p, <<>>), InLine(r, k + p, <<>>),
         NEW kind \in PlainKind,
         NEW e \in p + 1 .. Len(v), Len(v) \in Nat, v[e] # "nl", NEW n, NEW m,
         n = Upto(s, kind, e), m = Upto(r, kind, k + e)
  PROVE  ReadAlike(v, k, p, n, m)
<1>1. e \in Nat /\ k + e \in Nat
  OBVIOUS
<1>2. InLine(n.lexer, e, <<>>) /\ n.token = Token(kind, p, e)
  BY <1>1, UptoIs
<1>3. InLine(m.lexer, k + e, <<>>) /\ m.token = Token(kind, k + p, k + e)
  BY <1>1, UptoIs
<1> QED BY <1>2, <1>3 DEF ReadAlike

LEMMA OperatorAlike ==
  ASSUME NEW C, NEW t \in Seq(C), NEW v \in Seq(C), NEW k \in Nat, Slice(t, k, v),
         NEW p \in 0 .. Len(v), p < Len(v), At(v, p) # "nl", NEW s, NEW r,
         InLine(s, p, <<>>), InLine(r, k + p, <<>>)
  PROVE  ReadAlike(v, k, p, ScanOperator(v, s), ScanOperator(t, r))
<1> DEFINE c    == At(v, p)
           long == {w \in TwoBytes : w[1] = c /\ w[2] = At(v, p + 1)}
           w    == CHOOSE x \in long : TRUE
           kind == IF c \in OneByte THEN c ELSE "error"
<1>1. Len(v) \in Nat /\ p \in Nat /\ p + 1 \in 0 .. Len(v)
  BY LenProperties
<1>2. s.pos = p /\ r.pos = k + p
  BY DEF InLine, Stands
<1>3. At(t, k + p) = c /\ c = v[p + 1]
  BY SliceAt
<1>4. \A x : x # "nl" /\ x # "end" => (At(v, p + 1) = x <=> At(t, k + p + 1) = x)
  <2> DEFINE o == p + 1
  <2>1. o \in 0 .. Len(v) /\ k + o = k + p + 1
    BY <1>1
  <2> HIDE DEF o
  <2>2. \A x : x # "nl" /\ x # "end" => (At(v, o) = x <=> At(t, k + o) = x)
    BY <2>1, SliceAt
  <2>3. \A x : x # "nl" /\ x # "end" => (At(v, o) = x <=> At(t, k + p + 1) = x)
    BY <2>1, <2>2
  <2> QED BY <2>3 DEF o
<1>5. long = {x \in TwoBytes : x[1] = At(t, k + p) /\ x[2] = At(t, k + p + 1)}
  <2>1. \A x \in TwoBytes : x[2] # "nl" /\ x[2] # "end"
    BY DEF TwoBytes
  <2> QED BY <1>3, <1>4, <2>1
<1>6. Thrice(v, p, ".") <=> Thrice(t, k + p, ".")
  BY ThriceAlike
<1>7. CASE long # {}
  <2>1. w \in TwoBytes /\ w[2] = At(v, p + 1)
    BY <1>7
  <2>2. /\ ScanOperator(v, s) = Upto(s, w[3], p + 2)
        /\ ScanOperator(t, r) = Upto(r, w[3], k + p + 2)
    BY <1>2, <1>5, <1>7 DEF ScanOperator
  <2> HIDE DEF w, long
  <2>3. w[3] \in TwoByteKind /\ w[2] # "end" /\ w[2] # "nl"
    BY <2>1, TwoBytesKinds DEF TwoBytes
  <2>4. p + 1 < Len(v) /\ At(v, p + 1) = v[p + 2]
    <3>1. p + 1 < Len(v)
      BY <1>1, <2>1, <2>3, AtInside
    <3> QED BY <1>1, <3>1 DEF At
  <2>5. p + 2 \in p + 1 .. Len(v) /\ v[p + 2] # "nl" /\ k + (p + 2) = k + p + 2
    BY <1>1, <2>1, <2>3, <2>4
  <2>6. w[3] \in PlainKind
    BY <2>3 DEF PlainKind
  <2> QED BY <1>1, <2>2, <2>5, <2>6, AlikeIf
<1>8. CASE long = {} /\ Thrice(v, p, ".")
  <2>1. /\ ScanOperator(v, s) = Upto(s, "...", p + 3)
        /\ ScanOperator(t, r) = Upto(r, "...", k + p + 3)
    BY <1>2, <1>5, <1>6, <1>8 DEF ScanOperator
  <2>2. At(v, p + 2) = "."
    BY <1>1, <1>8 DEF Thrice
  <2>3. p + 2 < Len(v) /\ At(v, p + 2) = v[p + 3]
    <3>1. p + 2 < Len(v)
      BY <1>1, <2>2, AtInside
    <3> QED BY <1>1, <3>1 DEF At
  <2>4. p + 3 \in p + 1 .. Len(v) /\ v[p + 3] # "nl" /\ k + (p + 3) = k + p + 3
    BY <1>1, <2>2, <2>3
  <2>5. "..." \in PlainKind
    BY DEF PlainKind
  <2> QED BY <1>1, <2>1, <2>4, <2>5, AlikeIf
<1>9. CASE long = {} /\ ~ Thrice(v, p, ".")
  <2>1. /\ ScanOperator(v, s) = Upto(s, kind, p + 1)
        /\ ScanOperator(t, r) = Upto(r, kind, k + p + 1)
    BY <1>2, <1>3, <1>5, <1>6, <1>9 DEF ScanOperator
  <2>2. kind \in PlainKind
    BY DEF PlainKind, OneByte
  <2>3. p + 1 \in p + 1 .. Len(v) /\ v[p + 1] # "nl" /\ k + (p + 1) = k + p + 1
    BY <1>1, <1>3
  <2> HIDE DEF kind
  <2> QED BY <1>1, <2>1, <2>2, <2>3, AlikeIf
<1> QED BY <1>7, <1>8, <1>9

LEMMA NumberAlike ==
  ASSUME NEW C, NEW t \in Seq(C), NEW v \in Seq(C), NEW k \in Nat, Slice(t, k, v),
         NEW p \in 0 .. Len(v), p < Len(v), At(v, p) # "nl", NEW s, NEW r,
         InLine(s, p, <<>>), InLine(r, k + p, <<>>)
  PROVE  ReadAlike(v, k, p, ScanNumber(v, s), ScanNumber(t, r))
<1> DEFINE In(e) == e \in p + 1 .. Len(v) /\ v[e] # "nl"
           int   == Pass(v, p + 1, Digit)
           point == At(v, int) = "." /\ At(v, int + 1) \in Digit
           frac  == IF point THEN Pass(v, int + 1, Digit) ELSE int
           sign  == IF At(v, frac + 1) \in {"+", "-"} THEN 2 ELSE 1
           exp   == At(v, frac) = "e"
           kind  == IF point \/ exp THEN "float" ELSE "int"
           end   == IF exp THEN Pass(v, frac + sign, Digit) ELSE frac
<1>1. Len(v) \in Nat /\ p \in Nat
  BY LenProperties
<1>2. s.pos = p /\ r.pos = k + p
  BY DEF InLine, Stands
<1>3. \A o \in 0 .. Len(v) : \A x :
        x # "nl" /\ x # "end" => (At(v, o) = x <=> At(t, k + o) = x)
  BY SliceAt
<1>4. ASSUME NEW o \in 1 .. Len(v), In(o)
      PROVE  /\ In(Pass(v, o, Digit))
             /\ Pass(t, k + o, Digit) = k + Pass(v, o, Digit)
  <2> DEFINE e == Pass(v, o, Digit)
  <2>1. o \in 0 .. Len(v) /\ o \in p + 1 .. Len(v)
    BY <1>1, <1>4
  <2>2. ASSUME NEW i \in 0 .. Len(v) - 1
        PROVE  At(v, i) \in Digit <=> At(t, k + i) \in Digit
    <3>1. i \in 0 .. Len(v)
      BY <1>1
    <3>2. At(v, i) = "0" <=> At(t, k + i) = "0"
      BY <1>3, <3>1
    <3>3. At(v, i) = "1" <=> At(t, k + i) = "1"
      BY <1>3, <3>1
    <3> QED BY <3>2, <3>3 DEF Digit
  <2>3. Pass(t, k + o, Digit) = k + e
    <3>1. "nl" \notin Digit
      BY DEF Digit
    <3> QED BY <2>1, <2>2, <3>1, PassAlike
  <2>4. e \in o .. Len(v) /\ \A i \in o .. e - 1 : At(v, i) \in Digit
    BY <2>1, PassEnds
  <2> HIDE DEF e
  <2>5. v[e] # "nl"
    <3>1. CASE e = o
      BY <1>4, <3>1
    <3>2. CASE e # o
      <4>1. e - 1 \in o .. e - 1 /\ e - 1 \in Nat /\ e - 1 < Len(v)
        BY <1>1, <2>4, <3>2
      <4>2. At(v, e - 1) = v[e]
        BY <1>1, <2>4, <4>1 DEF At
      <4> QED BY <2>4, <4>1, <4>2 DEF Digit
    <3> QED BY <3>1, <3>2
  <2> QED BY <1>1, <2>1, <2>3, <2>4, <2>5 DEF e
<1>5. ASSUME NEW o \in 0 .. Len(v), NEW c, At(v, o) = c, c # "end", c # "nl", p <= o
      PROVE  o + 1 \in 1 .. Len(v) /\ In(o + 1)
  <2>1. o < Len(v)
    BY <1>1, <1>5, AtInside
  <2>2. At(v, o) = v[o + 1]
    BY <1>1, <2>1 DEF At
  <2> QED BY <1>1, <1>5, <2>1, <2>2
<1>6. In(int) /\ Pass(t, k + p + 1, Digit) = k + int
  <2>1. v[p + 1] # "nl"
    BY <1>1 DEF At
  <2>2. p + 1 \in 1 .. Len(v) /\ In(p + 1) /\ k + (p + 1) = k + p + 1
    BY <1>1, <2>1
  <2> HIDE DEF In
  <2> QED BY <1>4, <2>2
<1> HIDE DEF int
<1>7. point <=> At(t, k + int) = "." /\ At(t, k + int + 1) \in Digit
  <2>1. int \in 0 .. Len(v)
    BY <1>1, <1>6
  <2>2. At(v, int) = "." <=> At(t, k + int) = "."
    BY <1>3, <2>1
  <2>3. CASE At(v, int) = "."
    <3>1. int + 1 \in 0 .. Len(v) /\ k + (int + 1) = k + int + 1
      BY <1>1, <1>5, <1>6, <2>1, <2>3
    <3>2. At(v, int + 1) \in Digit <=> At(t, k + (int + 1)) \in Digit
      BY <1>3, <3>1 DEF Digit
    <3>3. At(v, int + 1) \in Digit <=> At(t, k + int + 1) \in Digit
      BY <3>1, <3>2
    <3> QED BY <2>2, <3>3
  <2>4. CASE At(v, int) # "."
    BY <2>2, <2>4
  <2> QED BY <2>3, <2>4
<1>8. /\ In(frac)
      /\ k + frac = IF point THEN Pass(t, k + int + 1, Digit) ELSE k + int
  <2>1. CASE point
    <3>1. int + 1 \in 1 .. Len(v) /\ In(int + 1) /\ k + (int + 1) = k + int + 1
      BY <1>1, <1>5, <1>6, <2>1
    <3> HIDE DEF In, point
    <3> QED BY <1>4, <2>1, <3>1
  <2>2. CASE ~ point
    <3> HIDE DEF In, point
    <3> QED BY <1>6, <2>2
  <2> QED BY <2>1, <2>2
<1> HIDE DEF point, frac
<1>9. exp <=> At(t, k + frac) = "e"
  <2>1. frac \in 0 .. Len(v)
    BY <1>1, <1>8
  <2> QED BY <1>3, <2>1
<1>10. exp => /\ frac + sign \in 1 .. Len(v) /\ In(frac + sign)
              /\ sign = IF At(t, k + frac + 1) \in {"+", "-"} THEN 2 ELSE 1
  <2> SUFFICES ASSUME exp
               PROVE  /\ frac + sign \in 1 .. Len(v) /\ In(frac + sign)
                      /\ sign = IF At(t, k + frac + 1) \in {"+", "-"} THEN 2 ELSE 1
    OBVIOUS
  <2>1. frac \in 0 .. Len(v) /\ p <= frac
    BY <1>1, <1>8
  <2>2. frac + 1 \in 1 .. Len(v) /\ In(frac + 1) /\ k + (frac + 1) = k + frac + 1
    BY <1>1, <1>5, <2>1
  <2>3. At(v, frac + 1) \in {"+", "-"} <=> At(t, k + frac + 1) \in {"+", "-"}
    <3>1. frac + 1 \in 0 .. Len(v)
      BY <1>1, <2>2
    <3>2. At(v, frac + 1) = "+" <=> At(t, k + (frac + 1)) = "+"
      BY <1>3, <3>1
    <3>3. At(v, frac + 1) = "-" <=> At(t, k + (frac + 1)) = "-"
      BY <1>3, <3>1
    <3> QED BY <2>2, <3>2, <3>3
  <2>4. CASE At(v, frac + 1) \in {"+", "-"}
    <3>1. frac + 1 \in 0 .. Len(v) /\ p <= frac + 1 /\ (frac + 1) + 1 = frac + 2
      BY <1>1, <2>1, <2>2
    <3>2. frac + 2 \in 1 .. Len(v) /\ In(frac + 2)
      <4>1. At(v, frac + 1) # "end" /\ At(v, frac + 1) # "nl"
        BY <2>4
      <4> HIDE DEF In
      <4> QED BY <1>5, <3>1, <4>1
    <3> HIDE DEF In
    <3> QED BY <2>3, <2>4, <3>2
  <2>5. CASE At(v, frac + 1) \notin {"+", "-"}
    <3> HIDE DEF In
    <3> QED BY <2>2, <2>3, <2>5
  <2> QED BY <2>4, <2>5
<1> HIDE DEF sign
<1>11. /\ In(end)
       /\ k + end = IF exp THEN Pass(t, k + frac + sign, Digit) ELSE k + frac
  <2>1. CASE exp
    <3>1. sign \in Nat /\ frac \in Nat
      BY <1>1, <1>8 DEF sign
    <3>2. k + (frac + sign) = k + frac + sign
      BY <3>1
    <3> HIDE DEF In, exp
    <3> QED BY <1>4, <1>10, <2>1, <3>2
  <2>2. CASE ~ exp
    <3> HIDE DEF In, exp
    <3> QED BY <1>8, <2>2
  <2> QED BY <2>1, <2>2
<1>12. ScanNumber(v, s) = Upto(s, kind, end)
  <2> QED BY <1>2 DEF ScanNumber, end, kind, exp, sign, frac, point, int
<1>13. ScanNumber(t, r) = Upto(r, kind, k + end)
  <2> DEFINE int2   == Pass(t, k + p + 1, Digit)
             point2 == At(t, int2) = "." /\ At(t, int2 + 1) \in Digit
             frac2  == IF point2 THEN Pass(t, int2 + 1, Digit) ELSE int2
             sign2  == IF At(t, frac2 + 1) \in {"+", "-"} THEN 2 ELSE 1
             exp2   == At(t, frac2) = "e"
             kind2  == IF point2 \/ exp2 THEN "float" ELSE "int"
             end2   == IF exp2 THEN Pass(t, frac2 + sign2, Digit) ELSE frac2
  <2>1. ScanNumber(t, r) = Upto(r, kind2, end2)
    <3> QED BY <1>2 DEF ScanNumber
  <2>2. int2 = k + int
    BY <1>6
  <2> HIDE DEF int2
  <2>3. point2 <=> point
    BY <1>7, <2>2
  <2>4. frac2 = k + frac
    <3> HIDE DEF point2
    <3> QED BY <1>8, <2>2, <2>3
  <2> HIDE DEF point2, frac2
  <2>5. exp2 <=> exp
    BY <1>9, <2>4
  <2>6. exp => sign2 = sign
    BY <1>10, <2>4
  <2> HIDE DEF exp2, sign2, exp
  <2>7. end2 = k + end
    BY <1>11, <2>4, <2>5, <2>6
  <2>8. kind2 = kind
    BY <2>3, <2>5
  <2> HIDE DEF kind, kind2, end, end2
  <2> QED BY <2>1, <2>7, <2>8
<1>14. kind \in PlainKind
  BY DEF PlainKind
<1> HIDE DEF kind, end
<1> QED BY <1>1, <1>11, <1>12, <1>13, <1>14, AlikeIf

\* A quote in the part, at which a string begins.
LEMMA QuoteAlike ==
  ASSUME NEW C, NEW t \in Seq(C), NEW v \in Seq(C), NEW k \in Nat, Slice(t, k, v),
         NEW e \in 0 .. Len(v), At(v, e) \in Quote
  PROVE  /\ e + 1 \in 0 .. Len(v) /\ v[e + 1] # "nl"
         /\ At(t, k + e) = At(v, e)
         /\ ~ Thrice(v, e, At(v, e)) /\ ~ Thrice(t, k + e, At(v, e))
<1>1. Len(v) \in Nat /\ e \in Nat /\ LineByLine(v)
  BY LenProperties DEF Slice
<1>2. At(v, e) # "end" /\ At(v, e) # "nl"
  BY QuoteIsByte
<1>3. e < Len(v) /\ At(v, e) = v[e + 1]
  BY <1>1, <1>2, AtInside DEF At
<1>4. At(t, k + e) = v[e + 1]
  BY <1>1, <1>3, SliceAt
<1>5. ~ Thrice(v, e, At(v, e))
  BY <1>1, LineBytes
<1>6. ~ Thrice(t, k + e, At(v, e))
  BY <1>2, <1>5, ThriceAlike
<1> QED BY <1>1, <1>2, <1>3, <1>4, <1>5, <1>6

LEMMA ReadStringIs ==
  ASSUME NEW t, NEW s, NEW o, ~ Thrice(t, o - 1, At(t, o - 1))
  PROVE  LET x == LineString(t, o, At(t, o - 1))
         IN  ReadString(t, s, o) = Upto(s, x.kind, x.end)
<1>1. Thrice(t, o - 1, At(t, o - 1)) = FALSE
  OBVIOUS
<1> QED BY <1>1 DEF ReadString, LineString

LEMMA ReadStringAlike ==
  ASSUME NEW C, NEW t \in Seq(C), NEW v \in Seq(C), NEW k \in Nat, Slice(t, k, v),
         NEW p \in 0 .. Len(v), NEW e \in p .. Len(v), At(v, e) \in Quote,
         NEW s, NEW r, InLine(s, p, <<>>), InLine(r, k + p, <<>>)
  PROVE  ReadAlike(v, k, p, ReadString(v, s, e + 1), ReadString(t, r, k + e + 1))
<1> DEFINE o == e + 1
           q == At(v, e)
           x == LineString(v, o, q)
           y == LineString(t, k + o, q)
<1>1. Len(v) \in Nat /\ p \in Nat /\ e \in Nat /\ e \in 0 .. Len(v)
  BY LenProperties
<1>2. /\ o \in 0 .. Len(v) /\ v[o] # "nl" /\ At(t, k + e) = q
      /\ ~ Thrice(v, e, q) /\ ~ Thrice(t, k + e, q)
  BY <1>1, QuoteAlike
<1>3. ReadString(v, s, o) = Upto(s, x.kind, x.end)
  <2>1. o - 1 = e
    BY <1>1
  <2> QED BY <1>2, <2>1, ReadStringIs
<1>4. ReadString(t, r, k + o) = Upto(r, y.kind, y.end)
  <2>1. (k + o) - 1 = k + e
    BY <1>1
  <2> QED BY <1>2, <2>1, ReadStringIs
<1>5. k + o = k + e + 1
  BY <1>1
<1> HIDE DEF o
<1>6. /\ x.end \in o .. Len(v) /\ (x.end = o \/ v[x.end] # "nl")
      /\ x.kind \in {"string", "error"}
      /\ y.kind = x.kind /\ y.end = k + x.end
  BY <1>2, StringAlike
<1> HIDE DEF x, y
<1> DEFINE z == x.end
           i == x.kind
<1>7. z \in p + 1 .. Len(v) /\ v[z] # "nl" /\ i \in PlainKind
  <2>1. o = e + 1
    BY DEF o
  <2> QED BY <1>1, <1>2, <1>6, <2>1 DEF PlainKind
<1>8. ReadString(v, s, o) = Upto(s, i, z) /\ ReadString(t, r, k + o) = Upto(r, i, k + z)
  BY <1>3, <1>4, <1>6
<1> HIDE DEF z, i
<1>9. ReadAlike(v, k, p, ReadString(v, s, o), ReadString(t, r, k + o))
  BY <1>1, <1>7, <1>8, AlikeIf
<1> QED BY <1>5, <1>9 DEF o

LEMMA EnterFStringAlike ==
  ASSUME NEW C, NEW t \in Seq(C), NEW v \in Seq(C), NEW k \in Nat, Slice(t, k, v),
         NEW p \in 0 .. Len(v), NEW e \in p + 1 .. Len(v), At(v, e) \in Quote,
         NEW s, NEW r, InLine(s, p, <<>>), InLine(r, k + p, <<>>)
  PROVE  ReadAlike(v, k, p, EnterFString(v, s, e + 1), EnterFString(t, r, k + e + 1))
<1> DEFINE o == e + 1
           q == At(v, e)
           f == <<FStringOf(q)>>
           s2 == [s EXCEPT !.fstrings = f]
           r2 == [r EXCEPT !.fstrings = f]
<1>1. Len(v) \in Nat /\ p \in Nat /\ e \in Nat /\ e \in 0 .. Len(v)
  BY LenProperties
<1>2. /\ o \in 0 .. Len(v) /\ v[o] # "nl" /\ At(t, k + e) = q
      /\ ~ Thrice(v, e, q) /\ ~ Thrice(t, k + e, q)
  BY <1>1, QuoteAlike
<1>3. s.fstrings = <<>> /\ r.fstrings = <<>>
  BY DEF InLine, Stands
<1>4. Append(<<>>, [quote |-> q, triple |-> FALSE, braces |-> 0]) = f
  BY DEF FStringOf
<1>5. EnterFString(v, s, o) = Upto(s2, "fstart", o)
  <2>1. o - 1 = e
    BY <1>1
  <2>2. Thrice(v, e, q) = FALSE
    BY <1>2
  <2> QED BY <1>3, <1>4, <2>1, <2>2 DEF EnterFString
<1>6. EnterFString(t, r, k + o) = Upto(r2, "fstart", k + o)
  <2>1. (k + o) - 1 = k + e
    BY <1>1
  <2>2. Thrice(t, k + e, q) = FALSE
    BY <1>2
  <2> QED BY <1>2, <1>3, <1>4, <2>1, <2>2 DEF EnterFString
<1>7. f \in Seq(FString)
  BY DEF FString, FStringOf
<1> HIDE DEF f
<1>8. InLine(s2, p, f) /\ InLine(r2, k + p, f)
  BY <1>7 DEF InLine, Stands, LexerState
<1> HIDE DEF s2, r2
<1>9. o \in Nat /\ k + o \in Nat /\ k + o = k + e + 1
  BY <1>1
<1>10. /\ InLine(Upto(s2, "fstart", o).lexer, o, f)
       /\ Upto(s2, "fstart", o).token = Token("fstart", p, o)
  BY <1>8, <1>9, UptoIs
<1>11. /\ InLine(Upto(r2, "fstart", k + o).lexer, k + o, f)
       /\ Upto(r2, "fstart", k + o).token = Token("fstart", k + p, k + o)
  BY <1>8, <1>9, UptoIs
<1>12. p + 2 <= o /\ o \in p + 1 .. Len(v) /\ q \in Quote /\ f = <<FStringOf(q)>>
  BY <1>1, <1>2 DEF f
<1>13. "fstart" \in PlainKind
  BY DEF PlainKind
<1> HIDE DEF o, q
<1>14. ReadAlike(v, k, p, EnterFString(v, s, o), EnterFString(t, r, k + o))
  BY <1>2, <1>5, <1>6, <1>10, <1>11, <1>12, <1>13 DEF ReadAlike
<1> QED BY <1>9, <1>14 DEF o

LEMMA SubSeqAlike ==
  ASSUME NEW C, NEW t \in Seq(C), NEW v \in Seq(C), NEW k \in Nat, Slice(t, k, v),
         NEW p \in 0 .. Len(v), NEW e \in p .. Len(v)
  PROVE  SubSeq(t, k + p + 1, k + e) = SubSeq(v, p + 1, e)
<1> DEFINE x == SubSeq(v, p + 1, e)
           y == SubSeq(t, k + p + 1, k + e)
<1>1. Len(t) \in Nat /\ Len(v) \in Nat /\ k + Len(v) <= Len(t)
  BY LenProperties DEF Slice
<1>2. /\ x \in Seq(C) /\ Len(x) = e - p
      /\ \A i \in 1 .. e - p : x[i] = v[p + i]
  BY <1>1
<1>3. /\ y \in Seq(C) /\ Len(y) = e - p
      /\ \A i \in 1 .. e - p : y[i] = t[k + p + i]
  BY <1>1
<1> HIDE DEF x, y
<1>4. ASSUME NEW i \in 1 .. e - p PROVE x[i] = y[i]
  <2>1. p + i \in 1 .. Len(v) /\ k + (p + i) = k + p + i
    BY <1>1
  <2>2. v[p + i] = t[k + (p + i)]
    BY <2>1 DEF Slice
  <2> QED BY <1>2, <1>3, <2>1, <2>2
<1>5. x = y
  BY <1>1, <1>2, <1>3, <1>4
<1> QED BY <1>5 DEF x, y

LEMMA IdentifierAlike ==
  ASSUME NEW C, NEW t \in Seq(C), NEW v \in Seq(C), NEW k \in Nat, Slice(t, k, v),
         NEW p \in 0 .. Len(v), p < Len(v), InName(At(v, p)), NEW s, NEW r,
         InLine(s, p, <<>>), InLine(r, k + p, <<>>)
  PROVE  ReadAlike(v, k, p, ScanIdentifier(v, s), ScanIdentifier(t, r))
<1> DEFINE B    == Range(v) \ Punctuation
           D    == Range(t) \ Punctuation
           e    == Pass(v, p, B)
           name == SubSeq(v, p + 1, e)
           kind == IF Len(name) = 1 /\ name[1] \in Keyword THEN name[1] ELSE "name"
<1>1. Len(t) \in Nat /\ Len(v) \in Nat /\ p \in Nat /\ k + Len(v) <= Len(t)
  BY LenProperties DEF Slice
<1>2. ASSUME NEW i \in 0 .. Len(v) - 1
      PROVE  At(v, i) \in B <=> At(t, k + i) \in D
  <2>1. i \in 0 .. Len(v) /\ i < Len(v) /\ i + 1 \in 1 .. Len(v)
        /\ k + i + 1 \in 1 .. Len(t)
    BY <1>1
  <2>2. At(v, i) = v[i + 1] /\ At(t, k + i) = v[i + 1]
    BY <2>1, SliceAt
  <2>3. At(t, k + i) = t[k + i + 1]
    BY <1>1, <2>1 DEF At
  <2>4. v[i + 1] \in Range(v) /\ t[k + i + 1] \in Range(t)
    BY <1>1, <2>1 DEF Range
  <2> QED BY <2>2, <2>3, <2>4
<1>3. Pass(t, k + p, D) = k + e
  <2>1. "nl" \notin D
    BY DEF Punctuation
  <2> HIDE DEF B, D
  <2> QED BY <1>2, <2>1, PassAlike
<1>4. /\ e \in p .. Len(v) /\ \A i \in p .. e - 1 : At(v, i) \in B
      /\ e = Len(v) \/ At(v, e) \notin B
  <2> HIDE DEF B
  <2> QED BY PassEnds
<1>5. At(v, p) \in B
  <2>1. At(v, p) = v[p + 1] /\ p + 1 \in 1 .. Len(v)
    BY <1>1 DEF At
  <2>2. v[p + 1] \in Range(v)
    BY <1>1, <2>1 DEF Range
  <2> QED BY <2>1, <2>2 DEF InName
<1> HIDE DEF e
<1>6. e \in p + 1 .. Len(v) /\ v[e] # "nl"
  <2>1. e # p
    BY <1>1, <1>4, <1>5
  <2>2. e - 1 \in p .. e - 1 /\ e - 1 \in Nat /\ e - 1 < Len(v) /\ (e - 1) + 1 = e
    BY <1>1, <1>4, <2>1
  <2>3. At(v, e - 1) = v[e] /\ At(v, e - 1) \in B
    BY <1>4, <2>2 DEF At
  <2> QED BY <1>1, <1>4, <2>1, <2>3 DEF Punctuation
<1>7. SubSeq(t, k + p + 1, k + e) = name
  BY <1>4, SubSeqAlike
<1>8. e \in 0 .. Len(v) /\ e \in p .. Len(v)
  BY <1>1, <1>4
<1>9. At(v, e) \in Quote <=> At(t, k + e) \in Quote
  <2>1. \A c : c # "nl" /\ c # "end" => (At(v, e) = c <=> At(t, k + e) = c)
    BY <1>8, SliceAt
  <2> QED BY <2>1 DEF Quote
<1>10. s.pos = p /\ r.pos = k + p
  BY DEF InLine, Stands
<1> HIDE DEF name
<1>11. CASE At(v, e) \in Quote /\ name \in FPrefixes
  <2>1. ScanIdentifier(v, s) = EnterFString(v, s, e + 1)
    BY <1>10, <1>11 DEF ScanIdentifier, e, name
  <2>2. ScanIdentifier(t, r) = EnterFString(t, r, k + e + 1)
    BY <1>3, <1>7, <1>9, <1>10, <1>11 DEF ScanIdentifier
  <2> QED BY <1>6, <1>11, <2>1, <2>2, EnterFStringAlike
<1>12. CASE At(v, e) \in Quote /\ name \notin FPrefixes /\ name \in StringPrefixes
  <2>1. ScanIdentifier(v, s) = ReadString(v, s, e + 1)
    BY <1>10, <1>12 DEF ScanIdentifier, e, name
  <2>2. ScanIdentifier(t, r) = ReadString(t, r, k + e + 1)
    BY <1>3, <1>7, <1>9, <1>10, <1>12 DEF ScanIdentifier
  <2> QED BY <1>8, <1>12, <2>1, <2>2, ReadStringAlike
<1>13. CASE /\ ~ (At(v, e) \in Quote /\ name \in FPrefixes)
            /\ ~ (At(v, e) \in Quote /\ name \in StringPrefixes)
  <2>1. ScanIdentifier(v, s) = Upto(s, kind, e)
    BY <1>10, <1>13 DEF ScanIdentifier, e, name
  <2>2. ScanIdentifier(t, r) = Upto(r, kind, k + e)
    BY <1>3, <1>7, <1>9, <1>10, <1>13 DEF ScanIdentifier
  <2>3. kind \in PlainKind
    BY DEF PlainKind
  <2> HIDE DEF kind
  <2> QED BY <1>1, <1>6, <2>1, <2>2, <2>3, AlikeIf
<1> QED BY <1>11, <1>12, <1>13

LEMMA ReadNextAlike ==
  ASSUME NEW C, NEW t \in Seq(C), NEW v \in Seq(C), NEW k \in Nat, Slice(t, k, v),
         NEW p \in 0 .. Len(v), p < Len(v), At(v, p) # "nl", NEW s, NEW r,
         InLine(s, p, <<>>), InLine(r, k + p, <<>>)
  PROVE  ReadAlike(v, k, p, ReadNext(v, s), ReadNext(t, r))
<1> DEFINE c == At(v, p)
           N == c \in Digit \/ (c = "." /\ At(v, p + 1) \in Digit)
           M == c \in Digit \/ (c = "." /\ At(t, k + p + 1) \in Digit)
<1>1. Len(t) \in Nat /\ Len(v) \in Nat /\ p \in Nat /\ k + Len(v) <= Len(t)
      /\ LineByLine(v)
  BY LenProperties DEF Slice
<1>2. s.pos = p /\ r.pos = k + p
  BY DEF InLine, Stands
<1>3. At(t, k + p) = c
  BY SliceAt
<1>4. c # "#" /\ c \notin Opener \cup Closer
  BY <1>1, LineBytes
<1>5. p # Len(v) /\ k + p # Len(t)
  BY <1>1
<1>6. N <=> M
  <2> DEFINE o == p + 1
  <2>1. o \in 0 .. Len(v) /\ k + o = k + p + 1
    BY <1>1
  <2> HIDE DEF o
  <2>2. \A x : x # "nl" /\ x # "end" => (At(v, o) = x <=> At(t, k + o) = x)
    BY <2>1, SliceAt
  <2>3. At(v, o) \in Digit <=> At(t, k + o) \in Digit
    BY <2>2 DEF Digit
  <2>4. At(v, p + 1) \in Digit <=> At(t, k + p + 1) \in Digit
    BY <2>1, <2>3 DEF o
  <2> QED BY <2>4
<1> HIDE DEF N, M
<1>7. CASE c \in Quote
  <2>1. ReadNext(v, s) = ReadString(v, s, p + 1)
    BY <1>2, <1>4, <1>5, <1>7 DEF ReadNext
  <2>2. ReadNext(t, r) = ReadString(t, r, k + p + 1)
    BY <1>2, <1>3, <1>4, <1>5, <1>7 DEF ReadNext
  <2>3. p \in p .. Len(v)
    BY <1>1
  <2> QED BY <1>7, <2>1, <2>2, <2>3, ReadStringAlike
<1>8. CASE c \notin Quote /\ N
  <2>1. ReadNext(v, s) = ScanNumber(v, s)
    BY <1>2, <1>4, <1>5, <1>8 DEF ReadNext, N
  <2>2. ReadNext(t, r) = ScanNumber(t, r)
    BY <1>2, <1>3, <1>4, <1>5, <1>6, <1>8 DEF ReadNext, M
  <2> QED BY <2>1, <2>2, NumberAlike
<1>9. CASE c \notin Quote /\ ~ N /\ InName(c)
  <2>1. ReadNext(v, s) = ScanIdentifier(v, s)
    BY <1>2, <1>4, <1>5, <1>9 DEF ReadNext, N
  <2>2. ReadNext(t, r) = ScanIdentifier(t, r)
    BY <1>2, <1>3, <1>4, <1>5, <1>6, <1>9 DEF ReadNext, M
  <2> QED BY <1>9, <2>1, <2>2, IdentifierAlike
<1>10. CASE c \notin Quote /\ ~ N /\ ~ InName(c)
  <2>1. ReadNext(v, s) = ScanOperator(v, s)
    BY <1>2, <1>4, <1>5, <1>10 DEF ReadNext, N
  <2>2. ReadNext(t, r) = ScanOperator(t, r)
    BY <1>2, <1>3, <1>4, <1>5, <1>6, <1>10 DEF ReadNext, M
  <2> QED BY <2>1, <2>2, OperatorAlike
<1> QED BY <1>7, <1>8, <1>9, <1>10

(***************************************************************************)
(* One call of next_token, in the part and in the text.                    *)
(***************************************************************************)
\* The lexer s of the part is p bytes in, and the lexer r of the text there.
Together(v, k, s, r, p, fs) ==
  /\ p \in 0 .. Len(v)
  /\ \/ AtLine(s, p) /\ AtLine(r, k + p) /\ fs = <<>> /\ LineBegins(v, p)
     \/ /\ InLine(s, p, fs) /\ InLine(r, k + p, fs) /\ p > 0 /\ v[p] # "nl"
        /\ fs = <<>> \/ \E q \in Quote : fs = <<FStringOf(q)>>

\* The bytes that pay for the tokens returned: an f-string will cost one more.
Spent(p, fs) == IF fs = <<>> THEN p ELSE p - 1

\* Both return a token, the same but for its place.
BothGo(v, k, p, fs, n, m) ==
  \E kind \in PlainKind \cup {"newline"}, a, e \in 0 .. Len(v) : \E gs :
    /\ Together(v, k, n.lexer, m.lexer, e, gs)
    /\ n.token = Token(kind, a, e) /\ m.token = Token(kind, k + a, k + e)
    /\ Spent(p, fs) + 1 <= Spent(e, gs)
    /\ kind = "newline" => /\ a > 0 /\ v[a] # "nl" /\ At(v, a) = "nl"
                           /\ e = a + 1

\* The part ends, and the text ends or goes on with a new line.
PartEnds(t, k, v, n, m) ==
  LET e == k + Len(v)
  IN  /\ n.token.kind = "eof"
      /\ IF e = Len(t) THEN m.token.kind = "eof"
         ELSE AtLine(m.lexer, e + 1) /\ m.token = Token("newline", e, e + 1)

LEMMA PartRead ==
  ASSUME NEW p, NEW fs, NEW s, Stands(s, p, fs)
  PROVE  EndOfText(s).token.kind = "eof"
<1> DEFINE closed == [s EXCEPT !.done = TRUE, !.indents = <<0>>,
                        !.pending = @ \o [i \in 1 .. Len(s.indents) - 1 |->
                                            Token("dedent", s.pos, s.pos)]]
<1>1. Len(s.indents) - 1 = 0 /\ s.pending = <<>>
  BY DEF Stands
<1>2. <<>> \o [i \in 1 .. 0 |-> Token("dedent", s.pos, s.pos)] = <<>>
  OBVIOUS
<1>3. closed.pending = s.pending \o [i \in 1 .. Len(s.indents) - 1 |->
                                       Token("dedent", s.pos, s.pos)]
  BY DEF Stands, LexerState
<1>4. closed.pending = <<>>
  BY <1>1, <1>2, <1>3
<1>5. EndOfText(s).token = Token("eof", s.pos, s.pos)
  BY <1>4 DEF EndOfText
<1> QED BY <1>5 DEF Token

\* A newline in a line.
LEMMA NewlineReturned ==
  ASSUME NEW C, NEW t \in Seq(C), NEW p \in Nat, At(t, p) = "nl", p # Len(t),
         NEW s, InLine(s, p, <<>>)
  PROVE  /\ AtLine(ReadNext(t, s).lexer, p + 1)
         /\ ReadNext(t, s).token = Token("newline", p, p + 1)
<1> DEFINE h == [s EXCEPT !.fresh = TRUE]
<1>1. s.pos = p
  BY DEF InLine, Stands
<1>2. ReadNext(t, s) = Upto(h, "newline", p + 1)
  BY <1>1 DEF ReadNext, Opener, Closer
<1>3. AtLine(h, p)
  BY DEF AtLine, InLine, Stands, LexerState
<1> HIDE DEF h
<1>4. /\ Upto(h, "newline", p + 1).lexer = [h EXCEPT !.pos = p + 1]
      /\ Upto(h, "newline", p + 1).token = Token("newline", h.pos, p + 1)
  BY DEF Upto
<1>5. AtLine([h EXCEPT !.pos = p + 1], p + 1) /\ h.pos = p
  BY <1>3 DEF AtLine, Stands, LexerState
<1> QED BY <1>2, <1>4, <1>5

LEMMA LineAlike ==
  ASSUME NEW C, NEW t \in Seq(C), NEW v \in Seq(C), NEW k \in Nat, Slice(t, k, v),
         NEW p \in 0 .. Len(v), NEW s, NEW r,
         InLine(s, p, <<>>), InLine(r, k + p, <<>>),
         (p > 0 /\ v[p] # "nl") \/ At(v, p) # "nl"
  PROVE  LET n == NextInLine(v, s)
             m == NextInLine(t, r)
         IN  PartEnds(t, k, v, n, m) \/ BothGo(v, k, p, <<>>, n, m)
<1> DEFINE e  == SkipWhitespace(v, 0)[p]
           s2 == [s EXCEPT !.pos = e]
           r2 == [r EXCEPT !.pos = k + e]
           n  == ReadNext(v, s2)
           m  == ReadNext(t, r2)
<1>1. Len(t) \in Nat /\ Len(v) \in Nat /\ p \in Nat /\ k + Len(v) <= Len(t)
  BY LenProperties DEF Slice
<1>2. /\ e \in p .. Len(v) /\ At(v, e) \notin Blank
      /\ e = p \/ v[e] \in Blank
      /\ SkipWhitespace(t, 0)[k + p] = k + e
  BY WhitespaceAlike
<1>3. s.pos = p /\ s.depth = 0 /\ r.pos = k + p /\ r.depth = 0
  BY DEF InLine, Stands
<1>4. NextInLine(v, s) = n /\ NextInLine(t, r) = m
  BY <1>2, <1>3 DEF NextInLine
<1> HIDE DEF e
<1>5. e \in Nat /\ k + e \in Nat /\ e \in 0 .. Len(v)
  BY <1>1, <1>2
<1>6. InLine(s2, e, <<>>) /\ InLine(r2, k + e, <<>>)
  BY <1>5 DEF InLine, Stands, LexerState
<1> HIDE DEF s2, r2
<1>7. s2.pos = e /\ r2.pos = k + e
  BY <1>6 DEF InLine, Stands
<1>8. CASE e = Len(v)
  <2>1. n.token.kind = "eof"
    <3>1. n = EndOfText(s2)
      BY <1>7, <1>8 DEF ReadNext
    <3> QED BY <1>6, <3>1, PartRead DEF InLine
  <2>2. CASE k + e = Len(t)
    <3>1. m = EndOfText(r2)
      BY <1>7, <2>2 DEF ReadNext
    <3>2. m.token.kind = "eof"
      BY <1>6, <3>1, PartRead DEF InLine
    <3> QED BY <1>4, <1>8, <2>1, <2>2, <3>2 DEF PartEnds
  <2>3. CASE k + e # Len(t)
    <3>1. At(t, k + e) = "nl"
      BY <1>1, <1>8, <2>3 DEF Slice
    <3>2. /\ AtLine(m.lexer, k + e + 1)
          /\ m.token = Token("newline", k + e, k + e + 1)
      BY <1>5, <1>6, <2>3, <3>1, NewlineReturned
    <3> QED BY <1>4, <1>8, <2>1, <2>3, <3>2 DEF PartEnds
  <2> QED BY <2>2, <2>3
<1>9. CASE e < Len(v) /\ At(v, e) = "nl"
  <2>1. At(t, k + e) = "nl" /\ k + e # Len(t) /\ e # Len(v)
    <3>1. At(v, e) = v[e + 1] /\ At(t, k + e) = v[e + 1]
      BY <1>5, <1>9, SliceAt
    <3> QED BY <1>1, <1>5, <1>9, <3>1
  <2>2. AtLine(n.lexer, e + 1) /\ n.token = Token("newline", e, e + 1)
    BY <1>5, <1>6, <1>9, <2>1, NewlineReturned
  <2>3. /\ AtLine(m.lexer, k + e + 1)
        /\ m.token = Token("newline", k + e, k + e + 1)
    BY <1>5, <1>6, <2>1, NewlineReturned
  <2>4. e > 0 /\ v[e] # "nl"
    <3>1. CASE e = p
      BY <1>9, <3>1
    <3>2. CASE e # p
      BY <1>1, <1>2, <3>2 DEF Blank
    <3> QED BY <3>1, <3>2
  <2> DEFINE a == e
             z == e + 1
  <2>5. /\ z \in 0 .. Len(v) /\ a \in 0 .. Len(v) /\ z = a + 1 /\ k + e + 1 = k + z
        /\ v[z] = "nl" /\ p + 1 <= z
    <3>1. v[e + 1] = "nl"
      BY <1>5, <1>9 DEF At
    <3> QED BY <1>1, <1>2, <1>5, <1>9, <3>1
  <2> HIDE DEF z
  <2>6. Together(v, k, n.lexer, m.lexer, z, <<>>)
    <3>1. AtLine(n.lexer, z) /\ AtLine(m.lexer, k + z)
      BY <2>2, <2>3, <2>5
    <3>2. LineBegins(v, z)
      BY <2>5 DEF LineBegins
    <3> HIDE DEF n, m
    <3> QED BY <2>5, <3>1, <3>2 DEF Together
  <2>7. Spent(p, <<>>) + 1 <= Spent(z, <<>>)
    BY <2>5 DEF Spent
  <2>8. n.token = Token("newline", a, z) /\ m.token = Token("newline", k + a, k + z)
    BY <2>2, <2>3, <2>5
  <2> HIDE DEF n, m
  <2>9. BothGo(v, k, p, <<>>, n, m)
    BY <1>9, <2>4, <2>5, <2>6, <2>7, <2>8 DEF BothGo
  <2> QED BY <1>4, <2>9
<1>10. CASE e < Len(v) /\ At(v, e) # "nl"
  <2>1. ReadAlike(v, k, e, n, m)
    BY <1>5, <1>6, <1>10, ReadNextAlike
  <2> HIDE DEF n, m
  <2>2. PICK kind, z, gs :
          /\ kind \in PlainKind /\ z \in e + 1 .. Len(v)
          /\ InLine(n.lexer, z, gs) /\ n.token = Token(kind, e, z)
          /\ InLine(m.lexer, k + z, gs) /\ m.token = Token(kind, k + e, k + z)
          /\ v[z] # "nl"
          /\ \/ gs = <<>>
             \/ e + 2 <= z /\ \E q \in Quote : gs = <<FStringOf(q)>>
    BY <2>1 DEF ReadAlike
  <2>3. Together(v, k, n.lexer, m.lexer, z, gs)
    BY <1>1, <1>5, <2>2 DEF Together
  <2>4. Spent(p, <<>>) + 1 <= Spent(z, gs)
    <3>1. Spent(p, <<>>) = p /\ p <= e
      BY <1>1, <1>2 DEF Spent
    <3>2. CASE gs = <<>>
      BY <1>1, <1>5, <2>2, <3>1, <3>2 DEF Spent
    <3>3. CASE gs # <<>>
      BY <1>1, <1>5, <2>2, <3>1, <3>3 DEF Spent
    <3> QED BY <3>2, <3>3
  <2>5. kind # "newline" /\ z \in 0 .. Len(v)
    BY <1>1, <1>5, <2>2, KindsApart
  <2>6. BothGo(v, k, p, <<>>, n, m)
    BY <1>5, <2>2, <2>3, <2>4, <2>5 DEF BothGo
  <2> QED BY <1>4, <2>6
<1> QED BY <1>1, <1>5, <1>8, <1>9, <1>10

\* Where lines begin, and no bytes are left or no blanks and newlines follow.
LEMMA IndentationAlike ==
  ASSUME NEW C, NEW t \in Seq(C), NEW v \in Seq(C), NEW k \in Nat, Slice(t, k, v),
         NEW p \in 0 .. Len(v), p < Len(v), LineBegins(v, p), NEW s, NEW r,
         AtLine(s, p), AtLine(r, k + p)
  PROVE  LET n == NextInText(v, s)
             m == NextInText(t, r)
         IN  PartEnds(t, k, v, n, m) \/ BothGo(v, k, p, <<>>, n, m)
<1> DEFINE n  == NextInText(v, s)
           m  == NextInText(t, r)
           s1 == [s EXCEPT !.fresh = FALSE]
           r1 == [r EXCEPT !.fresh = FALSE]
<1>1. Len(t) \in Nat /\ Len(v) \in Nat /\ p \in Nat /\ k + Len(v) <= Len(t)
  BY LenProperties DEF Slice
<1>2. PICK e \in p .. Len(v) :
        /\ LineBegins(v, e) /\ At(v, e) # "nl"
        /\ k + Len(v) < Len(t) => e < Len(v)
        /\ PassBlankLines(v, p) = LineAt(e)
        /\ PassBlankLines(t, k + p) = LineAt(k + e)
  BY BlankLinesAlike
<1>3. e \in Nat /\ k + e \in Nat /\ e \in 0 .. Len(v)
  BY <1>1
<1>4. ASSUME NEW x, NEW u, NEW o \in Nat, NEW a \in Nat, Len(u) \in Nat,
             AtLine(x, o), o < Len(u),
             PassBlankLines(u, o) = LineAt(a)
      PROVE  \E y : /\ InLine(y, a, <<>>)
                    /\ NextInText(u, x) = NextInLine(u, y)
  <2> DEFINE x1   == [x EXCEPT !.fresh = FALSE]
             line == LineAt(a)
             y    == [x1 EXCEPT !.pos = a, !.pending = <<>>]
             h    == IndentLine(u, x1, line)
  <2>1. x.pos = o /\ x.fresh /\ x.fstrings = <<>> /\ x.depth = 0
    BY <1>4 DEF AtLine, Stands
  <2>2. InLine(x1, o, <<>>)
    BY <1>4 DEF AtLine, InLine, Stands, LexerState
  <2>3. NextInText(u, x) = NextBehind(u, HandleIndentation(u, x1))
    BY <1>4, <2>1 DEF NextInText, InFString
  <2> HIDE DEF x1
  <2>4. x1.pos = o /\ x1.indents = <<0>>
    BY <2>2 DEF InLine, Stands
  <2>5. InLine(y, a, <<>>)
    <3> DEFINE y1 == [x1 EXCEPT !.pos = a]
    <3>1. InLine(y1, a, <<>>)
      BY <2>2 DEF InLine, Stands, LexerState
    <3>2. y = [y1 EXCEPT !.pending = <<>>]
      BY <2>2 DEF InLine, Stands, LexerState
    <3> HIDE DEF y1, y
    <3> QED BY <3>1, <3>2 DEF InLine, Stands, LexerState
  <2>6. HandleIndentation(u, x1) = h
    BY <1>4, <2>4 DEF HandleIndentation
  <2>7. /\ Column(u, a, a) = 0 /\ Last(x1.indents) = 0
        /\ {i \in DOMAIN x1.indents : x1.indents[i] > 0} = {}
    BY <2>4, NoColumn DEF Last
  <2>8. h = [lexer |-> y, token |-> Token("none", 0, 0)]
    <3>1. line.start = a /\ line.end = a /\ line.comments = <<>>
      BY DEF LineAt
    <3> HIDE DEF line
    <3> QED BY <2>7, <3>1 DEF IndentLine
  <2>9. h.lexer = y /\ h.token.kind = "none"
    BY <2>8 DEF Token
  <2> HIDE DEF h, y
  <2>10. NextInText(u, x) = NextInLine(u, y)
    BY <2>3, <2>6, <2>9 DEF NextBehind
  <2> QED BY <2>5, <2>10
<1>5. PICK s2 : InLine(s2, e, <<>>) /\ n = NextInLine(v, s2)
  BY <1>1, <1>2, <1>3, <1>4
<1>6. PICK r2 : InLine(r2, k + e, <<>>) /\ m = NextInLine(t, r2)
  <2>1. k + p \in Nat /\ k + p < Len(t)
    BY <1>1
  <2> QED BY <1>1, <1>2, <1>3, <1>4, <2>1
<1> HIDE DEF n, m
<1>7. PartEnds(t, k, v, n, m) \/ BothGo(v, k, e, <<>>, n, m)
  BY <1>2, <1>3, <1>5, <1>6, LineAlike
<1>8. BothGo(v, k, e, <<>>, n, m) => BothGo(v, k, p, <<>>, n, m)
  <2> SUFFICES ASSUME BothGo(v, k, e, <<>>, n, m) PROVE BothGo(v, k, p, <<>>, n, m)
    OBVIOUS
  <2>1. PICK kind, a, z, gs :
          /\ kind \in PlainKind \cup {"newline"}
          /\ a \in 0 .. Len(v) /\ z \in 0 .. Len(v)
          /\ Together(v, k, n.lexer, m.lexer, z, gs)
          /\ n.token = Token(kind, a, z) /\ m.token = Token(kind, k + a, k + z)
          /\ Spent(e, <<>>) + 1 <= Spent(z, gs)
          /\ kind = "newline" => /\ a > 0 /\ v[a] # "nl" /\ At(v, a) = "nl"
                                 /\ z = a + 1
    BY DEF BothGo
  <2>2. Spent(p, <<>>) + 1 <= Spent(z, gs)
    BY <1>1, <1>3, <2>1 DEF Spent
  <2> QED BY <2>1, <2>2 DEF BothGo
<1> QED BY <1>7, <1>8 DEF n, m

\* Inside an f-string.
LEMMA ContentAlike ==
  ASSUME NEW C, NEW t \in Seq(C), NEW v \in Seq(C), NEW k \in Nat, Slice(t, k, v),
         NEW p \in 0 .. Len(v), p > 0, v[p] # "nl", NEW q \in Quote,
         NEW f, f = FStringOf(q), NEW s, NEW r,
         InLine(s, p, <<f>>), InLine(r, k + p, <<f>>), ~ NeverReturns(t, r)
  PROVE  LET n == ScanFStringContent(v, s)
             m == ScanFStringContent(t, r)
         IN  /\ BothGo(v, k, p, <<f>>, n, m)
             /\ ~ NeverReturns(v, s)
             /\ InFString(s) /\ InFString(r)
<1> DEFINE n  == ScanFStringContent(v, s)
           m  == ScanFStringContent(t, r)
           s2 == [s EXCEPT !.fstrings = <<>>]
           r2 == [r EXCEPT !.fstrings = <<>>]
           e  == ScanFStringLiteral(v, f)[p]
<1>1. Len(t) \in Nat /\ Len(v) \in Nat /\ p \in Nat /\ k + p \in Nat
      /\ k + Len(v) <= Len(t) /\ LineByLine(v)
  BY LenProperties DEF Slice
<1>2. /\ s.pos = p /\ s.fstrings = <<f>> /\ s.pending = <<>>
      /\ r.pos = k + p /\ r.fstrings = <<f>> /\ r.pending = <<>>
  BY DEF InLine, Stands
<1>3. f.quote = q /\ f.triple = FALSE /\ f.braces = 0
  BY DEF FStringOf
<1>4. Last(<<f>>) = f /\ Front(<<f>>) = <<>> /\ <<f>> # <<>>
  BY DEF Last, Front
<1>5. InFString(s) /\ InFString(r)
  BY <1>2, <1>3, <1>4 DEF InFString
<1>6. InLine(s2, p, <<>>) /\ InLine(r2, k + p, <<>>)
  <2>1. <<>> \in Seq(FString)
    OBVIOUS
  <2>2. InLine(s2, p, <<>>)
    BY <2>1 DEF InLine, Stands, LexerState
  <2>3. InLine(r2, k + p, <<>>)
    BY <2>1 DEF InLine, Stands, LexerState
  <2> QED BY <2>2, <2>3
<1>7. /\ Closes(v, p, f) <=> At(v, p) = q
      /\ Closes(t, k + p, f) <=> At(t, k + p) = q
  BY <1>3 DEF Closes
<1>8. ~ EntersHole(v, p) /\ ~ EntersHole(t, k + p)
  <2>1. At(v, p) # "{"
    BY <1>1, LineBytes DEF Opener
  <2>2. \A c : c # "nl" /\ c # "end" => (At(v, p) = c <=> At(t, k + p) = c)
    BY SliceAt
  <2>3. At(t, k + p) # "{"
    BY <2>1, <2>2
  <2> QED BY <2>1, <2>3 DEF EntersHole
<1>9. /\ e \in p .. Len(v) /\ (e = p \/ v[e] # "nl")
      /\ ScanFStringLiteral(t, f)[k + p] = k + e
  BY LiteralAlike
<1>10. LiteralEnd(v, s) = e /\ LiteralEnd(t, r) = k + e
  BY <1>2, <1>4, <1>9 DEF LiteralEnd
<1> HIDE DEF e
<1>11. Spent(p, <<f>>) = p - 1
  BY <1>4 DEF Spent
<1>12. (At(v, p) = q <=> At(t, k + p) = q) /\ At(v, Len(v)) # q
  BY <1>1, SliceAt, QuoteIsByte
<1> HIDE DEF s2, r2
<1>13. /\ s2 = [s EXCEPT !.fstrings = Front(s.fstrings)]
       /\ r2 = [r EXCEPT !.fstrings = Front(r.fstrings)]
  BY <1>2, <1>4 DEF s2, r2
<1>14. CASE p = Len(v)
  <2>1. k + p = Len(t)
    <3> SUFFICES ASSUME k + p # Len(t) PROVE FALSE
      OBVIOUS
    <3>1. At(t, k + p) = "nl" /\ k + p < Len(t)
      BY <1>1, <1>14 DEF Slice
    <3>2. ~ Closes(t, k + p, f)
      BY <1>7, <3>1, QuoteIsByte
    <3>3. e = p
      BY <1>1, <1>9, <1>14
    <3> QED BY <1>2, <1>4, <1>5, <1>8, <1>10, <3>1, <3>2, <3>3 DEF NeverReturns
  <2>2. n = Upto(s2, "error", p) /\ m = Upto(r2, "error", k + p)
    BY <1>2, <1>13, <1>14, <2>1 DEF ScanFStringContent
  <2>3. /\ InLine(n.lexer, p, <<>>) /\ n.token = Token("error", p, p)
        /\ InLine(m.lexer, k + p, <<>>) /\ m.token = Token("error", k + p, k + p)
    BY <1>1, <1>6, <2>2, UptoIs
  <2> HIDE DEF n, m
  <2>4. Together(v, k, n.lexer, m.lexer, p, <<>>)
    BY <2>3 DEF Together
  <2>5. Spent(p, <<f>>) + 1 <= Spent(p, <<>>) /\ "error" \in PlainKind
    BY <1>1, <1>11 DEF Spent, PlainKind
  <2>6. "error" # "newline"
    OBVIOUS
  <2>7. BothGo(v, k, p, <<f>>, n, m)
    BY <2>3, <2>4, <2>5, <2>6 DEF BothGo
  <2>8. ~ NeverReturns(v, s)
    BY <1>1, <1>2, <1>14 DEF NeverReturns
  <2> QED BY <1>5, <2>7, <2>8 DEF n, m
<1>15. CASE p < Len(v) /\ At(v, p) = q
  <2> DEFINE z == p + 1
  <2>1. /\ k + p # Len(t) /\ p # Len(v) /\ z \in 0 .. Len(v) /\ z \in Nat
        /\ k + p + 1 = k + z /\ k + z \in Nat /\ p + 1 = z /\ z > 0
    BY <1>1, <1>15
  <2>2. n = Upto(s2, "fend", p + 1) /\ m = Upto(r2, "fend", k + p + 1)
    BY <1>2, <1>3, <1>4, <1>7, <1>12, <1>13, <1>15, <2>1 DEF ScanFStringContent
  <2>10. n = Upto(s2, "fend", z) /\ m = Upto(r2, "fend", k + z)
    BY <2>1, <2>2
  <2>3. v[z] # "nl"
    BY <1>1, <1>15, QuoteIsByte DEF At
  <2> HIDE DEF z
  <2>4. /\ InLine(n.lexer, z, <<>>) /\ n.token = Token("fend", p, z)
        /\ InLine(m.lexer, k + z, <<>>) /\ m.token = Token("fend", k + p, k + z)
    BY <1>6, <2>1, <2>10, UptoIs
  <2> HIDE DEF n, m
  <2>5. Together(v, k, n.lexer, m.lexer, z, <<>>)
    BY <2>1, <2>3, <2>4 DEF Together
  <2>6. Spent(p, <<f>>) + 1 <= Spent(z, <<>>) /\ "fend" \in PlainKind
    BY <1>1, <1>11, <2>1 DEF Spent, PlainKind
  <2>7. "fend" # "newline"
    OBVIOUS
  <2>8. BothGo(v, k, p, <<f>>, n, m)
    BY <2>1, <2>4, <2>5, <2>6, <2>7 DEF BothGo
  <2>9. ~ NeverReturns(v, s)
    BY <1>2, <1>4, <1>7, <1>15 DEF NeverReturns
  <2> QED BY <1>5, <2>8, <2>9 DEF n, m
<1>16. CASE p < Len(v) /\ At(v, p) # q
  <2>1. k + p < Len(t) /\ k + p # Len(t) /\ p # Len(v)
    BY <1>1, <1>16
  <2>2. e # p
    BY <1>2, <1>4, <1>5, <1>7, <1>8, <1>10, <1>12, <1>16, <2>1 DEF NeverReturns
  <2>3. ~ NeverReturns(v, s)
    BY <1>2, <1>10, <2>2 DEF NeverReturns
  <2>4. n = Upto(s, "flit", e) /\ m = Upto(r, "flit", k + e)
    BY <1>2, <1>4, <1>7, <1>8, <1>10, <1>12, <1>16, <2>1 DEF ScanFStringContent
  <2>5. e \in Nat /\ k + e \in Nat /\ e \in 0 .. Len(v) /\ e > 0 /\ p + 1 <= e
    BY <1>1, <1>9, <2>2
  <2>6. /\ InLine(n.lexer, e, <<f>>) /\ n.token = Token("flit", p, e)
        /\ InLine(m.lexer, k + e, <<f>>) /\ m.token = Token("flit", k + p, k + e)
    BY <2>4, <2>5, UptoIs
  <2> HIDE DEF n, m
  <2>7. Together(v, k, n.lexer, m.lexer, e, <<f>>)
    BY <1>9, <2>2, <2>5, <2>6 DEF Together
  <2>8. Spent(p, <<f>>) + 1 <= Spent(e, <<f>>) /\ "flit" \in PlainKind
    BY <1>1, <1>4, <1>11, <2>5 DEF Spent, PlainKind
  <2>9. "flit" # "newline"
    OBVIOUS
  <2>10. BothGo(v, k, p, <<f>>, n, m)
    BY <2>5, <2>6, <2>7, <2>8, <2>9 DEF BothGo
  <2> QED BY <1>5, <2>3, <2>10 DEF n, m
<1> QED BY <1>1, <1>14, <1>15, <1>16

\* At the end of a text.
LEMMA EndReturned ==
  ASSUME NEW C, NEW t \in Seq(C), NEW s, AtLine(s, Len(t))
  PROVE  NextInText(t, s).token.kind = "eof"
<1> DEFINE p == Len(t)
           e == SkipWhitespace(t, 0)[p]
           y == [s EXCEPT !.pos = e]
<1>1. p \in Nat /\ 0 \in Nat
  BY LenProperties
<1>2. s.pos = p /\ s.fstrings = <<>> /\ s.depth = 0
  BY DEF AtLine, Stands
<1>3. e \in p .. Len(t)
  BY <1>1, WhitespaceSkipped
<1>4. e = p
  BY <1>1, <1>3
<1>5. NextInText(t, s) = ReadNext(t, y)
  BY <1>1, <1>2 DEF NextInText, NextInLine, InFString
<1> HIDE DEF e
<1>6. Stands(y, p, <<>>)
  BY <1>1, <1>4 DEF AtLine, Stands, LexerState
<1> HIDE DEF y
<1>7. y.pos = Len(t)
  BY <1>6 DEF Stands
<1>8. ReadNext(t, y) = EndOfText(y)
  BY <1>7 DEF ReadNext
<1> QED BY <1>5, <1>6, <1>8, PartRead

LEMMA NextAlike ==
  ASSUME NEW C, NEW t \in Seq(C), NEW v \in Seq(C), NEW k \in Nat, Slice(t, k, v),
         NEW p, NEW fs, NEW s, NEW r, Together(v, k, s, r, p, fs),
         ~ NeverReturns(t, r)
  PROVE  LET n == NextToken(v, s)
             m == NextToken(t, r)
         IN  /\ ~ NeverReturns(v, s)
             /\ PartEnds(t, k, v, n, m) \/ BothGo(v, k, p, fs, n, m)
<1>1. Len(t) \in Nat /\ Len(v) \in Nat /\ p \in 0 .. Len(v) /\ p \in Nat
      /\ k + Len(v) <= Len(t)
  BY LenProperties DEF Slice, Together
<1>2. CASE AtLine(s, p) /\ AtLine(r, k + p) /\ fs = <<>> /\ LineBegins(v, p)
  <2>1. /\ s.pending = <<>> /\ r.pending = <<>>
        /\ s.fstrings = <<>> /\ r.fstrings = <<>>
    BY <1>2 DEF AtLine, Stands
  <2>2. /\ NextToken(v, s) = NextInText(v, s) /\ NextToken(t, r) = NextInText(t, r)
        /\ ~ NeverReturns(v, s)
    BY <2>1 DEF NextToken, NeverReturns, InFString
  <2>3. CASE p < Len(v)
    BY <1>1, <1>2, <2>2, <2>3, IndentationAlike
  <2>4. CASE ~ (p < Len(v))
    <3>1. p = Len(v)
      BY <1>1, <2>4
    <3>2. k + Len(v) = Len(t)
      BY <1>1, <1>2, <3>1 DEF Slice, LineBegins
    <3>3. NextInText(v, s).token.kind = "eof"
      BY <1>2, <3>1, EndReturned
    <3>4. NextInText(t, r).token.kind = "eof"
      BY <1>2, <3>1, <3>2, EndReturned
    <3>5. PartEnds(t, k, v, NextInText(v, s), NextInText(t, r))
      BY <3>2, <3>3, <3>4 DEF PartEnds
    <3> QED BY <2>2, <3>5
  <2> QED BY <2>3, <2>4
<1>3. CASE InLine(s, p, <<>>) /\ InLine(r, k + p, <<>>) /\ fs = <<>>
           /\ p > 0 /\ v[p] # "nl"
  <2>1. /\ s.pending = <<>> /\ r.pending = <<>>
        /\ s.fstrings = <<>> /\ r.fstrings = <<>> /\ ~ s.fresh /\ ~ r.fresh
    BY <1>3 DEF InLine, Stands
  <2>2. /\ NextToken(v, s) = NextInLine(v, s) /\ NextToken(t, r) = NextInLine(t, r)
        /\ ~ NeverReturns(v, s)
    BY <2>1 DEF NextToken, NextInText, NeverReturns, InFString
  <2> QED BY <1>1, <1>3, <2>2, LineAlike
<1>4. ASSUME NEW q \in Quote, fs = <<FStringOf(q)>>, InLine(s, p, fs),
             InLine(r, k + p, fs), p > 0, v[p] # "nl"
      PROVE  /\ ~ NeverReturns(v, s)
             /\ BothGo(v, k, p, fs, NextToken(v, s), NextToken(t, r))
  <2> DEFINE f == FStringOf(q)
  <2>1. InLine(s, p, <<f>>) /\ InLine(r, k + p, <<f>>) /\ fs = <<f>>
    BY <1>4
  <2> HIDE DEF f
  <2>2. f = FStringOf(q)
    BY DEF f
  <2>3. /\ BothGo(v, k, p, <<f>>, ScanFStringContent(v, s), ScanFStringContent(t, r))
        /\ ~ NeverReturns(v, s)
        /\ InFString(s) /\ InFString(r)
    BY <1>1, <1>4, <2>1, <2>2, ContentAlike
  <2>4. s.pending = <<>> /\ r.pending = <<>>
    BY <2>1 DEF InLine, Stands
  <2>5. /\ NextToken(v, s) = ScanFStringContent(v, s)
        /\ NextToken(t, r) = ScanFStringContent(t, r)
    BY <2>3, <2>4 DEF NextToken, NextInText
  <2> QED BY <2>1, <2>3, <2>5
<1> QED BY <1>1, <1>2, <1>3, <1>4 DEF Together

(***************************************************************************)
(* tokenize on the part and on the text.                                   *)
(***************************************************************************)
Reader(r) == \E l, toks, o : r = [lexer |-> l, tokens |-> toks, over |-> o]

Reading(t) == CHOOSE g : IsRead(g, t)

LEMMA ReadOneIs ==
  ASSUME NEW t, NEW r, Reader(r)
  PROVE  LET n == NextToken(t, r.lexer)
             x == ReadOne(t, r)
         IN  /\ Reader(x)
             /\ r.over \/ NeverReturns(t, r.lexer) => x = r
             /\ ~ r.over /\ ~ NeverReturns(t, r.lexer)
                  => IF n.token.kind = "eof" THEN x.over /\ x.tokens = r.tokens
                     ELSE /\ ~ x.over /\ x.lexer = n.lexer
                          /\ x.tokens = Append(r.tokens, n.token)
<1> DEFINE n == NextToken(t, r.lexer)
           x == ReadOne(t, r)
           y == [r EXCEPT !.over = TRUE]
           z == [r EXCEPT !.lexer = n.lexer, !.tokens = Append(@, n.token)]
           State(l, toks, o) == [lexer |-> l, tokens |-> toks, over |-> o]
<1>1. PICK l, toks, o : r = State(l, toks, o)
  BY DEF Reader
<1>2. y = State(l, toks, TRUE)
  <2>1. \A v : [State(l, toks, o) EXCEPT !.over = v] = State(l, toks, v)
    OBVIOUS
  <2> HIDE DEF State
  <2> QED BY <1>1, <2>1
<1>3. z = State(n.lexer, Append(toks, n.token), o)
  <2>1. r.lexer = l /\ r.tokens = toks /\ r.over = o
    BY <1>1
  <2>2. z = [r EXCEPT !.lexer = n.lexer, !.tokens = Append(@, n.token)]
    OBVIOUS
  <2> HIDE DEF n, z
  <2> QED BY <1>1, <2>1, <2>2
<1>4. r.lexer = l /\ r.tokens = toks /\ r.over = o
  BY <1>1
<1>5. Reader(y) /\ y.over /\ y.tokens = r.tokens
  <2>1. y.over /\ y.tokens = r.tokens
    BY <1>2, <1>4
  <2>2. Reader(State(l, toks, TRUE))
    BY Zenon DEF Reader
  <2> HIDE DEF State, y
  <2> QED BY <1>2, <2>1, <2>2
<1>6. /\ Reader(z) /\ z.lexer = n.lexer /\ z.tokens = Append(r.tokens, n.token)
      /\ z.over = r.over
  <2>1. /\ z.lexer = n.lexer /\ z.tokens = Append(r.tokens, n.token)
        /\ z.over = r.over
    BY <1>3, <1>4
  <2>2. Reader(State(n.lexer, Append(toks, n.token), o))
    BY Zenon DEF Reader
  <2> HIDE DEF State, z
  <2> QED BY <1>3, <2>1, <2>2
<1>7. x = IF r.over \/ NeverReturns(t, r.lexer) THEN r
          ELSE IF n.token.kind = "eof" THEN y ELSE z
  BY DEF ReadOne
<1> HIDE DEF x, y, z, n
<1>8. Reader(x)
  BY <1>5, <1>6, <1>7
<1>9. r.over \/ NeverReturns(t, r.lexer) => x = r
  BY <1>7
<1>10. ASSUME ~ r.over, ~ NeverReturns(t, r.lexer)
       PROVE  IF n.token.kind = "eof" THEN x.over /\ x.tokens = r.tokens
              ELSE /\ ~ x.over /\ x.lexer = n.lexer
                   /\ x.tokens = Append(r.tokens, n.token)
  <2>1. CASE n.token.kind = "eof"
    <3>1. x = y
      BY <1>7, <1>10, <2>1
    <3> QED BY <1>5, <2>1, <3>1
  <2>2. CASE n.token.kind # "eof"
    <3>1. x = z
      BY <1>7, <1>10, <2>2
    <3> QED BY <1>6, <1>10, <2>2, <3>1
  <2> QED BY <2>1, <2>2
<1> QED BY <1>8, <1>9, <1>10 DEF x, n

LEMMA ReadingIs ==
  ASSUME NEW t, Len(t) \in Nat
  PROVE  LET g == Reading(t)
             N == 3 * Len(t) + 3
         IN  /\ g[0] = NothingRead /\ Tokenize(t) = g[N]
             /\ \A n \in 0 .. N - 1 : g[n + 1] = ReadOne(t, g[n])
             /\ \A n \in 0 .. N : Reader(g[n])
<1> DEFINE g == Reading(t)
           N == 3 * Len(t) + 3
           S == {n \in 0 .. N : Reader(g[n])}
<1>1. N \in Nat
  OBVIOUS
<1>2. IsRead(g, t)
  BY ReadExists DEF Reading
<1>3. Tokenize(t) = g[N]
  BY DEF Tokenize, Reading, IsRead
<1> HIDE DEF g
<1>4. g[0] = NothingRead /\ \A n \in 1 .. N : g[n] = ReadOne(t, g[n - 1])
  BY <1>1, <1>2 DEF IsRead
<1> HIDE DEF N
<1>5. \A n \in 0 .. N - 1 : g[n + 1] = ReadOne(t, g[n])
  <2> SUFFICES ASSUME NEW n \in 0 .. N - 1 PROVE g[n + 1] = ReadOne(t, g[n])
    OBVIOUS
  <2>1. n + 1 \in 1 .. N /\ (n + 1) - 1 = n
    BY <1>1
  <2> QED BY <1>4, <2>1
<1>6. 0 \in S
  <2>1. Reader(NothingRead)
    BY Zenon DEF Reader, NothingRead
  <2> QED BY <1>1, <1>4, <2>1
<1>7. ASSUME NEW n \in 0 .. N - 1, n \in S PROVE n + 1 \in S
  <2>1. Reader(g[n]) /\ n + 1 \in 0 .. N
    BY <1>1, <1>7
  <2>2. Reader(ReadOne(t, g[n]))
    BY <2>1, ReadOneIs
  <2> QED BY <1>5, <2>1, <2>2
<1> HIDE DEF S
<1>8. \A n \in 0 .. N : n \in S
  BY <1>1, <1>6, <1>7, Upwards
<1>9. \A n \in 0 .. N : Reader(g[n])
  BY <1>8 DEF S
<1> QED BY <1>3, <1>4, <1>5, <1>9 DEF g, N

\* Once a call changes nothing, none does.
LEMMA ReadingStays ==
  ASSUME NEW t, Len(t) \in Nat, NEW i \in 0 .. 3 * Len(t) + 3,
         ReadOne(t, Reading(t)[i]) = Reading(t)[i]
  PROVE  Tokenize(t) = Reading(t)[i]
<1> DEFINE g == Reading(t)
           N == 3 * Len(t) + 3
           S == {n \in 0 .. N : n >= i => g[n] = g[i]}
<1>1. N \in Nat /\ i \in 0 .. N
  OBVIOUS
<1>2. Tokenize(t) = g[N] /\ \A n \in 0 .. N - 1 : g[n + 1] = ReadOne(t, g[n])
  BY ReadingIs
<1> HIDE DEF N
<1>3. 0 \in S
  BY <1>1
<1>4. ASSUME NEW n \in 0 .. N - 1, n \in S PROVE n + 1 \in S
  <2>1. n + 1 \in 0 .. N
    BY <1>1
  <2>2. CASE n >= i
    BY <1>2, <1>4, <2>1, <2>2
  <2>3. CASE ~ (n >= i)
    <3>1. n + 1 >= i => n + 1 = i
      BY <1>1, <2>3
    <3> QED BY <2>1, <3>1
  <2> QED BY <2>2, <2>3
<1> HIDE DEF S
<1>5. \A n \in 0 .. N : n \in S
  BY <1>1, <1>3, <1>4, Upwards
<1>6. g[N] = g[i]
  BY <1>1, <1>5 DEF S
<1> QED BY <1>2, <1>6

\* A text that is read to its end is not stuck before.
LEMMA ReadingGoesOn ==
  ASSUME NEW t, Len(t) \in Nat, Tokenize(t).over,
         NEW i \in 0 .. 3 * Len(t) + 3, ~ Reading(t)[i].over
  PROVE  /\ ~ NeverReturns(t, Reading(t)[i].lexer)
         /\ i + 1 \in 0 .. 3 * Len(t) + 3
         /\ Reading(t)[i + 1] = ReadOne(t, Reading(t)[i])
         /\ Reader(Reading(t)[i])
<1> DEFINE g == Reading(t)
           N == 3 * Len(t) + 3
<1>1. N \in Nat /\ i \in 0 .. N
  OBVIOUS
<1>2. /\ Tokenize(t) = g[N] /\ \A n \in 0 .. N - 1 : g[n + 1] = ReadOne(t, g[n])
      /\ Reader(g[i])
  BY ReadingIs
<1>3. ~ NeverReturns(t, g[i].lexer)
  <2> SUFFICES ASSUME NeverReturns(t, g[i].lexer) PROVE FALSE
    OBVIOUS
  <2>1. ReadOne(t, g[i]) = g[i]
    BY <1>2, ReadOneIs
  <2>2. Tokenize(t) = g[i]
    BY <2>1, ReadingStays
  <2> QED BY <2>2
<1>4. i # N
  BY <1>2
<1> HIDE DEF N, g
<1>5. i \in 0 .. N - 1 /\ i + 1 \in 0 .. N
  BY <1>1, <1>4
<1> QED BY <1>2, <1>3, <1>5 DEF N, g

LEMMA ReadingEnds ==
  ASSUME NEW t, Len(t) \in Nat, NEW i \in 0 .. 3 * Len(t) + 3, Reading(t)[i].over
  PROVE  Tokenize(t) = Reading(t)[i]
<1>1. Reader(Reading(t)[i])
  BY ReadingIs
<1>2. ReadOne(t, Reading(t)[i]) = Reading(t)[i]
  BY <1>1, ReadOneIs
<1> QED BY <1>2, ReadingStays

\* Tokens of a text whose lines can be read one at a time.
LineTokens(v) ==
  {c \in Tok : /\ c.kind \in PlainKind \cup {"newline"}
               /\ c.kind = "newline" => /\ c.start > 0 /\ v[c.start] # "nl"
                                        /\ At(v, c.start) = "nl"
                                        /\ c.end = c.start + 1}

\* The reader x of the part and the reader y of the text, which had read X.
SideBySide(v, k, X, x, y) ==
  /\ ~ x.over /\ ~ y.over
  /\ x.tokens \in Seq(LineTokens(v))
  /\ y.tokens = X \o ShiftAll(x.tokens, k)
  /\ \E p, fs : /\ Together(v, k, x.lexer, y.lexer, p, fs)
                /\ Len(x.tokens) <= Spent(p, fs)

PartOver(t, k, v, X, x, y) ==
  LET e == k + Len(v)
      Y == X \o ShiftAll(x.tokens, k)
  IN  /\ x.over /\ x.tokens \in Seq(LineTokens(v))
      /\ IF e = Len(t) THEN y.over /\ y.tokens = Y
         ELSE /\ ~ y.over /\ AtLine(y.lexer, e + 1)
              /\ y.tokens = Append(Y, Token("newline", e, e + 1))

LEMMA SameToken ==
  ASSUME NEW c \in Tok, NEW d \in Tok,
         c.kind = d.kind, c.start = d.start, c.end = d.end
  PROVE  c = d
BY DEF Tok

LEMMA ShiftedFields ==
  ASSUME NEW c \in Tok, NEW k \in Nat
  PROVE  /\ Shifted(c, k) \in Tok /\ Shifted(c, k).kind = c.kind
         /\ Shifted(c, k).start = c.start + k
         /\ Shifted(c, k).end = c.end + k
<1>1. c.kind \in Kind /\ c.start \in Nat /\ c.end \in Nat
  BY DEF Tok
<1> DEFINE w == [c EXCEPT !.start = c.start + k, !.end = c.end + k]
<1>2. c.start + k \in Nat /\ c.end + k \in Nat
  BY <1>1
<1>3. w \in Tok
  BY <1>1, <1>2 DEF Tok
<1>4. w.kind = c.kind
  BY DEF Tok
<1>5. w.start = c.start + k
  BY DEF Tok
<1>6. w.end = c.end + k
  BY DEF Tok
<1>7. Shifted(c, k) = w
  BY DEF Shifted
<1> HIDE DEF w
<1> QED BY <1>3, <1>4, <1>5, <1>6, <1>7

LEMMA ShiftedToken ==
  ASSUME NEW kind \in Kind, NEW a \in Nat, NEW e \in Nat, NEW k \in Nat
  PROVE  Shifted(Token(kind, a, e), k) = Token(kind, k + a, k + e)
<1> DEFINE c == Token(kind, a, e)
           d == Token(kind, k + a, k + e)
<1>1. c \in Tok /\ c.kind = kind /\ c.start = a /\ c.end = e
  BY TokenType
<1>2. k + a \in Nat /\ k + e \in Nat
  OBVIOUS
<1>3. d \in Tok /\ d.kind = kind /\ d.start = k + a /\ d.end = k + e
  BY <1>2, TokenType
<1> HIDE DEF c, d
<1>4. /\ Shifted(c, k) \in Tok /\ Shifted(c, k).kind = kind
      /\ Shifted(c, k).start = a + k /\ Shifted(c, k).end = e + k
  BY <1>1, ShiftedFields
<1>5. a + k = k + a /\ e + k = k + e
  OBVIOUS
<1>6. Shifted(c, k) = d
  <2> DEFINE x == Shifted(c, k)
  <2>1. x \in Tok /\ x.kind = d.kind /\ x.start = d.start /\ x.end = d.end
    BY <1>3, <1>4, <1>5
  <2> HIDE DEF x
  <2> QED BY <1>3, <2>1, SameToken DEF x
<1> QED BY <1>6 DEF c, d

LEMMA ShiftedMore ==
  ASSUME NEW q \in Seq(Tok), NEW c \in Tok, NEW k \in Nat
  PROVE  /\ ShiftAll(q, k) \in Seq(Tok) /\ Len(ShiftAll(q, k)) = Len(q)
         /\ ShiftAll(Append(q, c), k) = Append(ShiftAll(q, k), Shifted(c, k))
<1>1. Len(q) \in Nat /\ DOMAIN q = 1 .. Len(q)
  BY LenProperties
<1>2. \A i \in DOMAIN q : q[i] \in Tok
  BY <1>1, ElementOfSeq
<1>3. \A d \in Tok : Shifted(d, k) \in Tok
  BY ShiftedFields
<1>4. ShiftAll(q, k) = [i \in 1 .. Len(q) |-> Shifted(q[i], k)]
  BY <1>1 DEF ShiftAll
<1>5. ShiftAll(q, k) \in Seq(Tok) /\ Len(ShiftAll(q, k)) = Len(q)
  BY <1>1, <1>2, <1>3, <1>4
<1>6. ShiftAll(Append(q, c), k) = Append(ShiftAll(q, k), Shifted(c, k))
  <2> DEFINE z == Append(q, c)
             y == Append(ShiftAll(q, k), Shifted(c, k))
  <2>1. /\ Len(z) = Len(q) + 1 /\ DOMAIN z = 1 .. Len(q) + 1
        /\ \A i \in 1 .. Len(q) : z[i] = q[i]
        /\ z[Len(q) + 1] = c
    BY <1>1
  <2>2. ShiftAll(z, k) = [i \in 1 .. Len(q) + 1 |-> Shifted(z[i], k)]
    BY <2>1 DEF ShiftAll
  <2>3. /\ y \in Seq(Tok) /\ Len(y) = Len(q) + 1
        /\ \A i \in 1 .. Len(q) : y[i] = Shifted(q[i], k)
        /\ y[Len(q) + 1] = Shifted(c, k)
    <3>1. \A i \in 1 .. Len(q) : ShiftAll(q, k)[i] = Shifted(q[i], k)
      BY <1>4
    <3>2. Shifted(c, k) \in Tok
      BY <1>3
    <3> QED BY <1>1, <1>5, <3>1, <3>2
  <2> HIDE DEF y, z
  <2>4. y = [i \in 1 .. Len(q) + 1 |-> y[i]]
    BY <1>1, <2>3
  <2>5. \A i \in 1 .. Len(q) + 1 : y[i] = Shifted(z[i], k)
    BY <1>1, <2>1, <2>3
  <2>6. ShiftAll(z, k) = y
    BY <2>2, <2>4, <2>5
  <2> QED BY <2>6 DEF y, z
<1> QED BY <1>5, <1>6

LEMMA JoinedMore ==
  ASSUME NEW X \in Seq(Tok), NEW q \in Seq(Tok), NEW c \in Tok
  PROVE  X \o Append(q, c) = Append(X \o q, c)
OBVIOUS

LEMMA ReadOneAlike ==
  ASSUME NEW C, NEW t \in Seq(C), NEW v \in Seq(C), NEW k \in Nat, Slice(t, k, v),
         NEW X \in Seq(Tok), NEW x, NEW y, Reader(x), Reader(y),
         SideBySide(v, k, X, x, y), ~ NeverReturns(t, y.lexer)
  PROVE  LET x2 == ReadOne(v, x)
             y2 == ReadOne(t, y)
         IN  \/ PartOver(t, k, v, X, x2, y2)
             \/ /\ SideBySide(v, k, X, x2, y2)
                /\ Len(x2.tokens) = Len(x.tokens) + 1
<1> DEFINE x2 == ReadOne(v, x)
           y2 == ReadOne(t, y)
           n  == NextToken(v, x.lexer)
           m  == NextToken(t, y.lexer)
           q  == x.tokens
           Y  == X \o ShiftAll(q, k)
<1>1. Len(t) \in Nat /\ Len(v) \in Nat /\ k + Len(v) <= Len(t)
  BY LenProperties DEF Slice
<1>2. PICK p, fs : /\ Together(v, k, x.lexer, y.lexer, p, fs)
                   /\ Len(x.tokens) <= Spent(p, fs)
  BY DEF SideBySide
<1>3. /\ ~ NeverReturns(v, x.lexer)
      /\ PartEnds(t, k, v, n, m) \/ BothGo(v, k, p, fs, n, m)
  BY <1>2, NextAlike
<1>4. ~ x.over /\ ~ y.over /\ q \in Seq(LineTokens(v)) /\ y.tokens = Y
  BY DEF SideBySide
<1>5. q \in Seq(Tok) /\ Len(q) \in Nat
  BY <1>4, LenProperties DEF LineTokens
<1>6. IF n.token.kind = "eof" THEN x2.over /\ x2.tokens = q
      ELSE ~ x2.over /\ x2.lexer = n.lexer /\ x2.tokens = Append(q, n.token)
  BY <1>3, <1>4, ReadOneIs
<1>7. IF m.token.kind = "eof" THEN y2.over /\ y2.tokens = Y
      ELSE ~ y2.over /\ y2.lexer = m.lexer /\ y2.tokens = Append(Y, m.token)
  BY <1>4, ReadOneIs
<1> HIDE DEF x2, y2, n, m, q, Y
<1>8. CASE PartEnds(t, k, v, n, m)
  <2> DEFINE e == k + Len(v)
  <2>1. x2.over /\ x2.tokens = q
    BY <1>6, <1>8 DEF PartEnds
  <2>2. CASE e = Len(t)
    <3>1. y2.over /\ y2.tokens = Y
      BY <1>7, <1>8, <2>2 DEF PartEnds
    <3>2. PartOver(t, k, v, X, x2, y2)
      BY <1>4, <2>1, <2>2, <3>1 DEF PartOver, Y
    <3> QED BY <3>2 DEF x2, y2
  <2>3. CASE e # Len(t)
    <3>1. AtLine(m.lexer, e + 1) /\ m.token = Token("newline", e, e + 1)
      BY <1>8, <2>3 DEF PartEnds
    <3>2. m.token.kind # "eof"
      BY <3>1 DEF Token
    <3>3. /\ ~ y2.over /\ AtLine(y2.lexer, e + 1)
          /\ y2.tokens = Append(Y, Token("newline", e, e + 1))
      BY <1>7, <3>1, <3>2
    <3>4. PartOver(t, k, v, X, x2, y2)
      BY <1>4, <2>1, <2>3, <3>3 DEF PartOver, Y
    <3> QED BY <3>4 DEF x2, y2
  <2> QED BY <2>2, <2>3
<1>9. CASE BothGo(v, k, p, fs, n, m)
  <2>1. PICK kind, a, e, gs :
          /\ kind \in PlainKind \cup {"newline"}
          /\ a \in 0 .. Len(v) /\ e \in 0 .. Len(v)
          /\ Together(v, k, n.lexer, m.lexer, e, gs)
          /\ n.token = Token(kind, a, e) /\ m.token = Token(kind, k + a, k + e)
          /\ Spent(p, fs) + 1 <= Spent(e, gs)
          /\ kind = "newline" => /\ a > 0 /\ v[a] # "nl" /\ At(v, a) = "nl"
                                 /\ e = a + 1
    BY <1>9 DEF BothGo
  <2> DEFINE c == Token(kind, a, e)
  <2>2. kind \in Kind /\ a \in Nat /\ e \in Nat /\ kind # "eof"
    <3>1. a \in Nat /\ e \in Nat
      BY <1>1, <2>1
    <3>2. kind # "eof"
      BY <2>1 DEF PlainKind, Keyword, OneByte, TwoByteKind
    <3>3. kind \in Kind
      BY <2>1 DEF Kind
    <3> QED BY <3>1, <3>2, <3>3
  <2>3. /\ c \in Tok /\ c.kind = kind /\ c.start = a /\ c.end = e
        /\ Shifted(c, k) = m.token /\ m.token.kind = kind
    <3>1. k + a \in Nat /\ k + e \in Nat
      BY <2>2
    <3>2. c \in Tok /\ c.kind = kind /\ c.start = a /\ c.end = e
      BY <2>2, TokenType
    <3>3. Token(kind, k + a, k + e).kind = kind
      BY <2>2, <3>1, TokenType
    <3>4. Shifted(c, k) = Token(kind, k + a, k + e)
      BY <2>2, ShiftedToken
    <3> HIDE DEF c
    <3> QED BY <2>1, <3>2, <3>3, <3>4
  <2> HIDE DEF c
  <2>4. c \in LineTokens(v)
    BY <2>1, <2>3 DEF LineTokens
  <2>5. n.token = c
    BY <2>1 DEF c
  <2>6. /\ ~ x2.over /\ x2.lexer = n.lexer /\ x2.tokens = Append(q, c)
        /\ ~ y2.over /\ y2.lexer = m.lexer /\ y2.tokens = Append(Y, Shifted(c, k))
    BY <1>6, <1>7, <2>2, <2>3, <2>5
  <2>7. x2.tokens \in Seq(LineTokens(v)) /\ Len(x2.tokens) = Len(q) + 1
    BY <1>4, <2>4, <2>6
  <2>8. y2.tokens = X \o ShiftAll(x2.tokens, k)
    <3>1. /\ ShiftAll(q, k) \in Seq(Tok)
          /\ ShiftAll(Append(q, c), k) = Append(ShiftAll(q, k), Shifted(c, k))
      BY <1>5, <2>3, ShiftedMore
    <3>2. Shifted(c, k) \in Tok
      BY <2>3, ShiftedFields
    <3>3. X \o Append(ShiftAll(q, k), Shifted(c, k)) = Append(Y, Shifted(c, k))
      BY <3>1, <3>2, JoinedMore DEF Y
    <3> QED BY <2>6, <3>1, <3>3
  <2>9. Len(x2.tokens) <= Spent(e, gs)
    <3>1. Len(q) <= Spent(p, fs)
      BY <1>2 DEF q
    <3>2. Spent(p, fs) \in Int /\ Spent(e, gs) \in Int
      BY <1>1, <1>2, <2>2 DEF Spent, Together
    <3> QED BY <1>5, <2>1, <2>7, <3>1, <3>2
  <2>10. SideBySide(v, k, X, x2, y2)
    BY <2>1, <2>6, <2>7, <2>8, <2>9 DEF SideBySide
  <2> QED BY <2>7, <2>10 DEF x2, y2, q
<1> QED BY <1>3, <1>8, <1>9

\* A part is read to its end, as the text is from where it begins.
LEMMA PartAlike ==
  ASSUME NEW C, NEW t \in Seq(C), NEW v \in Seq(C), NEW k \in Nat, Slice(t, k, v),
         Tokenize(t).over, NEW j \in 0 .. 3 * Len(t) + 3,
         NEW y, y = Reading(t)[j], ~ y.over, AtLine(y.lexer, k),
         NEW X \in Seq(Tok), y.tokens = X
  PROVE  \E i \in 0 .. 3 * Len(t) + 3 :
           PartOver(t, k, v, X, Tokenize(v), Reading(t)[i])
<1> DEFINE f == Reading(v)
           g == Reading(t)
           N == 3 * Len(v) + 3
           M == 3 * Len(t) + 3
           Ended(n) == \E i \in 0 .. M : PartOver(t, k, v, X, f[n], g[i])
           Going(n) == /\ j + n \in 0 .. M
                       /\ SideBySide(v, k, X, f[n], g[j + n])
                       /\ Len(f[n].tokens) = n
           S == {n \in 0 .. N : Ended(n) \/ Going(n)}
<1>1. Len(t) \in Nat /\ Len(v) \in Nat /\ k + Len(v) <= Len(t)
  BY LenProperties DEF Slice
<1>2. N \in Nat /\ M \in Nat /\ N > Len(v) /\ j \in 0 .. M /\ j \in Nat
  BY <1>1
<1>3. /\ f[0] = NothingRead /\ Tokenize(v) = f[N]
      /\ \A n \in 0 .. N - 1 : f[n + 1] = ReadOne(v, f[n])
      /\ \A n \in 0 .. N : Reader(f[n])
  BY <1>1, ReadingIs
<1>4. ASSUME NEW i \in 0 .. M, ~ g[i].over
      PROVE  /\ ~ NeverReturns(t, g[i].lexer) /\ i + 1 \in 0 .. M
             /\ g[i + 1] = ReadOne(t, g[i]) /\ Reader(g[i])
  BY <1>1, <1>4, ReadingGoesOn
<1> HIDE DEF f, N, M
<1>5. Going(0)
  <2>1. /\ f[0].lexer = NewLexer /\ f[0].tokens = <<>> /\ f[0].over = FALSE
    BY <1>3 DEF NothingRead
  <2>2. AtLine(NewLexer, 0)
    BY DEF AtLine, Stands, NewLexer, LexerState
  <2>3. Together(v, k, f[0].lexer, y.lexer, 0, <<>>)
    <3>1. 0 \in 0 .. Len(v) /\ k + 0 = k /\ LineBegins(v, 0)
      BY <1>1 DEF LineBegins
    <3> QED BY <2>1, <2>2, <3>1 DEF Together
  <2>4. Len(<<>>) = 0 /\ Len(<<>>) <= Spent(0, <<>>) /\ <<>> \in Seq(LineTokens(v))
    BY DEF Spent
  <2>5. y.tokens = X \o ShiftAll(<<>>, k)
    <3>1. ShiftAll(<<>>, k) = <<>>
      BY DEF ShiftAll
    <3>2. X \o <<>> = X
      OBVIOUS
    <3> QED BY <3>1, <3>2
  <2>6. SideBySide(v, k, X, f[0], y)
    BY <2>1, <2>3, <2>4, <2>5 DEF SideBySide
  <2>7. j + 0 = j
    BY <1>2
  <2> QED BY <1>2, <2>1, <2>4, <2>6, <2>7
<1>6. ASSUME NEW n \in 0 .. N - 1, n \in S PROVE n + 1 \in S
  <2>1. n \in 0 .. N /\ n + 1 \in 0 .. N /\ n \in Nat
    BY <1>2
  <2>2. f[n + 1] = ReadOne(v, f[n]) /\ Reader(f[n])
    BY <1>3, <2>1
  <2>3. CASE Ended(n)
    <3>1. PICK i \in 0 .. M : PartOver(t, k, v, X, f[n], g[i])
      BY <2>3
    <3>2. f[n].over
      BY <3>1 DEF PartOver
    <3>3. f[n + 1] = f[n]
      BY <2>2, <3>2, ReadOneIs
    <3>4. Ended(n + 1)
      BY <3>1, <3>3
    <3> QED BY <2>1, <3>4
  <2>4. CASE Going(n)
    <3> DEFINE i == j + n
    <3>1. i \in 0 .. M /\ SideBySide(v, k, X, f[n], g[i]) /\ Len(f[n].tokens) = n
      BY <2>4
    <3>2. i + 1 = j + (n + 1)
      BY <1>2, <2>1
    <3> HIDE DEF i, g
    <3>3. ~ g[i].over
      BY <3>1 DEF SideBySide
    <3>4. /\ ~ NeverReturns(t, g[i].lexer) /\ i + 1 \in 0 .. M
          /\ g[i + 1] = ReadOne(t, g[i]) /\ Reader(g[i])
      BY <1>4, <3>1, <3>3
    <3>5. \/ PartOver(t, k, v, X, f[n + 1], g[i + 1])
          \/ /\ SideBySide(v, k, X, f[n + 1], g[i + 1])
             /\ Len(f[n + 1].tokens) = n + 1
      BY <2>2, <3>1, <3>4, ReadOneAlike, SMTT(30)
    <3>6. Ended(n + 1) \/ Going(n + 1)
      BY <3>2, <3>4, <3>5
    <3> QED BY <2>1, <3>6
  <2> HIDE DEF Ended, Going
  <2> QED BY <1>6, <2>3, <2>4
<1>7. N \in S
  <2>1. 0 \in S
    <3> HIDE DEF Ended, Going
    <3> QED BY <1>2, <1>5
  <2> HIDE DEF S
  <2>2. \A n \in 0 .. N : n \in S
    BY <1>2, <1>6, <2>1, Upwards
  <2> QED BY <1>2, <2>2
<1>8. ~ Going(N)
  <2> SUFFICES ASSUME Going(N) PROVE FALSE
    OBVIOUS
  <2>1. SideBySide(v, k, X, f[N], g[j + N]) /\ Len(f[N].tokens) = N
    OBVIOUS
  <2>2. PICK p, fs : /\ Together(v, k, f[N].lexer, g[j + N].lexer, p, fs)
                     /\ Len(f[N].tokens) <= Spent(p, fs)
    BY <2>1 DEF SideBySide
  <2>3. p \in 0 .. Len(v) /\ Spent(p, fs) <= p /\ Spent(p, fs) \in Int
    BY <1>1, <2>2 DEF Together, Spent
  <2> QED BY <1>1, <1>2, <2>1, <2>2, <2>3
<1>9. Ended(N)
  <2> HIDE DEF Ended, Going
  <2> QED BY <1>7, <1>8
<1> QED BY <1>3, <1>9 DEF M

\* A piece of such a text, from the start of a line on, up to the end of a
\* line that is not empty or of the text.
LEMMA PieceIs ==
  ASSUME NEW C, NEW t \in Seq(C), LineByLine(t), NEW j \in Nat, NEW e \in Nat,
         j <= e, e <= Len(t), j = 0 \/ t[j] = "nl",
         e < Len(t) => At(t, e) = "nl" /\ e > j /\ t[e] # "nl"
  PROVE  LET u == SubSeq(t, j + 1, e)
         IN  /\ u \in Seq(C) /\ Len(u) = e - j
             /\ \A i \in 1 .. e - j : u[i] = t[j + i]
             /\ LineByLine(u) /\ Slice(t, j, u)
<1> DEFINE u == SubSeq(t, j + 1, e)
<1>1. Len(t) \in Nat /\ DOMAIN t = 1 .. Len(t)
  BY LenProperties
<1>2. /\ u \in Seq(C) /\ Len(u) = e - j
      /\ \A i \in 1 .. e - j : u[i] = t[j + i]
  BY <1>1
<1>3. DOMAIN u = 1 .. e - j
  BY <1>1, <1>2, LenProperties
<1> HIDE DEF u
<1>4. ASSUME NEW o \in Nat, NEW c, c # "nl", c # "end", At(u, o) = c
      PROVE  At(t, j + o) = c
  <2>1. o < e - j
    BY <1>1, <1>2, <1>4 DEF At
  <2>2. o + 1 \in 1 .. e - j /\ j + o < Len(t) /\ j + (o + 1) = (j + o) + 1
    BY <1>1, <2>1
  <2>3. At(u, o) = u[o + 1] /\ At(t, j + o) = t[(j + o) + 1]
    BY <1>1, <1>2, <2>1, <2>2 DEF At
  <2> QED BY <1>2, <1>4, <2>2, <2>3
<1>5. ASSUME NEW i \in DOMAIN u
      PROVE  /\ u[i] \notin {"#", "\\"} \cup Opener \cup Closer
             /\ u[i] \in Quote => ~ Thrice(u, i - 1, u[i])
             /\ u[i] \in Blank => i > 1 /\ u[i - 1] # "nl"
  <2>1. i \in 1 .. e - j /\ j + i \in DOMAIN t /\ u[i] = t[j + i] /\ i \in Nat
    BY <1>1, <1>2, <1>3
  <2>2. /\ t[j + i] \notin {"#", "\\"} \cup Opener \cup Closer
        /\ t[j + i] \in Quote => ~ Thrice(t, (j + i) - 1, t[j + i])
        /\ t[j + i] \in Blank => j + i > 1 /\ t[(j + i) - 1] # "nl"
    BY <2>1 DEF LineByLine
  <2>3. ASSUME u[i] \in Quote PROVE ~ Thrice(u, i - 1, u[i])
    <3> DEFINE c == u[i]
               o == i - 1
    <3>1. c # "nl" /\ c # "end"
      BY <2>3 DEF Quote
    <3>2. o \in Nat /\ (j + i) - 1 = j + o /\ o + 1 \in Nat /\ o + 2 \in Nat
          /\ j + (o + 1) = (j + o) + 1 /\ j + (o + 2) = (j + o) + 2
      <4>1. i \in Nat /\ i >= 1
        BY <1>1, <2>1
      <4>2. ASSUME NEW x \in Nat, NEW y \in Nat, y >= 1
            PROVE  /\ y - 1 \in Nat /\ (x + y) - 1 = x + (y - 1)
                   /\ (y - 1) + 1 \in Nat /\ (y - 1) + 2 \in Nat
                   /\ x + ((y - 1) + 1) = (x + (y - 1)) + 1
                   /\ x + ((y - 1) + 2) = (x + (y - 1)) + 2
        BY <4>2
      <4> QED BY <4>1, <4>2
    <3>3. ~ Thrice(t, j + o, c)
      BY <2>1, <2>2, <2>3, <3>2
    <3> HIDE DEF c, o
    <3>4. Thrice(u, o, c) => Thrice(t, j + o, c)
      <4>1. Thrice(u, o, c) => /\ At(u, o) = c /\ At(u, o + 1) = c
                               /\ At(u, o + 2) = c
        BY <3>2 DEF Thrice
      <4>2. At(t, j + o) = c /\ At(t, (j + o) + 1) = c /\ At(t, (j + o) + 2) = c
              => Thrice(t, j + o, c)
        BY <3>2 DEF Thrice
      <4>3. \A x \in Nat : At(u, x) = c => At(t, j + x) = c
        BY <1>4, <3>1
      <4> QED BY <3>2, <4>1, <4>2, <4>3
    <3> QED BY <3>3, <3>4 DEF c, o
  <2>4. ASSUME u[i] \in Blank PROVE i > 1 /\ u[i - 1] # "nl"
    <3>1. j + i > 1 /\ t[(j + i) - 1] # "nl"
      BY <2>1, <2>2, <2>4
    <3>2. i # 1
      <4>1. ASSUME i = 1 PROVE FALSE
        <5>1. (j + i) - 1 = j /\ j # 0
          BY <3>1, <4>1
        <5> QED BY <3>1, <5>1
      <4> QED BY <4>1
    <3>3. i - 1 \in 1 .. e - j /\ j + (i - 1) = (j + i) - 1 /\ i > 1
      BY <2>1, <3>2
    <3>4. u[i - 1] = t[j + (i - 1)]
      BY <1>2, <3>3
    <3> QED BY <3>1, <3>3, <3>4
  <2> QED BY <2>1, <2>2, <2>3, <2>4
<1>6. LineByLine(u)
  BY <1>5 DEF LineByLine
<1>7. Slice(t, j, u)
  <2>1. j + Len(u) = e /\ j + Len(u) <= Len(t) /\ 1 .. Len(u) = 1 .. e - j
    BY <1>1, <1>2
  <2>2. ASSUME e < Len(t)
        PROVE  At(t, j + Len(u)) = "nl" /\ Len(u) > 0 /\ u[Len(u)] # "nl"
    <3>1. At(t, e) = "nl" /\ e > j /\ t[e] # "nl"
      BY <2>2
    <3>2. Len(u) \in 1 .. e - j /\ Len(u) > 0
      BY <1>2, <3>1
    <3>3. u[Len(u)] = t[j + Len(u)]
      BY <1>2, <3>2
    <3> QED BY <2>1, <3>1, <3>2, <3>3
  <2> QED BY <1>2, <1>6, <2>1, <2>2 DEF Slice
<1> QED BY <1>2, <1>6, <1>7 DEF u

\* Tokens moved twice, not at all, and together.
LEMMA ShiftedRun ==
  ASSUME NEW q \in Seq(Moved), NEW by \in Int
  PROVE  LET r == ShiftAll(q, by)
         IN  /\ r \in Seq(Moved) /\ Len(r) = Len(q)
             /\ \A i \in 1 .. Len(q) :
                  /\ r[i] = Shifted(q[i], by)
                  /\ q[i] \in Moved
                  /\ r[i] \in Moved /\ r[i].kind = q[i].kind
                  /\ r[i].start = q[i].start + by /\ r[i].end = q[i].end + by
<1> DEFINE N == Len(q)
           r == ShiftAll(q, by)
<1>1. N \in Nat /\ DOMAIN q = 1 .. N /\ \A i \in 1 .. N : q[i] \in Moved
  BY LenProperties, ElementOfSeq
<1>2. r = [i \in 1 .. N |-> Shifted(q[i], by)]
  BY <1>1 DEF ShiftAll
<1>3. ASSUME NEW k \in Moved
      PROVE  /\ Shifted(k, by).kind = k.kind
             /\ Shifted(k, by).start = k.start + by
             /\ Shifted(k, by).end = k.end + by
  BY DEF Moved, Shifted
<1>4. r \in Seq(Moved) /\ Len(r) = N
  <2>1. 0 \in Int
    OBVIOUS
  <2> QED BY <2>1, ShiftedOrdered
<1>5. \A i \in 1 .. N : r[i] = Shifted(q[i], by)
  BY <1>2
<1> HIDE DEF r
<1>6. \A i \in 1 .. N : r[i] \in Moved
  BY <1>1, <1>4, ElementOfSeq
<1> HIDE DEF N
<1>7. \A i \in 1 .. N : /\ r[i].kind = q[i].kind
                        /\ r[i].start = q[i].start + by
                        /\ r[i].end = q[i].end + by
  BY <1>1, <1>3, <1>5
<1> QED BY <1>1, <1>4, <1>5, <1>6, <1>7 DEF r, N

LEMMA SameRun ==
  ASSUME NEW q \in Seq(Moved), NEW r \in Seq(Moved), Len(q) = Len(r),
         \A i \in 1 .. Len(q) : /\ q[i].kind = r[i].kind
                                /\ q[i].start = r[i].start
                                /\ q[i].end = r[i].end
  PROVE  q = r
<1>1. Len(q) \in Nat /\ DOMAIN q = 1 .. Len(q) /\ DOMAIN r = 1 .. Len(q)
      /\ \A i \in 1 .. Len(q) : q[i] \in Moved /\ r[i] \in Moved
  BY LenProperties, ElementOfSeq
<1>2. ASSUME NEW c \in Moved, NEW d \in Moved,
             c.kind = d.kind, c.start = d.start, c.end = d.end
      PROVE  c = d
  BY <1>2 DEF Moved
<1>3. \A i \in 1 .. Len(q) : q[i] = r[i]
  BY <1>1, <1>2
<1> QED BY <1>1, <1>3

LEMMA ShiftedTwice ==
  ASSUME NEW q \in Seq(Moved), NEW i \in Int, NEW j \in Int
  PROVE  ShiftAll(ShiftAll(q, i), j) = ShiftAll(q, i + j)
<1> DEFINE r == ShiftAll(q, i)
           s == ShiftAll(r, j)
           z == ShiftAll(q, i + j)
<1>1. /\ r \in Seq(Moved) /\ Len(r) = Len(q)
      /\ \A n \in 1 .. Len(q) : /\ r[n].kind = q[n].kind
                                /\ r[n].start = q[n].start + i
                                /\ r[n].end = q[n].end + i
  BY ShiftedRun
<1> HIDE DEF r
<1>2. /\ s \in Seq(Moved) /\ Len(s) = Len(r)
      /\ \A n \in 1 .. Len(r) : /\ s[n].kind = r[n].kind
                                /\ s[n].start = r[n].start + j
                                /\ s[n].end = r[n].end + j
  BY <1>1, ShiftedRun
<1>3. i + j \in Int
  OBVIOUS
<1>4. /\ z \in Seq(Moved) /\ Len(z) = Len(q)
      /\ \A n \in 1 .. Len(q) : /\ z[n].kind = q[n].kind
                                /\ z[n].start = q[n].start + (i + j)
                                /\ z[n].end = q[n].end + (i + j)
  BY <1>3, ShiftedRun
<1>5. \A n \in 1 .. Len(q) : q[n].start \in Int /\ q[n].end \in Int
  <2>1. \A n \in 1 .. Len(q) : q[n] \in Moved
    BY ElementOfSeq
  <2> QED BY <2>1 DEF Moved
<1> HIDE DEF s, z
<1>6. ASSUME NEW n \in 1 .. Len(s)
      PROVE  /\ s[n].kind = z[n].kind /\ s[n].start = z[n].start
             /\ s[n].end = z[n].end
  <2>1. n \in 1 .. Len(q) /\ n \in 1 .. Len(r)
    BY <1>1, <1>2
  <2>2. /\ s[n].kind = r[n].kind /\ s[n].start = r[n].start + j
        /\ s[n].end = r[n].end + j
    BY <1>2, <2>1
  <2>3. /\ r[n].kind = q[n].kind /\ r[n].start = q[n].start + i
        /\ r[n].end = q[n].end + i
    BY <1>1, <2>1
  <2>4. /\ z[n].kind = q[n].kind /\ z[n].start = q[n].start + (i + j)
        /\ z[n].end = q[n].end + (i + j)
    BY <1>4, <2>1
  <2>5. q[n].start \in Int /\ q[n].end \in Int
    BY <1>5, <2>1
  <2>6. /\ (q[n].start + i) + j = q[n].start + (i + j)
        /\ (q[n].end + i) + j = q[n].end + (i + j)
    BY <2>5
  <2>7. s[n].kind = z[n].kind
    BY <2>2, <2>3, <2>4
  <2>8. s[n].start = z[n].start
    BY <2>2, <2>3, <2>4, <2>6
  <2>9. s[n].end = z[n].end
    BY <2>2, <2>3, <2>4, <2>6
  <2> QED BY <2>7, <2>8, <2>9
<1> QED BY <1>1, <1>2, <1>4, <1>6, SameRun DEF r, s, z

LEMMA ShiftedNot ==
  ASSUME NEW q \in Seq(Moved)
  PROVE  ShiftAll(q, 0) = q
<1>1. \A n \in 1 .. Len(q) : q[n].start \in Int /\ q[n].end \in Int
  <2>1. \A n \in 1 .. Len(q) : q[n] \in Moved
    BY ElementOfSeq
  <2> QED BY <2>1 DEF Moved
<1>2. 0 \in Int
  OBVIOUS
<1> DEFINE z == ShiftAll(q, 0)
<1>3. /\ z \in Seq(Moved) /\ Len(z) = Len(q)
      /\ \A n \in 1 .. Len(q) : /\ z[n].kind = q[n].kind
                                /\ z[n].start = q[n].start + 0
                                /\ z[n].end = q[n].end + 0
  BY <1>2, ShiftedRun
<1> HIDE DEF z
<1>4. \A n \in 1 .. Len(z) : /\ z[n].kind = q[n].kind
                             /\ z[n].start = q[n].start
                             /\ z[n].end = q[n].end
  BY <1>1, <1>3
<1> QED BY <1>3, <1>4, SameRun DEF z

LEMMA ShiftedJoin ==
  ASSUME NEW q \in Seq(Moved), NEW r \in Seq(Moved), NEW k \in Int
  PROVE  ShiftAll(q \o r, k) = ShiftAll(q, k) \o ShiftAll(r, k)
<1> DEFINE x == ShiftAll(q, k)
           y == ShiftAll(r, k)
           z == ShiftAll(q \o r, k)
           w == x \o y
<1>1. /\ x \in Seq(Moved) /\ Len(x) = Len(q)
      /\ \A n \in 1 .. Len(q) : x[n] = Shifted(q[n], k)
  BY ShiftedRun
<1>2. /\ y \in Seq(Moved) /\ Len(y) = Len(r)
      /\ \A n \in 1 .. Len(r) : y[n] = Shifted(r[n], k)
  BY ShiftedRun
<1>3. /\ q \o r \in Seq(Moved) /\ Len(q \o r) = Len(q) + Len(r)
      /\ \A n \in 1 .. Len(q) + Len(r) :
           (q \o r)[n] = IF n <= Len(q) THEN q[n] ELSE r[n - Len(q)]
  BY ConcatProperties
<1>4. /\ z \in Seq(Moved) /\ Len(z) = Len(q) + Len(r)
      /\ \A n \in 1 .. Len(q) + Len(r) : z[n] = Shifted((q \o r)[n], k)
  <2> DEFINE u == q \o r
  <2> HIDE DEF u
  <2>1. /\ ShiftAll(u, k) \in Seq(Moved) /\ Len(ShiftAll(u, k)) = Len(u)
        /\ \A n \in 1 .. Len(u) : ShiftAll(u, k)[n] = Shifted(u[n], k)
    BY <1>3, ShiftedRun DEF u
  <2> QED BY <1>3, <2>1 DEF u
<1>5. Len(q) \in Nat /\ Len(r) \in Nat
  BY LenProperties
<1> HIDE DEF x, y, z, w
<1>6. /\ w \in Seq(Moved) /\ Len(w) = Len(q) + Len(r)
      /\ \A n \in 1 .. Len(q) + Len(r) :
           w[n] = IF n <= Len(q) THEN x[n] ELSE y[n - Len(q)]
  <2>1. /\ x \o y \in Seq(Moved) /\ Len(x \o y) = Len(x) + Len(y)
        /\ \A n \in 1 .. Len(x) + Len(y) :
             (x \o y)[n] = IF n <= Len(x) THEN x[n] ELSE y[n - Len(x)]
    <3>1. x \in Seq(Moved) /\ y \in Seq(Moved)
      BY <1>1, <1>2
    <3> QED BY <3>1, ConcatProperties
  <2> QED BY <1>1, <1>2, <2>1 DEF w
<1>7. ASSUME NEW n \in 1 .. Len(z) PROVE z[n] = w[n]
  <2>1. CASE n <= Len(q)
    <3>1. n \in 1 .. Len(q)
      BY <1>4, <1>5, <2>1
    <3> QED BY <1>1, <1>3, <1>4, <1>6, <2>1, <3>1
  <2>2. CASE ~ (n <= Len(q))
    <3>1. n - Len(q) \in 1 .. Len(r) /\ n \in 1 .. Len(q) + Len(r)
      BY <1>4, <1>5, <2>2
    <3> QED BY <1>2, <1>3, <1>4, <1>6, <2>2, <3>1
  <2> QED BY <2>1, <2>2
<1> QED BY <1>4, <1>6, <1>7, SameRun DEF x, y, z, w

\* The tokens of such a text are those of the text up to a newline, the
\* newline, and those of the text behind it.
LEMMA BeginsReading ==
  ASSUME NEW C, NEW t \in Seq(C)
  PROVE  /\ 0 \in 0 .. 3 * Len(t) + 3
         /\ ~ Reading(t)[0].over /\ AtLine(Reading(t)[0].lexer, 0)
         /\ Reading(t)[0].tokens = <<>>
<1>1. Len(t) \in Nat
  BY LenProperties
<1>2. Reading(t)[0] = NothingRead
  BY <1>1, ReadingIs
<1>3. AtLine(NewLexer, 0)
  BY DEF AtLine, Stands, NewLexer, LexerState
<1>4. NothingRead.lexer = NewLexer /\ NothingRead.tokens = <<>>
      /\ NothingRead.over = FALSE
  BY DEF NothingRead
<1> QED BY <1>1, <1>2, <1>3, <1>4

LEMMA WholeTokens ==
  ASSUME NEW C, NEW t \in Seq(C), LineByLine(t), Tokenize(t).over
  PROVE  Tokenize(t).tokens \in Seq(LineTokens(t))
<1> DEFINE k == 0
           X == <<>>
           j == 0
           y == Reading(t)[j]
<1>1. Len(t) \in Nat /\ k \in Nat
  BY LenProperties
<1>2. Slice(t, k, t)
  BY <1>1 DEF Slice
<1>3. X \in Seq(Tok)
  OBVIOUS
<1>4. j \in 0 .. 3 * Len(t) + 3 /\ ~ y.over /\ AtLine(y.lexer, k) /\ y.tokens = X
  BY BeginsReading
<1>5. y = Reading(t)[j]
  OBVIOUS
<1> HIDE DEF k, X, j, y
<1>6. PICK i \in 0 .. 3 * Len(t) + 3 :
        PartOver(t, k, t, X, Tokenize(t), Reading(t)[i])
  BY <1>1, <1>2, <1>3, <1>4, <1>5, PartAlike
<1> QED BY <1>6 DEF PartOver

Newline(p) == Token("newline", p, p + 1)

LEMMA NewlineIs ==
  ASSUME NEW p \in Nat
  PROVE  /\ Newline(p) \in Tok /\ Newline(p).kind = "newline"
         /\ Newline(p).start = p /\ Newline(p).end = p + 1
<1>1. p + 1 \in Nat /\ "newline" \in Kind
  BY DEF Kind
<1> QED BY <1>1, TokenType DEF Newline

LEMMA LineTokensAre ==
  ASSUME NEW v, NEW q \in Seq(LineTokens(v))
  PROVE  q \in Seq(Tok) /\ q \in Seq(Moved)
<1>1. LineTokens(v) \subseteq Tok
  BY DEF LineTokens
<1>2. q \in Seq(Tok)
  BY <1>1
<1> QED BY <1>2, MovedTokens

LEMMA SplitAtNewline ==
  ASSUME NEW C, NEW t \in Seq(C), LineByLine(t), Tokenize(t).over,
         NEW p \in Nat, p > 0, p < Len(t), t[p] # "nl", At(t, p) = "nl"
  PROVE  LET u == SubSeq(t, 1, p)
             w == SubSeq(t, p + 2, Len(t))
         IN  /\ u \in Seq(C) /\ w \in Seq(C) /\ LineByLine(u) /\ LineByLine(w)
             /\ Len(u) = p /\ Len(w) = Len(t) - (p + 1)
             /\ Tokenize(u).over /\ Tokenize(w).over
             /\ Tokenize(u).tokens \in Seq(LineTokens(u))
             /\ Tokenize(w).tokens \in Seq(LineTokens(w))
             /\ Tokenize(t).tokens
                  = (Tokenize(u).tokens \o <<Newline(p)>>)
                    \o ShiftAll(Tokenize(w).tokens, p + 1)
<1> DEFINE u == SubSeq(t, 1, p)
           w == SubSeq(t, p + 2, Len(t))
           U == Tokenize(u).tokens
           W == Tokenize(w).tokens
           z == 0
           k == p + 1
           y == Reading(t)[z]
           X == <<>>
           M == 3 * Len(t) + 3
<1>1. Len(t) \in Nat /\ k \in Nat /\ k <= Len(t) /\ z \in Nat /\ M \in Nat
      /\ k + 1 = p + 2 /\ z + 1 = 1
  BY LenProperties
<1>2. /\ u \in Seq(C) /\ Len(u) = p /\ LineByLine(u) /\ Slice(t, z, u)
  <2> DEFINE u2 == SubSeq(t, z + 1, p)
  <2>1. u2 \in Seq(C) /\ Len(u2) = p - z /\ LineByLine(u2) /\ Slice(t, z, u2)
    <3>1. z = 0 /\ z <= p /\ p <= Len(t) /\ p > z
      OBVIOUS
    <3> HIDE DEF z
    <3> QED BY <1>1, <3>1, PieceIs
  <2>2. u2 = u /\ p - z = p
    OBVIOUS
  <2> HIDE DEF z, u, u2
  <2> QED BY <2>1, <2>2
<1>3. /\ w \in Seq(C) /\ Len(w) = Len(t) - k /\ LineByLine(w) /\ Slice(t, k, w)
  <2> DEFINE n  == Len(t)
             w2 == SubSeq(t, k + 1, n)
  <2>1. t[k] = "nl"
    BY DEF At
  <2>2. n \in Nat /\ k <= n /\ n <= Len(t) /\ ~ (n < Len(t))
    BY <1>1
  <2>3. w2 \in Seq(C) /\ Len(w2) = n - k /\ LineByLine(w2) /\ Slice(t, k, w2)
    <3> HIDE DEF k, n
    <3> QED BY <1>1, <2>1, <2>2, PieceIs
  <2>4. w2 = w
    BY <1>1
  <2> QED BY <2>3, <2>4
<1>4. z \in 0 .. M /\ ~ y.over /\ AtLine(y.lexer, z) /\ y.tokens = X
  BY BeginsReading
<1>5. X \in Seq(Tok) /\ y = Reading(t)[z] /\ M = 3 * Len(t) + 3
  OBVIOUS
<1> HIDE DEF u, w, z, y, X, M
<1>6. PICK i \in 0 .. M : PartOver(t, z, u, X, Tokenize(u), Reading(t)[i])
  BY <1>1, <1>2, <1>4, <1>5, PartAlike
<1>7. z + Len(u) = p /\ p # Len(t)
  BY <1>2 DEF z
<1>8. /\ Tokenize(u).over /\ U \in Seq(LineTokens(u))
      /\ ~ Reading(t)[i].over /\ AtLine(Reading(t)[i].lexer, k)
      /\ Reading(t)[i].tokens = Append(X \o ShiftAll(U, z), Newline(p))
  BY <1>6, <1>7 DEF PartOver, Newline
<1> DEFINE Y == Append(U, Newline(p))
<1>9. Reading(t)[i].tokens = Y /\ Y \in Seq(Tok) /\ Y = U \o <<Newline(p)>>
  <2>1. U \in Seq(Tok) /\ U \in Seq(Moved)
    BY <1>8, LineTokensAre
  <2>2. ShiftAll(U, z) = U
    BY <2>1, ShiftedNot DEF z
  <2>3. X \o U = U
    BY <2>1 DEF X
  <2>4. Newline(p) \in Tok
    BY NewlineIs
  <2> HIDE DEF U
  <2> QED BY <1>8, <2>1, <2>2, <2>3, <2>4
<1> HIDE DEF Y, U, W, k
<1>10. PICK j \in 0 .. M : PartOver(t, k, w, Y, Tokenize(w), Reading(t)[j])
  <2> DEFINE r == Reading(t)[i]
  <2>1. r = Reading(t)[i] /\ ~ r.over /\ AtLine(r.lexer, k) /\ r.tokens = Y
    BY <1>8, <1>9
  <2> HIDE DEF r
  <2> QED BY <1>1, <1>3, <1>5, <1>9, <2>1, PartAlike
<1>11. k + Len(w) = Len(t)
  BY <1>1, <1>3
<1>12. /\ Tokenize(w).over /\ W \in Seq(LineTokens(w))
       /\ Reading(t)[j].over /\ Reading(t)[j].tokens = Y \o ShiftAll(W, k)
  BY <1>10, <1>11 DEF PartOver, W
<1>13. Tokenize(t) = Reading(t)[j]
  BY <1>1, <1>5, <1>12, ReadingEnds
<1>14. Tokenize(t).tokens = (U \o <<Newline(p)>>) \o ShiftAll(W, p + 1)
  BY <1>9, <1>12, <1>13 DEF k
<1> QED BY <1>2, <1>3, <1>8, <1>12, <1>14 DEF u, w, U, W, k

Joined(x, c, y, z, m) == z = (x \o <<c>>) \o y /\ m = Len(x) + 1

CutsAt(x, c, y, z, m) ==
  /\ m \in 1 .. Len(z) /\ z[m] = c
  /\ SubSeq(z, 1, m) = x \o <<c>>
  /\ SubSeq(z, m, Len(z)) = <<c>> \o y

LEMMA CutAt ==
  ASSUME NEW S, NEW x \in Seq(S), NEW c \in S, NEW y \in Seq(S),
         NEW z, NEW m, Joined(x, c, y, z, m)
  PROVE  z \in Seq(S) /\ CutsAt(x, c, y, z, m)
<1> DEFINE o == <<c>>
           p == x \o o
           q == o \o y
           f == SubSeq(z, 1, m)
           g == SubSeq(z, m, Len(z))
<1>1. /\ Len(x) \in Nat /\ Len(y) \in Nat
      /\ o \in Seq(S) /\ Len(o) = 1 /\ o[1] = c
  BY LenProperties
<1>0. z = p \o y /\ m = Len(x) + 1 /\ m \in Nat
  BY LenProperties DEF Joined
<1> HIDE DEF o, p, q
<1>2. /\ p \in Seq(S) /\ Len(p) = m
      /\ \A i \in 1 .. m : p[i] = IF i <= Len(x) THEN x[i] ELSE o[i - Len(x)]
  <2>1. o \in Seq(S)
    BY <1>1
  <2>2. /\ x \o o \in Seq(S) /\ Len(x \o o) = Len(x) + Len(o)
        /\ \A i \in 1 .. Len(x) + Len(o) :
             (x \o o)[i] = IF i <= Len(x) THEN x[i] ELSE o[i - Len(x)]
    BY <2>1, ConcatProperties
  <2> QED BY <1>0, <1>1, <2>2 DEF p
<1>3. /\ q \in Seq(S) /\ Len(q) = Len(y) + 1
      /\ \A i \in 1 .. Len(y) + 1 : q[i] = IF i <= 1 THEN o[i] ELSE y[i - 1]
  <2>1. o \in Seq(S)
    BY <1>1
  <2>2. /\ o \o y \in Seq(S) /\ Len(o \o y) = Len(o) + Len(y)
        /\ \A i \in 1 .. Len(o) + Len(y) :
             (o \o y)[i] = IF i <= Len(o) THEN o[i] ELSE y[i - Len(o)]
    BY <2>1, ConcatProperties
  <2>3. Len(o) = 1 /\ Len(o) + Len(y) = Len(y) + 1
    BY <1>1
  <2> QED BY <2>2, <2>3 DEF q
<1>4. /\ z \in Seq(S) /\ Len(z) = m + Len(y)
      /\ \A i \in 1 .. m + Len(y) : z[i] = IF i <= m THEN p[i] ELSE y[i - m]
  <2>1. p \in Seq(S)
    BY <1>2
  <2>2. /\ p \o y \in Seq(S) /\ Len(p \o y) = Len(p) + Len(y)
        /\ \A i \in 1 .. Len(p) + Len(y) :
             (p \o y)[i] = IF i <= Len(p) THEN p[i] ELSE y[i - Len(p)]
    BY <2>1, ConcatProperties
  <2>3. Len(p) = m
    BY <1>2
  <2> QED BY <1>0, <2>2, <2>3
<1>5. m \in Nat /\ m \in 1 .. Len(z) /\ z[m] = c
  <2>1. m \in Nat /\ m \in 1 .. m + Len(y) /\ m \in 1 .. m /\ m - Len(x) = 1
    BY <1>0, <1>1
  <2>2. p[m] = o[1]
    BY <1>1, <1>2, <2>1
  <2>3. z[m] = p[m]
    BY <1>4, <2>1
  <2> QED BY <1>1, <1>4, <2>1, <2>2, <2>3
<1>6. \A i \in 1 .. Len(z) : z[i] \in S
  BY <1>4, ElementOfSeq
<1>7. /\ f \in Seq(S) /\ Len(f) = m /\ \A i \in 1 .. m : f[i] = z[i]
  <2>1. \A i \in 1 .. m : z[i] \in S
    BY <1>1, <1>4, <1>5, <1>6
  <2>2. /\ f \in Seq(S) /\ Len(f) = IF 1 <= m THEN m - 1 + 1 ELSE 0
        /\ \A i \in 1 .. m - 1 + 1 : f[i] = z[1 + i - 1]
    BY <1>5, <2>1, SubSeqProperties
  <2> HIDE DEF f
  <2>3. m - 1 + 1 = m /\ 1 <= m /\ \A i \in 1 .. m : 1 + i - 1 = i
    BY <1>1, <1>5
  <2> QED BY <2>2, <2>3
<1>8. /\ g \in Seq(S) /\ Len(g) = Len(y) + 1
      /\ \A i \in 1 .. Len(y) + 1 : g[i] = z[m + i - 1]
  <2>1. \A i \in m .. Len(z) : z[i] \in S
    BY <1>1, <1>4, <1>5, <1>6
  <2>2. Len(z) \in Int /\ m \in Int
    BY <1>1, <1>4, <1>5
  <2>3. /\ g \in Seq(S)
        /\ Len(g) = IF m <= Len(z) THEN Len(z) - m + 1 ELSE 0
        /\ \A i \in 1 .. Len(z) - m + 1 : g[i] = z[m + i - 1]
    BY <2>1, <2>2, SubSeqProperties
  <2> HIDE DEF g
  <2>4. m <= Len(z) /\ Len(z) - m + 1 = Len(y) + 1
    BY <1>1, <1>4, <1>5
  <2> QED BY <2>3, <2>4
<1> HIDE DEF f, g
<1>9. f = p
  <2>1. \A i \in 1 .. m : f[i] = p[i]
    <3> SUFFICES ASSUME NEW i \in 1 .. m PROVE f[i] = p[i]
      OBVIOUS
    <3>1. i \in 1 .. m + Len(y) /\ i <= m
      BY <1>0, <1>1
    <3> QED BY <1>4, <1>7, <3>1
  <2> QED BY <1>2, <1>5, <1>7, <2>1
<1>10. g = q
  <2>1. ASSUME NEW i \in 1 .. Len(y) + 1 PROVE g[i] = q[i]
    <3>1. CASE i = 1
      <4>1. m + i - 1 = m
        BY <1>5, <3>1
      <4>2. g[i] = z[m]
        BY <1>8, <4>1
      <4>3. q[i] = o[1]
        BY <1>3, <3>1
      <4> QED BY <1>1, <1>5, <4>2, <4>3
    <3>2. CASE i # 1
      <4>1. /\ m + i - 1 \in 1 .. m + Len(y) /\ ~ (m + i - 1 <= m)
            /\ (m + i - 1) - m = i - 1 /\ ~ (i <= 1)
        BY <1>1, <1>5, <3>2
      <4>2. z[m + i - 1] = y[i - 1]
        BY <1>4, <4>1
      <4>3. q[i] = y[i - 1]
        BY <1>3, <4>1
      <4> QED BY <1>8, <4>2, <4>3
    <3> QED BY <3>1, <3>2
  <2> QED BY <1>1, <1>3, <1>8, <2>1
<1> QED BY <1>4, <1>5, <1>9, <1>10 DEF o, p, q, f, g, CutsAt

\* There is one newline at an offset.
LEMMA OneNewline ==
  ASSUME NEW toks \in Seq(Tok), Ordered(toks), NEW p \in Nat,
         NEW i \in 1 .. Len(toks), NEW j \in 1 .. Len(toks),
         toks[i] = Newline(p), toks[j] = Newline(p)
  PROVE  i = j
<1>1. Len(toks) \in Nat /\ DOMAIN toks = 1 .. Len(toks)
  BY LenProperties
<1>2. ASSUME NEW x \in 1 .. Len(toks), NEW y \in 1 .. Len(toks), x < y,
             toks[x] = Newline(p), toks[y] = Newline(p)
      PROVE  FALSE
  <2>1. /\ Newline(p).kind = "newline" /\ Newline(p).start = p
        /\ Newline(p).end = p + 1
    BY NewlineIs
  <2>2. Precedes(Newline(p), Newline(p))
    BY <1>1, <1>2, <2>1 DEF Ordered
  <2> QED BY <2>1, <2>2 DEF Precedes
<1>3. i \in Int /\ j \in Int
  BY <1>1
<1> QED BY <1>2, <1>3

\* The tokens up to a newline, and those from a newline on.
CutsNewline(t, T, n, p) ==
  LET u == SubSeq(t, 1, p)
      w == SubSeq(t, p + 2, Len(t))
  IN  /\ p \in Nat /\ p > 0 /\ p < Len(t) /\ t[p] # "nl"
      /\ At(t, p) = "nl" /\ T[n].end = p + 1
      /\ SubSeq(T, 1, n) = Tokenize(u).tokens \o <<Newline(p)>>
      /\ SubSeq(T, n, Len(T))
           = <<Newline(p)>> \o ShiftAll(Tokenize(w).tokens, p + 1)

LEMMA CutAtNewline ==
  ASSUME NEW C, NEW t \in Seq(C), LineByLine(t), Tokenize(t).over,
         NEW T, T = Tokenize(t).tokens, NEW n \in 1 .. Len(T),
         T[n].kind = "newline"
  PROVE  CutsNewline(t, T, n, T[n].start)
<1> DEFINE p == T[n].start
           u == SubSeq(t, 1, p)
           w == SubSeq(t, p + 2, Len(t))
           x == Tokenize(u).tokens
           y == ShiftAll(Tokenize(w).tokens, p + 1)
           c == Newline(p)
           m == Len(x) + 1
<1>1. T \in Seq(LineTokens(t)) /\ Ordered(T)
  BY WholeTokens, TokenizedOrdered
<1>2. T[n] \in LineTokens(t)
  BY <1>1, ElementOfSeq
<1>3. /\ T[n] \in Tok /\ p \in Nat /\ p > 0 /\ t[p] # "nl"
      /\ At(t, p) = "nl" /\ T[n].end = p + 1
  BY <1>2 DEF LineTokens, Tok
<1>4. p < Len(t)
  BY <1>3 DEF At
<1>5. T[n] = c
  <2>1. /\ c \in Tok /\ c.kind = "newline" /\ c.start = p /\ c.end = p + 1
    BY <1>3, NewlineIs
  <2> QED BY <1>3, <2>1, SameToken
<1> HIDE DEF p
<1>6. /\ Tokenize(u).tokens \in Seq(LineTokens(u))
      /\ Tokenize(w).tokens \in Seq(LineTokens(w))
      /\ Tokenize(t).tokens = (Tokenize(u).tokens \o <<Newline(p)>>)
                              \o ShiftAll(Tokenize(w).tokens, p + 1)
  BY <1>3, <1>4, SplitAtNewline, ZenonT(40)
<1>7. x \in Seq(Tok) /\ y \in Seq(Tok) /\ c \in Tok
  <2>1. x \in Seq(Tok) /\ Tokenize(w).tokens \in Seq(Tok)
    BY <1>6, LineTokensAre
  <2>2. p + 1 \in Nat
    BY <1>3
  <2>3. y \in Seq(Tok)
    <3> DEFINE d == Tokenize(w).tokens
               k == p + 1
               a == Newline(0)
    <3>1. d \in Seq(Tok) /\ k \in Nat /\ a \in Tok
      BY <2>1, <2>2, NewlineIs
    <3> HIDE DEF d, k, a
    <3>2. ShiftAll(d, k) \in Seq(Tok)
      BY <3>1, ShiftedMore
    <3> QED BY <3>2 DEF d, k
  <2> QED BY <1>3, <2>1, <2>3, NewlineIs
<1>8. T = (x \o <<c>>) \o y
  BY <1>6
<1> HIDE DEF u, w, x, y, c
<1>9. /\ T \in Seq(Tok) /\ m \in 1 .. Len(T) /\ T[m] = c
      /\ SubSeq(T, 1, m) = x \o <<c>> /\ SubSeq(T, m, Len(T)) = <<c>> \o y
  <2>1. x \in Seq(Tok) /\ c \in Tok /\ y \in Seq(Tok)
    BY <1>7
  <2>2. Joined(x, c, y, T, m)
    BY <1>8 DEF Joined
  <2> HIDE DEF m
  <2>3. T \in Seq(Tok) /\ CutsAt(x, c, y, T, m)
    BY <2>1, <2>2, CutAt
  <2> QED BY <2>3 DEF CutsAt
<1> HIDE DEF m
<1>10. m = n
  BY <1>1, <1>3, <1>5, <1>9, OneNewline DEF c
<1> QED BY <1>3, <1>4, <1>9, <1>10 DEF p, u, w, x, y, c, CutsNewline

(***************************************************************************)
(* relex, between texts that are read line by line.                        *)
(***************************************************************************)
LEMMA KeptIsSafe ==
  ASSUME NEW toks, NEW first \in Nat, SafeRelexStart(toks, first) # 0
  PROVE  LET k == SafeRelexStart(toks, first)
         IN  k \in 1 .. first /\ toks[k].kind \in {"newline", "dedent"}
<1> DEFINE safe == {i \in 1 .. first : IsSafe(toks, i)}
<1>1. safe # {} /\ SafeRelexStart(toks, first) = Max(safe)
  BY DEF SafeRelexStart
<1>2. safe \subseteq 0 .. first
  OBVIOUS
<1>3. Max(safe) \in safe
  <2> HIDE DEF safe
  <2> QED BY <1>1, <1>2, GreatestOf
<1>4. Max(safe) \in 1 .. first /\ IsSafe(toks, Max(safe))
  BY <1>3
<1> HIDE DEF safe
<1> QED BY <1>1, <1>4 DEF IsSafe

LEMMA ResumesAtNewline ==
  ASSUME NEW toks \in Seq(Tok), NEW b, NEW len, NEW by,
         ResumePoint(toks, b, len, by) # 0
  PROVE  toks[ResumePoint(toks, b, len, by)].kind = "newline"
<1> DEFINE after == {i \in DOMAIN toks : toks[i].start > b}
           stop  == {i \in after : \/ toks[i].kind = "newline"
                                   \/ toks[i].start + by >= len}
<1>1. /\ stop # {} /\ ~ (toks[Min(stop)].start + by >= len)
      /\ ResumePoint(toks, b, len, by) = Min(stop)
  BY DEF ResumePoint
<1>2. stop \subseteq Nat
  BY LenProperties
<1>3. Min(stop) \in stop
  <2> HIDE DEF stop
  <2> QED BY <1>1, <1>2, LeastOf
<1>4. toks[Min(stop)].kind = "newline" \/ toks[Min(stop)].start + by >= len
  BY <1>3
<1> HIDE DEF stop
<1> QED BY <1>1, <1>4

SameBytes(x, i, y, j, m) ==
  /\ i + m <= Len(x) /\ j + m <= Len(y)
  /\ \A n \in 1 .. m : x[i + n] = y[j + n]

LEMMA SameCut ==
  ASSUME NEW C, NEW x \in Seq(C), NEW y \in Seq(C),
         NEW i \in Nat, NEW j \in Nat, NEW m \in Nat, SameBytes(x, i, y, j, m)
  PROVE  SubSeq(x, i + 1, i + m) = SubSeq(y, j + 1, j + m)
<1> DEFINE f == SubSeq(x, i + 1, i + m)
           g == SubSeq(y, j + 1, j + m)
<1>1. Len(x) \in Nat /\ Len(y) \in Nat
  BY LenProperties
<1>0. /\ i + m <= Len(x) /\ j + m <= Len(y)
      /\ \A n \in 1 .. m : x[i + n] = y[j + n]
  BY DEF SameBytes
<1>2. /\ f \in Seq(C) /\ Len(f) = m
      /\ \A n \in 1 .. m : f[n] = x[i + n]
  BY <1>0, <1>1
<1>3. /\ g \in Seq(C) /\ Len(g) = m
      /\ \A n \in 1 .. m : g[n] = y[j + n]
  BY <1>0, <1>1
<1> HIDE DEF f, g
<1>4. \A n \in 1 .. m : f[n] = g[n]
  BY <1>0, <1>2, <1>3
<1>5. f = g
  BY <1>2, <1>3, <1>4
<1> QED BY <1>5 DEF f, g

\* new is old with n bytes in place of those from a to b.
EditOf(old, new, a, b, n) ==
  /\ a <= b /\ b <= Len(old) /\ Len(new) = Len(old) + n - (b - a)
  /\ \A i \in 1 .. a : new[i] = old[i]
  /\ \A i \in b + 1 .. Len(old) : new[i + (n - (b - a))] = old[i]

\* relex keeps tokens up to a newline before the edit.
Keeps(T, keep, a, from) ==
  /\ keep > 0 => T[keep].kind = "newline" /\ T[keep].end <= a
  /\ from = IF keep > 0 THEN T[keep].end ELSE 0

KeptWell(T, keep, from, new, w) ==
  /\ LineByLine(w) /\ Tokenize(w).over
  /\ Len(w) = Len(new) - from
  /\ \A i \in 1 .. Len(new) - from : w[i] = new[from + i]
  /\ SubSeq(T, 1, keep) \in Seq(Moved)
  /\ Tokenize(new).tokens
       = SubSeq(T, 1, keep) \o ShiftAll(Tokenize(w).tokens, from)

\* The tokens kept are those of the new text, up to where they end.
LEMMA KeptAgree ==
  ASSUME NEW C, NEW old \in Seq(C), NEW new \in Seq(C),
         LineByLine(old), LineByLine(new),
         Tokenize(old).over, Tokenize(new).over,
         NEW a \in Nat, NEW b \in Nat, NEW n \in Nat, EditOf(old, new, a, b, n),
         NEW T, T = Tokenize(old).tokens, NEW keep \in 0 .. Len(T),
         NEW from, Keeps(T, keep, a, from)
  PROVE  LET w == SubSeq(new, from + 1, Len(new))
         IN  /\ from \in Nat /\ from <= a /\ w \in Seq(C)
             /\ KeptWell(T, keep, from, new, w)
<1> DEFINE w == SubSeq(new, from + 1, Len(new))
<1>1. /\ Len(old) \in Nat /\ Len(new) \in Nat /\ a <= Len(old) /\ a <= Len(new)
      /\ T \in Seq(LineTokens(old)) /\ Len(T) \in Nat
      /\ \A i \in 1 .. a : new[i] = old[i]
  BY LenProperties, WholeTokens DEF EditOf
<1>2. T \in Seq(Tok) /\ T \in Seq(Moved)
  BY <1>1, LineTokensAre
<1>3. ASSUME from \in Nat, from <= Len(new)
      PROVE  /\ Len(w) = Len(new) - from
             /\ \A i \in 1 .. Len(new) - from : w[i] = new[from + i]
  <2>1. ASSUME NEW f \in Nat, f <= Len(new)
        PROVE  /\ Len(SubSeq(new, f + 1, Len(new))) = Len(new) - f
               /\ \A i \in 1 .. Len(new) - f :
                    SubSeq(new, f + 1, Len(new))[i] = new[f + i]
    BY <1>1, <2>1
  <2> QED BY <1>3, <2>1
<1> HIDE DEF w
<1>4. SubSeq(T, 1, keep) \in Seq(Moved)
  <2>1. \A i \in 1 .. keep : T[i] \in Moved
    BY <1>1, <1>2, ElementOfSeq
  <2> QED BY <1>1, <2>1, SubSeqProperties
<1>5. CASE keep = 0
  <2>1. from = 0 /\ from + 1 = 1
    BY <1>5 DEF Keeps
  <2>2. w = new
    BY <1>1, <2>1 DEF w
  <2>3. SubSeq(T, 1, keep) = <<>>
    BY <1>1, <1>5, <2>1
  <2> DEFINE W == Tokenize(new).tokens
  <2>4. W \in Seq(LineTokens(new))
    BY WholeTokens
  <2> HIDE DEF W
  <2>5. W \in Seq(Moved)
    BY <2>4, LineTokensAre
  <2>6. ShiftAll(W, from) = W
    BY <2>1, <2>5, ShiftedNot
  <2>7. W = SubSeq(T, 1, keep) \o ShiftAll(W, from)
    <3>1. <<>> \o W = W
      BY <2>5
    <3> QED BY <2>3, <2>6, <3>1
  <2>8. from \in Nat /\ from <= a /\ from <= Len(new)
    BY <1>1, <2>1
  <2>9. w \in Seq(C) /\ LineByLine(w) /\ Tokenize(w).over
    BY <2>2
  <2>10. KeptWell(T, keep, from, new, w)
    BY <1>3, <1>4, <2>2, <2>7, <2>8, <2>9 DEF W, KeptWell
  <2> QED BY <2>8, <2>9, <2>10 DEF w
<1>6. CASE keep # 0
  <2> DEFINE q == T[keep].start
             u == SubSeq(old, 1, q)
             v == SubSeq(new, 1, q)
             z == SubSeq(new, q + 2, Len(new))
  <2>1. keep \in 1 .. Len(T) /\ keep > 0
    BY <1>1, <1>6
  <2>2. T[keep].kind = "newline" /\ T[keep].end <= a /\ from = T[keep].end
    BY <2>1 DEF Keeps
  <2>3. /\ q \in Nat /\ q > 0 /\ q < Len(old) /\ old[q] # "nl"
        /\ At(old, q) = "nl" /\ T[keep].end = q + 1
        /\ SubSeq(T, 1, keep) = Tokenize(u).tokens \o <<Newline(q)>>
    <3>1. CutsNewline(old, T, keep, q)
      BY <2>1, <2>2, CutAtNewline
    <3> HIDE DEF q
    <3> QED BY <3>1 DEF CutsNewline
  <2> HIDE DEF q
  <2>4. from = q + 1 /\ from \in Nat /\ q + 1 <= a /\ from <= a /\ from <= Len(new)
    <3>1. from = q + 1 /\ q + 1 <= a /\ q \in Nat
      BY <2>2, <2>3
    <3> QED BY <1>1, <3>1
  <2>5. q \in 1 .. a /\ q + 1 \in 1 .. a /\ q < Len(new)
    BY <1>1, <2>3, <2>4
  <2>6. new[q] = old[q] /\ new[q + 1] = old[q + 1]
    BY <1>1, <2>5
  <2>7. new[q] # "nl" /\ At(new, q) = "nl"
    BY <2>3, <2>5, <2>6 DEF At
  <2>8. /\ v \in Seq(C) /\ z \in Seq(C) /\ LineByLine(z) /\ Tokenize(z).over
        /\ Tokenize(new).tokens
             = (Tokenize(v).tokens \o <<Newline(q)>>)
               \o ShiftAll(Tokenize(z).tokens, q + 1)
    BY <2>3, <2>5, <2>7, SplitAtNewline
  <2>9. u = v
    <3> DEFINE o == 0
    <3>1. SameBytes(old, o, new, o, q) /\ o \in Nat /\ q \in Nat
      BY <1>1, <2>3, <2>5 DEF SameBytes
    <3>2. o + 1 = 1 /\ o + q = q
      BY <2>3
    <3> HIDE DEF o
    <3>3. SubSeq(old, o + 1, o + q) = SubSeq(new, o + 1, o + q)
      BY <3>1, SameCut
    <3> QED BY <3>2, <3>3
  <2>10. z = w
    <3>1. q + 2 = from + 1
      BY <2>3, <2>4
    <3> QED BY <3>1 DEF w
  <2> HIDE DEF u, v, z
  <2>11. /\ w \in Seq(C) /\ LineByLine(w) /\ Tokenize(w).over
         /\ Tokenize(new).tokens
              = SubSeq(T, 1, keep) \o ShiftAll(Tokenize(w).tokens, from)
    BY <2>3, <2>4, <2>8, <2>9, <2>10
  <2>12. KeptWell(T, keep, from, new, w)
    BY <1>3, <1>4, <2>4, <2>11 DEF KeptWell
  <2> QED BY <2>4, <2>11, <2>12 DEF w
<1> QED BY <1>1, <1>5, <1>6 DEF w

LEMMA ShiftedNewline ==
  ASSUME NEW p \in Nat, NEW k \in Int, NEW e \in Nat, e = p + k
  PROVE  /\ ShiftAll(<<Newline(p)>>, k) = <<Newline(e)>>
         /\ <<Newline(p)>> \in Seq(Moved) /\ <<Newline(e)>> \in Seq(Moved)
<1> DEFINE c == Newline(p)
           d == Newline(e)
           q == <<c>>
           r == <<d>>
           s == ShiftAll(q, k)
<1>1. /\ c \in Tok /\ c.kind = "newline" /\ c.start = p /\ c.end = p + 1
      /\ d \in Tok /\ d.kind = "newline" /\ d.start = e /\ d.end = e + 1
  BY NewlineIs
<1> HIDE DEF c, d
<1>2. q \in Seq(Tok) /\ Len(q) = 1 /\ q[1] = c
  BY <1>1
<1>3. r \in Seq(Tok) /\ Len(r) = 1 /\ r[1] = d
  BY <1>1
<1> HIDE DEF q, r
<1>4. q \in Seq(Moved) /\ r \in Seq(Moved)
  BY <1>2, <1>3, MovedTokens
<1>5. /\ s \in Seq(Moved) /\ Len(s) = Len(q)
      /\ \A i \in 1 .. Len(q) : /\ s[i].kind = q[i].kind
                                /\ s[i].start = q[i].start + k
                                /\ s[i].end = q[i].end + k
  BY <1>4, ShiftedRun
<1> HIDE DEF s
<1>6. ASSUME NEW i \in 1 .. Len(s)
      PROVE  s[i].kind = r[i].kind /\ s[i].start = r[i].start /\ s[i].end = r[i].end
  <2>1. i = 1 /\ i \in 1 .. Len(q)
    BY <1>2, <1>5
  <2>2. s[1].kind = c.kind /\ s[1].start = c.start + k /\ s[1].end = c.end + k
    BY <1>2, <1>5, <2>1
  <2> QED BY <1>1, <1>3, <2>1, <2>2
<1>7. s = r
  BY <1>2, <1>3, <1>4, <1>5, <1>6, SameRun
<1> QED BY <1>4, <1>7 DEF c, d, q, r, s

Regroups(x, y, z) == (x \o y) \o z = x \o (y \o z)

LEMMA Regrouped ==
  ASSUME NEW x \in Seq(Moved), NEW y \in Seq(Moved), NEW z \in Seq(Moved)
  PROVE  Regroups(x, y, z)
<1>1. (x \o y) \o z = x \o (y \o z)
  BY ConcatAssociative
<1> QED BY <1>1 DEF Regroups

\* relex takes over the old tokens from the one with the number resume on, a
\* newline behind the edit, at the offset to of the new text.
Resumes(T, resume, a, b, n, by, to) ==
  /\ T[resume].kind = "newline" /\ b < T[resume].start
  /\ by = n - (b - a) /\ to = T[resume].start + by

EndOf(w, new, from) ==
  Len(w) = Len(new) - from /\ SameBytes(w, 0, new, from, Len(w))

RegionWell(T, new, w, resume, from, to, by) ==
  LET q == LexRegion(SubSeq(new, from + 1, to), from)
      s == ShiftAll(SubSeq(T, resume, Len(T)), by)
  IN  /\ from <= to /\ q \in Seq(Moved) /\ s \in Seq(Moved)
      /\ ShiftAll(Tokenize(w).tokens, from) = q \o s

\* What is read from the line on that begins at from.
LEMMA RegionAgrees ==
  ASSUME NEW C, NEW old \in Seq(C), NEW new \in Seq(C),
         LineByLine(old), Tokenize(old).over,
         NEW a \in Nat, NEW b \in Nat, NEW n \in Nat, EditOf(old, new, a, b, n),
         NEW T, T = Tokenize(old).tokens, NEW resume \in 1 .. Len(T),
         NEW by \in Int, NEW to, Resumes(T, resume, a, b, n, by, to),
         NEW from \in Nat, from <= a, NEW w \in Seq(C),
         LineByLine(w), Tokenize(w).over, EndOf(w, new, from)
  PROVE  RegionWell(T, new, w, resume, from, to, by)
<1> DEFINE p == T[resume].start
           m == to - from
           region == SubSeq(new, from + 1, to)
           u == SubSeq(w, 1, m)
           v == SubSeq(w, m + 2, Len(w))
           x == SubSeq(old, p + 2, Len(old))
           W == Tokenize(w).tokens
           R == Tokenize(u).tokens
           B == Tokenize(v).tokens
           s == ShiftAll(SubSeq(T, resume, Len(T)), by)
<1>1. /\ Len(old) \in Nat /\ Len(new) \in Nat /\ Len(w) \in Nat
      /\ a <= b /\ b <= Len(old) /\ Len(new) = Len(old) + n - (b - a)
      /\ from + Len(w) = Len(new)
  BY LenProperties DEF EditOf, EndOf
<1>2. CutsNewline(old, T, resume, p)
  BY CutAtNewline DEF Resumes
<1>3. b < p /\ to = p + by /\ by = n - (b - a)
  BY DEF Resumes
<1> HIDE DEF p
<1>4. /\ p \in Nat /\ p > 0 /\ p < Len(old) /\ old[p] # "nl" /\ At(old, p) = "nl"
      /\ SubSeq(T, resume, Len(T))
           = <<Newline(p)>> \o ShiftAll(Tokenize(x).tokens, p + 1)
  BY <1>2 DEF CutsNewline
<1>5. old[p + 1] = "nl"
  BY <1>4 DEF At
<1>6. /\ to \in Nat /\ to > a /\ from < to /\ to < Len(new)
      /\ p \in b + 1 .. Len(old) /\ p + 1 \in b + 1 .. Len(old)
      /\ Len(new) = Len(old) + by
  <2>1. by = n - (b - a) /\ p \in Nat /\ p < Len(old)
    BY <1>3, <1>4
  <2>2. Len(new) = Len(old) + by
    BY <1>1, <2>1
  <2>3. to \in Int /\ to > a + n /\ to < Len(new)
    <3>1. p + by > b + by /\ b + by = a + n
      BY <1>1, <1>3, <2>1
    <3> QED BY <1>1, <1>3, <2>1, <2>2, <3>1
  <2>4. p \in b + 1 .. Len(old) /\ p + 1 \in b + 1 .. Len(old)
    BY <1>1, <1>3, <2>1
  <2> QED BY <2>2, <2>3, <2>4
<1>7. \A i \in b + 1 .. Len(old) : new[i + by] = old[i]
  BY <1>3 DEF EditOf
<1>8. new[to] # "nl" /\ new[to + 1] = "nl"
  <2>1. new[p + by] = old[p] /\ new[(p + 1) + by] = old[p + 1]
    BY <1>6, <1>7
  <2>2. p + by = to /\ (p + 1) + by = to + 1
    BY <1>3, <1>4, <1>6
  <2> QED BY <1>4, <1>5, <2>1, <2>2
<1>9. /\ m \in Nat /\ m > 0 /\ m < Len(w) /\ from + m = to
      /\ m \in 1 .. Len(w) /\ m + 1 \in 1 .. Len(w)
  <2>1. from \in Nat /\ to \in Nat /\ Len(w) \in Nat
        /\ from < to /\ to < from + Len(w)
    BY <1>1, <1>6
  <2> QED BY <2>1
<1> HIDE DEF m
<1>10. \A i \in 1 .. Len(w) : w[i] = new[from + i]
  <2>1. \A i \in 1 .. Len(w) : w[0 + i] = new[from + i]
    BY DEF SameBytes, EndOf
  <2>2. \A i \in 1 .. Len(w) : 0 + i = i
    BY <1>1
  <2> QED BY <2>1, <2>2
<1>11. w[m] # "nl" /\ At(w, m) = "nl"
  <2>1. w[m] = new[to]
    BY <1>9, <1>10
  <2>2. w[m + 1] = new[to + 1]
    <3>1. from + (m + 1) = to + 1
      BY <1>9
    <3>2. w[m + 1] = new[from + (m + 1)]
      BY <1>9, <1>10
    <3> QED BY <3>1, <3>2
  <2> QED BY <1>8, <1>9, <2>1, <2>2 DEF At
<1>12. /\ R \in Seq(LineTokens(u)) /\ B \in Seq(LineTokens(v))
       /\ W = (R \o <<Newline(m)>>) \o ShiftAll(B, m + 1)
  BY <1>9, <1>11, SplitAtNewline, ZenonT(40)
<1>13. u = region
  <2> DEFINE o == 0
  <2>1. SameBytes(w, o, new, from, m) /\ o \in Nat
    <3>1. o + m <= Len(w) /\ from + m <= Len(new)
      <4>1. m \in Nat /\ m < Len(w) /\ to < Len(new) /\ from + m = to
        BY <1>6, <1>9
      <4> QED BY <1>1, <1>6, <4>1, SMTT(30)
    <3>2. \A i \in 1 .. m : o + i = i /\ i \in 1 .. Len(w)
      BY <1>1, <1>9
    <3> HIDE DEF o
    <3>3. o \in Nat
      BY DEF o
    <3> QED BY <1>10, <3>1, <3>2, <3>3 DEF SameBytes
  <2>2. o + 1 = 1 /\ o + m = m
    BY <1>9
  <2> HIDE DEF o
  <2>3. SubSeq(w, o + 1, o + m) = SubSeq(new, from + 1, from + m)
    <3>1. m \in Nat
      BY <1>9
    <3> QED BY <2>1, <3>1, SameCut
  <2> QED BY <1>9, <2>2, <2>3
<1>14. v = x
  <2> DEFINE L == Len(old) - (p + 1)
             i == m + 1
             j == p + 1
  <2>1. /\ L \in Nat /\ i \in Nat /\ j \in Nat /\ i + L = Len(w) /\ j + L = Len(old)
        /\ i + 1 = m + 2 /\ j + 1 = p + 2
    <3>1. m \in Nat /\ from + m = to /\ p \in Nat /\ p < Len(old)
          /\ Len(new) = Len(old) + by /\ to = p + by
      BY <1>3, <1>4, <1>6, <1>9
    <3>2. from + Len(w) = Len(old) + by
      BY <1>1, <3>1
    <3>3. (m + 1) + L = Len(w)
      <4>1. from + (m + 1) = (p + by) + 1
        BY <3>1
      <4>2. (p + 1) + L = Len(old) /\ L \in Int
        BY <1>1, <3>1
      <4> HIDE DEF L
      <4> QED BY <1>1, <3>1, <3>2, <4>1, <4>2, SMTT(30)
    <3>4. L \in Nat /\ (p + 1) + L = Len(old)
      BY <1>1, <3>1
    <3> QED BY <3>1, <3>3, <3>4
  <2>2. ASSUME NEW k \in 1 .. L PROVE w[i + k] = old[j + k]
    <3>1. /\ i + k \in 1 .. Len(w) /\ j + k \in b + 1 .. Len(old)
          /\ from + (i + k) = (j + k) + by
      <4>1. m \in Nat /\ from + m = to /\ p \in Nat /\ to = p + by /\ b < p
        BY <1>3, <1>4, <1>9
      <4>2. from + i = j + by
        BY <4>1
      <4>3. b < j
        BY <4>1
      <4> HIDE DEF i, j, L
      <4>4. i + k \in 1 .. Len(w) /\ j + k \in b + 1 .. Len(old)
        BY <1>1, <2>1, <4>3, SMTT(30)
      <4>5. from + (i + k) = (j + k) + by
        BY <2>1, <4>2
      <4> QED BY <4>4, <4>5
    <3> HIDE DEF i, j
    <3>2. w[i + k] = new[from + (i + k)]
      BY <1>10, <3>1
    <3>3. new[(j + k) + by] = old[j + k]
      BY <1>7, <3>1
    <3> QED BY <3>1, <3>2, <3>3
  <2> HIDE DEF L, i, j
  <2>3. SameBytes(w, i, old, j, L)
    <3>1. i + L <= Len(w) /\ j + L <= Len(old)
      BY <1>1, <2>1, SMTT(30)
    <3> QED BY <2>2, <3>1 DEF SameBytes
  <2>4. SubSeq(w, i + 1, i + L) = SubSeq(old, j + 1, j + L)
    <3>1. L \in Nat /\ i \in Nat /\ j \in Nat
      BY <2>1
    <3> QED BY <2>3, <3>1, SameCut
  <2> QED BY <2>1, <2>4
<1>15. R \in Seq(Moved) /\ B \in Seq(Moved)
  BY <1>12, LineTokensAre
<1>16. ShiftAll(SubSeq(T, resume, Len(T)), by) = s
  OBVIOUS
<1>17. LexRegion(region, from) = ShiftAll(R, from)
  BY <1>13 DEF LexRegion
<1>18. Tokenize(x).tokens = B
  BY <1>14
<1> DEFINE D == ShiftAll(R, from)
           E == ShiftAll(B, to + 1)
           N == <<Newline(to)>>
<1> HIDE DEF R, B, W, u, v, x, region, s
<1>19. D \in Seq(Moved) /\ E \in Seq(Moved)
  <2>1. to + 1 \in Int /\ from \in Int
    BY <1>6
  <2> QED BY <1>15, <2>1, ShiftedRun
<1>20. /\ ShiftAll(<<Newline(m)>>, from) = N /\ <<Newline(m)>> \in Seq(Moved)
       /\ ShiftAll(<<Newline(p)>>, by) = N /\ <<Newline(p)>> \in Seq(Moved)
       /\ N \in Seq(Moved)
  <2>1. to = m + from /\ to = p + by /\ from \in Int
    BY <1>3, <1>6, <1>9
  <2> HIDE DEF N
  <2>2. ShiftAll(<<Newline(m)>>, from) = <<Newline(to)>>
        /\ <<Newline(m)>> \in Seq(Moved) /\ <<Newline(to)>> \in Seq(Moved)
    BY <1>6, <1>9, <2>1, ShiftedNewline
  <2>3. ShiftAll(<<Newline(p)>>, by) = <<Newline(to)>>
        /\ <<Newline(p)>> \in Seq(Moved)
    <3>1. p \in Nat /\ to \in Nat /\ to = p + by
      BY <1>4, <1>6, <2>1
    <3> QED BY <3>1, ShiftedNewline
  <2> QED BY <2>2, <2>3 DEF N
<1> HIDE DEF N, D, E
<1>21. s = N \o E
  <2> DEFINE y == ShiftAll(B, p + 1)
             z == <<Newline(p)>>
  <2>1. p + 1 \in Int /\ (p + 1) + by = to + 1
    <3>1. p \in Nat /\ to = p + by
      BY <1>3, <1>4
    <3> QED BY <3>1
  <2>2. y \in Seq(Moved)
    BY <1>15, <2>1, ShiftedRun
  <2>3. ShiftAll(y, by) = E
    <3> DEFINE k == p + 1
    <3>1. k \in Int /\ k + by = to + 1
      BY <2>1
    <3> HIDE DEF k
    <3>2. ShiftAll(ShiftAll(B, k), by) = ShiftAll(B, k + by)
      BY <1>15, <3>1, ShiftedTwice
    <3> QED BY <3>1, <3>2 DEF E, k
  <2>4. s = ShiftAll(z \o y, by)
    BY <1>4, <1>18 DEF s
  <2>5. z \in Seq(Moved) /\ ShiftAll(z, by) = N
    BY <1>20
  <2> HIDE DEF y, z
  <2> QED BY <1>6, <2>2, <2>3, <2>4, <2>5, ShiftedJoin
<1>22. ShiftAll(W, from) = (D \o N) \o E
  <2> DEFINE y == ShiftAll(B, m + 1)
             z == <<Newline(m)>>
             g == R \o z
  <2>1. m + 1 \in Int /\ (m + 1) + from = to + 1 /\ from \in Int
    BY <1>6, <1>9
  <2>2. y \in Seq(Moved)
    BY <1>15, <2>1, ShiftedRun
  <2>3. ShiftAll(y, from) = E
    BY <1>15, <2>1, ShiftedTwice DEF E
  <2>4. W = g \o y
    BY <1>12
  <2>5. z \in Seq(Moved) /\ ShiftAll(z, from) = N
    BY <1>20
  <2> HIDE DEF y, z
  <2>6. g \in Seq(Moved) /\ ShiftAll(g, from) = D \o N
    <3>1. ShiftAll(R \o z, from) = ShiftAll(R, from) \o ShiftAll(z, from)
      BY <1>15, <2>1, <2>5, ShiftedJoin
    <3>2. R \o z \in Seq(Moved)
      BY <1>15, <2>5
    <3> QED BY <2>5, <3>1, <3>2 DEF D
  <2> HIDE DEF g
  <2>7. ShiftAll(g \o y, from) = ShiftAll(g, from) \o ShiftAll(y, from)
    BY <2>1, <2>2, <2>6, ShiftedJoin
  <2> QED BY <2>3, <2>4, <2>6, <2>7
<1>23. (D \o N) \o E = D \o (N \o E)
  <2>1. D \in Seq(Moved) /\ N \in Seq(Moved) /\ E \in Seq(Moved)
    BY <1>19, <1>20
  <2>2. Regroups(D, N, E)
    BY <2>1, Regrouped
  <2> QED BY <2>2 DEF Regroups
<1>24. s \in Seq(Moved)
  BY <1>19, <1>20, <1>21
<1>25. from <= to
  BY <1>6
<1> QED BY <1>17, <1>19, <1>21, <1>22, <1>23, <1>24, <1>25
       DEF W, D, region, s, RegionWell

Agrees(r, t) == r.tokens = Tokenize(t).tokens

\* relex yields the tokens of the new text.
LEMMA RelexYields ==
  ASSUME NEW C, NEW old \in Seq(C), NEW new \in Seq(C),
         LineByLine(old), LineByLine(new),
         Tokenize(old).over, Tokenize(new).over,
         NEW a \in Nat, NEW b \in Nat, NEW n \in Nat, EditOf(old, new, a, b, n),
         NEW T, T = Tokenize(old).tokens
  PROVE  Agrees(Relex(T, old, new, a, b, n, FirstAffected(T, a)), new)
<1> DEFINE first  == FirstAffected(T, a)
           by     == n - (b - a)
           keep   == IF first > 0 THEN SafeRelexStart(T, first) ELSE 0
           resume == ResumePoint(T, b, Len(new), by)
           from   == IF keep > 0 THEN T[keep].end ELSE 0
           to     == IF resume > 0 THEN T[resume].start + by ELSE Len(new)
           region == SubSeq(new, from + 1, to)
           w      == SubSeq(new, from + 1, Len(new))
           p      == SubSeq(T, 1, keep)
           q      == LexRegion(region, from)
           s      == IF resume = 0 THEN <<>>
                     ELSE ShiftAll(SubSeq(T, resume, Len(T)), by)
           r      == Relex(T, old, new, a, b, n, first)
<1>1. PICK l : ReadOK(old, l, T)
  BY TokenizeReads
<1>2. /\ T \in Seq(LineTokens(old)) /\ T \in Seq(Tok)
      /\ Len(T) \in Nat /\ DOMAIN T = 1 .. Len(T)
      /\ Len(new) \in Nat /\ Len(old) \in Nat
  BY WholeTokens, LineTokensAre, LenProperties
<1>3. NoComments(old)
  BY DEF NoComments, LineByLine
<1>4. first \in 0 .. Len(T) /\ \A i \in 1 .. first : T[i].end <= a
  <2>1. \A i, j \in DOMAIN T : i < j => T[i].end <= T[j].end
    <3>1. \A i, j \in DOMAIN T : i <= j => T[i].end <= T[j].end
      BY <1>1, <1>3, TokensInOrder
    <3>2. \A i, j \in DOMAIN T : i < j => i <= j
      BY <1>2
    <3> QED BY <3>1, <3>2
  <2> QED BY <1>2, <2>1, FirstAffectedBehind
<1>5. r = IF Len(old) < MinIncremental \/ EditIsLarge(a, b, n, Len(old))
          THEN [tokens |-> Tokenize(new).tokens, slice |-> <<0, Len(new)>>]
          ELSE [tokens |-> p \o (IF from <= to THEN q ELSE <<>>) \o s,
                slice |-> <<from, to>>]
  BY DEF Relex
<1>6. by \in Int
  OBVIOUS
<1>7. keep \in 0 .. Len(T)
      /\ (keep > 0 => T[keep].kind = "newline" /\ T[keep].end <= a)
  <2> DEFINE k == SafeRelexStart(T, first)
  <2> HIDE DEF first
  <2>1. CASE first > 0 /\ k # 0
    <3>1. k \in 1 .. first /\ T[k].kind \in {"newline", "dedent"}
      BY <1>2, <1>4, <2>1, KeptIsSafe
    <3>2. keep = k
      BY <2>1
    <3> HIDE DEF k, keep
    <3>3. k \in 1 .. Len(T) /\ T[k].end <= a
      BY <1>2, <1>4, <3>1
    <3>4. T[k] \in LineTokens(old)
      BY <1>2, <3>3, ElementOfSeq
    <3>5. "dedent" \notin PlainKind \cup {"newline"}
      BY DEF PlainKind, Keyword, OneByte, TwoByteKind
    <3>6. T[k].kind = "newline"
      BY <3>1, <3>4, <3>5 DEF LineTokens
    <3> QED BY <1>2, <3>2, <3>3, <3>6
  <2>2. CASE ~ (first > 0 /\ k # 0)
    <3>1. keep = 0
      BY <2>2
    <3> HIDE DEF keep
    <3> QED BY <1>2, <3>1
  <2> QED BY <2>1, <2>2
<1>8. resume # 0 => /\ resume \in 1 .. Len(T) /\ T[resume].kind = "newline"
                    /\ b < T[resume].start
  <2> HIDE DEF by
  <2>1. ASSUME resume # 0 PROVE resume \in DOMAIN T /\ b < T[resume].start
    BY <1>2, <1>6, <2>1, ResumesBehind
  <2>2. ASSUME resume # 0 PROVE T[resume].kind = "newline"
    BY <1>2, <2>2, ResumesAtNewline
  <2> QED BY <1>2, <2>1, <2>2
<1> HIDE DEF first, keep, resume, r
<1>9. /\ from \in Nat /\ from <= a
      /\ w \in Seq(C) /\ LineByLine(w) /\ Tokenize(w).over
      /\ Len(w) = Len(new) - from
      /\ \A i \in 1 .. Len(new) - from : w[i] = new[from + i]
      /\ p \in Seq(Moved)
      /\ Tokenize(new).tokens = p \o ShiftAll(Tokenize(w).tokens, from)
  <2>1. Keeps(T, keep, a, from)
    BY <1>7 DEF Keeps
  <2> HIDE DEF from, w
  <2>2. from \in Nat /\ from <= a /\ w \in Seq(C) /\ KeptWell(T, keep, from, new, w)
    BY <1>7, <2>1, KeptAgree DEF w
  <2> QED BY <2>2 DEF KeptWell
<1>10. a <= Len(new) /\ from <= Len(new)
  <2> HIDE DEF from
  <2>1. a <= b /\ b <= Len(old) /\ Len(new) = Len(old) + n - (b - a)
    BY DEF EditOf
  <2>2. a <= Len(new)
    BY <1>2, <2>1
  <2> QED BY <1>2, <1>9, <2>2
<1>11. /\ from <= to /\ q \in Seq(Moved) /\ s \in Seq(Moved)
       /\ ShiftAll(Tokenize(w).tokens, from) = q \o s
  <2>1. CASE resume = 0
    <3>1. to = Len(new) /\ region = w /\ s = <<>>
      BY <2>1
    <3> DEFINE W == Tokenize(w).tokens
    <3>2. W \in Seq(LineTokens(w))
      BY <1>9, WholeTokens
    <3>3. q = ShiftAll(W, from)
      BY <3>1 DEF LexRegion
    <3> HIDE DEF W, q, s, to, region, w, from
    <3>4. W \in Seq(Moved)
      BY <3>2, LineTokensAre
    <3>5. q \in Seq(Moved)
      <4>1. from \in Int
        BY <1>9
      <4> QED BY <3>3, <3>4, <4>1, ShiftedRun
    <3>6. q \o <<>> = q
      BY <3>5
    <3> QED BY <1>10, <3>1, <3>3, <3>5, <3>6 DEF W
  <2>2. CASE resume # 0
    <3> DEFINE s2 == ShiftAll(SubSeq(T, resume, Len(T)), by)
    <3>1. resume \in 1 .. Len(T) /\ T[resume].kind = "newline"
          /\ b < T[resume].start
      BY <1>8, <2>2
    <3>2. to = T[resume].start + by /\ s = s2
      <4>1. resume > 0
        BY <1>2, <3>1
      <4> QED BY <2>2, <4>1
    <3>3. Resumes(T, resume, a, b, n, by, to)
      BY <3>1, <3>2 DEF Resumes
    <3> HIDE DEF to, from, by, w, s
    <3>4. EndOf(w, new, from)
      <4>1. Len(w) \in Nat /\ from + Len(w) = Len(new) /\ Len(w) = Len(new) - from
        BY <1>2, <1>9, <1>10
      <4>2. \A i \in 1 .. Len(w) : w[0 + i] = new[from + i]
        <5>1. \A i \in 1 .. Len(w) : 0 + i = i /\ i \in 1 .. Len(new) - from
          BY <4>1
        <5> QED BY <1>9, <5>1
      <4>3. 0 + Len(w) <= Len(w) /\ from + Len(w) <= Len(new)
        BY <1>2, <4>1
      <4> QED BY <4>1, <4>2, <4>3 DEF EndOf, SameBytes
    <3>5. /\ from <= to /\ q \in Seq(Moved) /\ s2 \in Seq(Moved)
          /\ ShiftAll(Tokenize(w).tokens, from) = q \o s2
      <4> HIDE DEF q, s2
      <4>1. RegionWell(T, new, w, resume, from, to, by)
        BY <1>6, <1>9, <3>1, <3>3, <3>4, RegionAgrees
      <4> QED BY <4>1 DEF RegionWell, q, s2
    <3> QED BY <3>2, <3>5
  <2> QED BY <2>1, <2>2
<1> HIDE DEF from, to, p, q, s, w
<1>12. Tokenize(new).tokens = (p \o q) \o s
  <2>1. Regroups(p, q, s)
    BY <1>9, <1>11, Regrouped
  <2> QED BY <1>9, <1>11, <2>1 DEF Regroups
<1>13. r.tokens = Tokenize(new).tokens
  <2>1. CASE Len(old) < MinIncremental \/ EditIsLarge(a, b, n, Len(old))
    BY <1>5, <2>1
  <2>2. CASE ~ (Len(old) < MinIncremental \/ EditIsLarge(a, b, n, Len(old)))
    BY <1>5, <1>11, <1>12, <2>2
  <2> QED BY <2>1, <2>2
<1> QED BY <1>13 DEF Agrees, r, first

\* The text is read as tokenize reads it, and no token is without a byte.
LineRead(t, l, toks) ==
  LET n == Len(toks)
      y == Reading(t)[n]
  IN  /\ n \in 0 .. 3 * Len(t) + 3
      /\ y.lexer = l /\ y.tokens = toks
      /\ SideBySide(t, 0, <<>>, y, y)

LEMMA LineReadStart ==
  ASSUME NEW C, NEW t \in Seq(C)
  PROVE  LineRead(t, NewLexer, <<>>)
<1> DEFINE k == 0
           y == Reading(t)[k]
           o == <<>>
<1>1. Len(t) \in Nat /\ Len(o) = k /\ k \in Nat
  BY LenProperties
<1>2. y = NothingRead
  BY <1>1, ReadingIs
<1>3. /\ k \in 0 .. 3 * Len(t) + 3 /\ ~ y.over /\ AtLine(y.lexer, k)
      /\ y.tokens = o /\ y.lexer = NewLexer
  BY <1>2, BeginsReading DEF NothingRead
<1>4. Together(t, k, y.lexer, y.lexer, k, <<>>)
  <2>1. k \in 0 .. Len(t) /\ k + k = k /\ LineBegins(t, k)
    BY <1>1 DEF LineBegins
  <2> HIDE DEF k, y
  <2> QED BY <1>3, <2>1 DEF Together
<1>5. Len(o) <= Spent(k, <<>>) /\ o \in Seq(LineTokens(t))
  BY DEF Spent
<1>6. o = o \o ShiftAll(o, k)
  <2>1. ShiftAll(o, k) = <<>>
    BY DEF ShiftAll
  <2> QED BY <2>1
<1>7. SideBySide(t, k, o, y, y)
  <2> HIDE DEF k, y
  <2> QED BY <1>3, <1>4, <1>5, <1>6 DEF SideBySide
<1> QED BY <1>1, <1>3, <1>7 DEF LineRead

LEMMA LineReadStep ==
  ASSUME NEW C, NEW t \in Seq(C), LineByLine(t), NEW l, NEW toks,
         LineRead(t, l, toks), ~ NeverReturns(t, l)
  PROVE  LET n == NextToken(t, l)
         IN  IF n.token.kind = "eof"
             THEN Tokenize(t).over /\ toks = Tokenize(t).tokens
             ELSE LineRead(t, n.lexer, Append(toks, n.token))
<1> DEFINE N  == 3 * Len(t) + 3
           k  == 0
           o  == <<>>
           m  == Len(toks)
           y  == Reading(t)[m]
           y2 == Reading(t)[m + 1]
           n  == NextToken(t, l)
<1>1. /\ Len(t) \in Nat /\ N \in Nat /\ k \in Nat /\ o \in Seq(Tok) /\ N > Len(t)
  BY LenProperties
<1>2. /\ m \in 0 .. N /\ y.lexer = l /\ y.tokens = toks
      /\ SideBySide(t, k, o, y, y)
  BY DEF LineRead
<1>3. Slice(t, k, t)
  BY <1>1 DEF Slice
<1> HIDE DEF k, o, y, y2
<1>4. m \in Nat /\ m <= Len(t)
  <2>1. PICK p, fs : /\ Together(t, k, y.lexer, y.lexer, p, fs)
                     /\ Len(y.tokens) <= Spent(p, fs)
    BY <1>2 DEF SideBySide
  <2>2. p \in 0 .. Len(t) /\ Spent(p, fs) <= p /\ Spent(p, fs) \in Int
    BY <1>1, <2>1 DEF Together, Spent
  <2>3. m <= Spent(p, fs)
    BY <1>2, <2>1
  <2> HIDE DEF m
  <2> QED BY <1>1, <1>2, <2>2, <2>3
<1>5. m + 1 \in 0 .. N /\ m \in 0 .. N - 1
  <2> HIDE DEF m, N
  <2> QED BY <1>1, <1>4
<1>6. y2 = ReadOne(t, y) /\ Reader(y)
  BY <1>1, <1>2, <1>5, ReadingIs DEF y, y2
<1> HIDE DEF m, N
<1>7. ~ y.over
  BY <1>2 DEF SideBySide
<1>8. IF n.token.kind = "eof" THEN y2.over /\ y2.tokens = y.tokens
      ELSE /\ ~ y2.over /\ y2.lexer = n.lexer
           /\ y2.tokens = Append(y.tokens, n.token)
  BY <1>2, <1>6, <1>7, ReadOneIs
<1>9. CASE n.token.kind = "eof"
  <2>1. y2.over /\ y2.tokens = toks
    BY <1>2, <1>8, <1>9
  <2>2. Tokenize(t) = y2
    BY <1>1, <1>5, <2>1, ReadingEnds DEF y2, N
  <2> QED BY <1>9, <2>1, <2>2
<1>10. CASE n.token.kind # "eof"
  <2>1. ~ y2.over /\ y2.lexer = n.lexer /\ y2.tokens = Append(toks, n.token)
    BY <1>2, <1>8, <1>10
  <2>2. \/ PartOver(t, k, t, o, y2, y2)
        \/ SideBySide(t, k, o, y2, y2) /\ Len(y2.tokens) = Len(y.tokens) + 1
    BY <1>1, <1>2, <1>3, <1>6, ReadOneAlike
  <2>3. ~ PartOver(t, k, t, o, y2, y2)
    BY <2>1 DEF PartOver
  <2>4. SideBySide(t, k, o, y2, y2) /\ Len(y2.tokens) = m + 1
    BY <1>2, <2>2, <2>3 DEF m
  <2>5. LineRead(t, n.lexer, Append(toks, n.token))
    <3> DEFINE z == Append(toks, n.token)
    <3>1. y2.lexer = n.lexer /\ y2.tokens = z /\ Len(z) = m + 1
      BY <2>1, <2>4
    <3> HIDE DEF z, n
    <3>2. Reading(t)[Len(z)] = y2
      BY <3>1 DEF y2
    <3>3. Len(z) \in 0 .. 3 * Len(t) + 3
      BY <1>5, <3>1 DEF N
    <3>4. SideBySide(t, 0, <<>>, y2, y2)
      BY <2>4 DEF k, o
    <3>5. LineRead(t, n.lexer, z)
      BY <3>1, <3>2, <3>3, <3>4 DEF LineRead
    <3> QED BY <3>5 DEF z
  <2> QED BY <1>10, <2>5
<1> QED BY <1>9, <1>10

AgreesOK ==
  LineByLine(before) =>
    /\ phase = "reading" => LineRead(text, lexer, tokens)
    /\ phase = "read" => Tokenize(text).over /\ tokens = Tokenize(text).tokens

LEMMA EditAgrees ==
  ASSUME IInv, AgreesOK, Edit
  PROVE  RelexAgrees'
<1>1. /\ phase = "read" /\ text = before /\ text \in Seq(STRING)
  BY DEF IInv, PhaseOK, ReadingOK, Edit
<1>2. PICK a \in 0 .. Len(text), d \in 0 .. MaxDeleted, ins \in Insertions :
        LET b   == a + d
            new == SubSeq(text, 1, a) \o ins \o SubSeq(text, b + 1, Len(text))
        IN  /\ b <= Len(text) /\ text' = new /\ before' = text
            /\ Tokenize(new).over
            /\ \E r \in {Relex(tokens, text, new, a, b, Len(ins),
                               FirstAffected(tokens, a))} : tokens' = r.tokens
  BY DEF Edit
<1> DEFINE b   == a + d
           u   == SubSeq(text, 1, a)
           w   == SubSeq(text, b + 1, Len(text))
           new == u \o ins \o w
           n   == Len(ins)
           r   == Relex(tokens, text, new, a, b, n, FirstAffected(tokens, a))
<1>3. /\ b <= Len(text) /\ text' = new /\ before' = text
      /\ Tokenize(new).over /\ tokens' = r.tokens
  BY <1>2
<1>4. /\ Len(text) \in Nat
      /\ \A i \in 1 .. Len(text) : text[i] \in STRING
  BY <1>1, LenProperties, ElementOfSeq
<1>5. a \in Nat /\ b \in Nat /\ a <= b /\ a <= Len(text)
  BY <1>4, RelexingAssumption
<1>6. ins \in Seq(STRING) /\ n \in Nat
  BY RelexingAssumption, LenProperties
<1> HIDE DEF b, r, n
<1>7. u \in Seq(STRING) /\ Len(u) = a /\ \A i \in 1 .. a : u[i] = text[i]
  <2>1. \A i \in 1 .. a : text[i] \in STRING
    BY <1>4, <1>5
  <2>2. /\ u \in Seq(STRING) /\ Len(u) = IF 1 <= a THEN a - 1 + 1 ELSE 0
        /\ \A i \in 1 .. a - 1 + 1 : u[i] = text[1 + i - 1]
    BY <1>5, <2>1, SubSeqProperties
  <2> HIDE DEF u
  <2>3. a - 1 + 1 = a /\ \A i \in 1 .. a : 1 + i - 1 = i
    BY <1>5
  <2> QED BY <1>5, <2>2, <2>3
<1>8. /\ w \in Seq(STRING) /\ Len(w) = Len(text) - b
      /\ \A i \in 1 .. Len(text) - b : w[i] = text[b + i]
  <2>1. \A i \in b + 1 .. Len(text) : text[i] \in STRING
    BY <1>4, <1>5
  <2>2. b + 1 \in Int /\ Len(text) \in Int
    BY <1>4, <1>5
  <2>3. /\ w \in Seq(STRING)
        /\ Len(w) = IF b + 1 <= Len(text) THEN Len(text) - (b + 1) + 1 ELSE 0
        /\ \A i \in 1 .. Len(text) - (b + 1) + 1 : w[i] = text[(b + 1) + i - 1]
    BY <2>1, <2>2, SubSeqProperties
  <2> HIDE DEF w
  <2>4. /\ Len(text) - (b + 1) + 1 = Len(text) - b
        /\ \A i \in 1 .. Len(text) - b : (b + 1) + i - 1 = b + i
    BY <1>4, <1>5
  <2>5. Len(w) = Len(text) - b
    <3>1. CASE b + 1 <= Len(text)
      BY <2>3, <2>4, <3>1
    <3>2. CASE ~ (b + 1 <= Len(text))
      <4>1. Len(text) - b = 0
        BY <1>3, <1>4, <1>5, <3>2
      <4> QED BY <2>3, <3>2, <4>1
    <3> QED BY <3>1, <3>2
  <2> QED BY <2>3, <2>4, <2>5
<1> HIDE DEF u, w
<1> DEFINE v == u \o ins
<1>9. /\ v \in Seq(STRING) /\ Len(v) = a + n
      /\ \A i \in 1 .. a : v[i] = u[i]
  <2>1. /\ u \o ins \in Seq(STRING) /\ Len(u \o ins) = Len(u) + Len(ins)
        /\ \A i \in 1 .. Len(u) + Len(ins) :
             (u \o ins)[i] = IF i <= Len(u) THEN u[i] ELSE ins[i - Len(u)]
    BY <1>6, <1>7, ConcatProperties
  <2>2. \A i \in 1 .. a : i \in 1 .. a + n /\ i <= a
    BY <1>5, <1>6
  <2> QED BY <1>7, <2>1, <2>2 DEF n
<1> HIDE DEF v, new
<1>10. new = v \o w
  BY DEF v, new
<1>11. /\ new \in Seq(STRING) /\ Len(new) = (a + n) + (Len(text) - b)
       /\ \A i \in 1 .. (a + n) + (Len(text) - b) :
            new[i] = IF i <= a + n THEN v[i] ELSE w[i - (a + n)]
  <2>1. v \in Seq(STRING) /\ w \in Seq(STRING)
    BY <1>8, <1>9
  <2>2. /\ v \o w \in Seq(STRING) /\ Len(v \o w) = Len(v) + Len(w)
        /\ \A i \in 1 .. Len(v) + Len(w) :
             (v \o w)[i] = IF i <= Len(v) THEN v[i] ELSE w[i - Len(v)]
    BY <2>1, ConcatProperties
  <2> QED BY <1>8, <1>9, <1>10, <2>2
<1>12. EditOf(text, new, a, b, n)
  <2>1. Len(new) = Len(text) + n - (b - a)
    BY <1>3, <1>4, <1>5, <1>6, <1>11
  <2>2. ASSUME NEW i \in 1 .. a PROVE new[i] = text[i]
    <3>1. i \in 1 .. (a + n) + (Len(text) - b) /\ i <= a + n
      BY <1>3, <1>4, <1>5, <1>6
    <3> QED BY <1>7, <1>9, <1>11, <3>1
  <2>3. ASSUME NEW i \in b + 1 .. Len(text)
        PROVE  new[i + (n - (b - a))] = text[i]
    <3> DEFINE j == i + (n - (b - a))
               k == i - b
    <3>1. /\ j \in 1 .. (a + n) + (Len(text) - b) /\ ~ (j <= a + n)
          /\ j - (a + n) = k /\ k \in 1 .. Len(text) - b /\ b + k = i
      BY <1>3, <1>4, <1>5, <1>6
    <3> HIDE DEF j, k
    <3>2. new[j] = w[k]
      BY <1>11, <3>1
    <3>3. w[k] = text[i]
      BY <1>8, <3>1
    <3> QED BY <3>2, <3>3 DEF j
  <2> QED BY <1>3, <1>5, <2>1, <2>2, <2>3 DEF EditOf
<1>13. ASSUME LineByLine(text), LineByLine(new)
       PROVE  r.tokens = Tokenize(new).tokens
  <2>1. Tokenize(text).over /\ tokens = Tokenize(text).tokens
    BY <1>1, <1>13 DEF AgreesOK
  <2>2. Agrees(Relex(tokens, text, new, a, b, n, FirstAffected(tokens, a)), new)
    BY <1>1, <1>3, <1>5, <1>6, <1>11, <1>12, <1>13, <2>1, RelexYields
  <2> QED BY <2>2 DEF Agrees, r
<1> QED BY <1>3, <1>13 DEF RelexAgrees

\* relex yields the tokens that reading the new text yields, if both texts
\* can be read line by line: prefix, region and suffix meet at newlines, and
\* what is read before one and behind it does not depend on the other.
THEOREM RelexingAgrees == Spec => []RelexAgrees
<1>1. Init => AgreesOK /\ RelexAgrees
  <2> SUFFICES ASSUME Init PROVE AgreesOK /\ RelexAgrees
    OBVIOUS
  <2>1. text \in Seq(STRING) /\ lexer = NewLexer /\ tokens = <<>>
        /\ phase = "reading"
    BY RelexingAssumption DEF Init
  <2>2. LineRead(text, lexer, tokens)
    BY <2>1, LineReadStart
  <2> QED BY <2>1, <2>2 DEF AgreesOK, RelexAgrees
<1>2. IInv /\ AgreesOK /\ RelexAgrees /\ [Next]_vars => AgreesOK' /\ RelexAgrees'
  <2> SUFFICES ASSUME IInv, AgreesOK, RelexAgrees, [Next]_vars
               PROVE  AgreesOK' /\ RelexAgrees'
    OBVIOUS
  <2>1. CASE ReadToken
    <3> DEFINE n == NextToken(text, lexer)
    <3>1. /\ phase = "reading" /\ ~ NeverReturns(text, lexer)
          /\ lexer' = n.lexer /\ text' = text /\ before' = before
          /\ IF n.token.kind = "eof" THEN phase' = "read" /\ tokens' = tokens
             ELSE tokens' = Append(tokens, n.token) /\ phase' = phase
      BY <2>1 DEF ReadToken
    <3>2. text = before /\ text \in Seq(STRING)
      BY <3>1 DEF IInv, PhaseOK, ReadingOK
    <3>3. LineByLine(before)
            => IF n.token.kind = "eof"
               THEN Tokenize(text).over /\ tokens = Tokenize(text).tokens
               ELSE LineRead(text, n.lexer, Append(tokens, n.token))
      BY <3>1, <3>2, LineReadStep DEF AgreesOK
    <3> HIDE DEF n
    <3>4. AgreesOK'
      BY <3>1, <3>3 DEF AgreesOK
    <3>5. RelexAgrees'
      BY <3>1 DEF RelexAgrees
    <3> QED BY <3>4, <3>5
  <2>2. CASE Edit
    <3>1. AgreesOK'
      BY <2>2 DEF Edit, AgreesOK
    <3> QED BY <2>2, <3>1, EditAgrees
  <2>3. CASE Recurse \/ UNCHANGED vars
    <3>1. UNCHANGED <<text, lexer, tokens, phase, before>>
      BY <2>3 DEF Recurse, vars
    <3> QED BY <3>1 DEF AgreesOK, RelexAgrees
  <2> QED BY <2>1, <2>2, <2>3 DEF Next
<1> QED BY <1>1, <1>2, InvariantHolds, PTL DEF Spec
===============================================================================
