----------------------------- MODULE LexerProofs -----------------------------
(***************************************************************************)
(* What the operators of the lexer return, for any text: where the scans   *)
(* end and what they pass, and what one call of next_token does.           *)
(***************************************************************************)
EXTENDS Lexer, SequenceTheorems, FiniteSetTheorems, WellFoundedInduction, TLAPS

(***************************************************************************)
(* Induction over sets of numbers.                                         *)
(***************************************************************************)
LEMMA LeastNumber ==
  ASSUME NEW T, T \subseteq Nat, T # {}
  PROVE  \E x \in T : \A y \in T : x <= y
<1>1. PICK x \in T : \A y \in T : ~ (<<y, x>> \in OpToRel(<, Nat))
  BY NatLessThanWellFounded, WFMin
<1>2. ASSUME NEW y \in T PROVE x <= y
  <2>1. x \in Nat /\ y \in Nat /\ ~ (<<y, x>> \in OpToRel(<, Nat))
    BY <1>1
  <2> QED BY <2>1 DEF OpToRel
<1> QED BY <1>2

LEMMA Upwards ==
  ASSUME NEW n \in Nat, NEW S, 0 \in S,
         \A k \in 0 .. n - 1 : k \in S => k + 1 \in S
  PROVE  \A k \in 0 .. n : k \in S
<1> DEFINE T == {k \in 0 .. n : k \notin S}
<1> SUFFICES ASSUME T # {} PROVE FALSE
  OBVIOUS
<1>1. T \subseteq Nat
  OBVIOUS
<1>2. PICK x \in T : \A y \in T : x <= y
  <2> HIDE DEF T
  <2> QED BY <1>1, LeastNumber
<1>3. x \in 1 .. n /\ x - 1 \notin T
  BY <1>2
<1> QED BY <1>3

LEMMA Downwards ==
  ASSUME NEW n \in Nat, NEW S,
         \A k \in 0 .. n : (\A j \in k + 1 .. n : j \in S) => k \in S
  PROVE  \A k \in 0 .. n : k \in S
<1> DEFINE T == {k \in 0 .. n : n - k \notin S}
<1> SUFFICES ASSUME NEW k \in 0 .. n, k \notin S PROVE FALSE
  OBVIOUS
<1>1. T \subseteq Nat /\ T # {}
  <2>1. PICK m \in 0 .. n : m = n - k /\ n - m = k
    OBVIOUS
  <2>2. m \in T
    BY <2>1
  <2>3. T \subseteq Nat
    OBVIOUS
  <2> HIDE DEF T
  <2> QED BY <2>2, <2>3
<1>2. PICK x \in T : \A y \in T : x <= y
  <2> HIDE DEF T
  <2> QED BY <1>1, LeastNumber
<1>3. ASSUME NEW j \in (n - x) + 1 .. n PROVE j \in S
  <2>1. n - j \in 0 .. n /\ n - (n - j) = j /\ ~ (x <= n - j)
    OBVIOUS
  <2>2. n - j \notin T
    BY <1>2, <2>1
  <2> QED BY <2>1, <2>2
<1>4. n - x \in 0 .. n
  OBVIOUS
<1>5. n - x \in S
  BY <1>3, <1>4
<1> QED BY <1>5
-------------------------------------------------------------------------------
(***************************************************************************)
(* Loops over the text.                                                    *)
(***************************************************************************)
Loop(n) == {next \in [0 .. n -> 0 .. n] : \A o \in 0 .. n : o <= next[o]}

LEMMA FollowDef ==
  ASSUME NEW n \in Nat, NEW next \in Loop(n), NEW o \in 0 .. n
  PROVE  Follow(next)[o] = IF next[o] = o THEN o ELSE Follow(next)[next[o]]
<1> DEFINE Solves(g, k) ==
      \A p \in k .. n : g[p] = IF next[p] = p THEN p ELSE g[next[p]]
<1> DEFINE S == {k \in 0 .. n : \E g : Solves(g, k)}
<1>1. /\ next \in [0 .. n -> 0 .. n] /\ DOMAIN next = 0 .. n
      /\ \A p \in 0 .. n : p <= next[p]
  BY DEF Loop
<1>2. ASSUME NEW k \in 0 .. n, \A j \in k + 1 .. n : j \in S
      PROVE  k \in S
  <2>1. PICK g : \A p \in k + 1 .. n :
                   g[p] = IF next[p] = p THEN p ELSE g[next[p]]
    <3>1. CASE k = n
      <4>1. Solves(<<>>, k + 1)
        BY <3>1
      <4> QED BY <4>1
    <3>2. CASE k # n
      <4>1. k + 1 \in S
        BY <1>2, <3>2
      <4> QED BY <4>1
    <3> QED BY <3>1, <3>2
  <2> DEFINE h == [p \in 0 .. n |-> IF p = k
                     THEN IF next[k] = k THEN k ELSE g[next[k]] ELSE g[p]]
  <2>2. ASSUME NEW p \in k .. n
        PROVE  h[p] = IF next[p] = p THEN p ELSE h[next[p]]
    <3>1. next[p] \in 0 .. n /\ p <= next[p]
      BY <1>1
    <3>2. CASE p = k
      BY <3>1, <3>2
    <3>3. CASE p # k
      <4>1. p \in k + 1 .. n /\ next[p] # k
        BY <3>1, <3>3
      <4> QED BY <2>1, <3>1, <4>1
    <3> QED BY <3>2, <3>3
  <2> HIDE DEF h
  <2>3. Solves(h, k)
    BY <2>2
  <2> QED BY <2>3
<1>3. 0 \in S
  <2> HIDE DEF S
  <2>1. \A k \in 0 .. n : (\A j \in k + 1 .. n : j \in S) => k \in S
    BY <1>2
  <2>2. \A k \in 0 .. n : k \in S
    BY <2>1, Downwards
  <2> QED BY <2>2
<1>4. PICK g : Solves(g, 0)
  BY <1>3
<1> DEFINE f == [p \in DOMAIN next |-> g[p]]
<1>5. f = [p \in DOMAIN next |-> IF next[p] = p THEN p ELSE f[next[p]]]
  <2>1. ASSUME NEW p \in 0 .. n
        PROVE  g[p] = IF next[p] = p THEN p ELSE f[next[p]]
    BY <1>1, <1>4
  <2> QED BY <1>1, <2>1
<1>6. Follow(next)
        = [p \in DOMAIN next |-> IF next[p] = p THEN p
                                 ELSE Follow(next)[next[p]]]
  <2> HIDE DEF f
  <2> QED BY <1>5 DEF Follow
<1> QED BY <1>1, <1>6

\* A loop ends at a fixed point behind its start, and keeps what each of its
\* steps keeps: a set of offsets that no step leaves.
LEMMA FollowEnds ==
  ASSUME NEW n \in Nat, NEW next \in Loop(n), NEW o \in 0 .. n
  PROVE  LET e == Follow(next)[o] IN e \in o .. n /\ next[e] = e
<1> DEFINE S == {p \in 0 .. n : /\ Follow(next)[p] \in p .. n
                                /\ next[Follow(next)[p]] = Follow(next)[p]}
<1>1. ASSUME NEW k \in 0 .. n, \A j \in k + 1 .. n : j \in S
      PROVE  k \in S
  <2>1. Follow(next)[k] = IF next[k] = k THEN k ELSE Follow(next)[next[k]]
    BY FollowDef
  <2>2. CASE next[k] = k
    BY <2>1, <2>2
  <2>3. CASE next[k] # k
    <3>1. next[k] \in k + 1 .. n
      BY <2>3 DEF Loop
    <3>2. next[k] \in S
      BY <1>1, <3>1
    <3> QED BY <2>1, <2>3, <3>1, <3>2
  <2> QED BY <2>2, <2>3
<1>2. \A k \in 0 .. n : k \in S
  <2> HIDE DEF S
  <2>1. \A k \in 0 .. n : (\A j \in k + 1 .. n : j \in S) => k \in S
    BY <1>1
  <2> QED BY <2>1, Downwards
<1> QED BY <1>2

LEMMA FollowKeeps ==
  ASSUME NEW n \in Nat, NEW next \in Loop(n), NEW o \in 0 .. n,
         NEW T \in SUBSET (0 .. n), \A p \in T : next[p] \in T, o \in T
  PROVE  Follow(next)[o] \in T
<1> DEFINE S == {p \in 0 .. n : p \in T => Follow(next)[p] \in T}
<1>1. ASSUME NEW k \in 0 .. n, \A j \in k + 1 .. n : j \in S
      PROVE  k \in S
  <2>1. Follow(next)[k] = IF next[k] = k THEN k ELSE Follow(next)[next[k]]
    BY FollowDef
  <2>2. CASE next[k] = k
    BY <2>1, <2>2
  <2>3. CASE next[k] # k
    <3>1. next[k] \in k + 1 .. n
      BY <2>3 DEF Loop
    <3>2. next[k] \in S
      BY <1>1, <3>1
    <3> QED BY <2>1, <2>3, <3>1, <3>2
  <2> QED BY <2>2, <2>3
<1>2. \A k \in 0 .. n : k \in S
  <2> HIDE DEF S
  <2>1. \A k \in 0 .. n : (\A j \in k + 1 .. n : j \in S) => k \in S
    BY <1>1
  <2> QED BY <2>1, Downwards
<1> QED BY <1>2

LEMMA GatherDef ==
  ASSUME NEW n \in Nat, NEW next \in Loop(n), NEW found, NEW o \in 0 .. n
  PROVE  Gather(next, found)[o] =
           IF next[o] = o THEN found[o]
           ELSE found[o] \o Gather(next, found)[next[o]]
<1> DEFINE Solves(g, k) ==
      \A p \in k .. n : g[p] = IF next[p] = p THEN found[p]
                               ELSE found[p] \o g[next[p]]
<1> DEFINE S == {k \in 0 .. n : \E g : Solves(g, k)}
<1>1. /\ next \in [0 .. n -> 0 .. n] /\ DOMAIN next = 0 .. n
      /\ \A p \in 0 .. n : p <= next[p]
  BY DEF Loop
<1>2. ASSUME NEW k \in 0 .. n, \A j \in k + 1 .. n : j \in S
      PROVE  k \in S
  <2>1. PICK g : \A p \in k + 1 .. n :
                   g[p] = IF next[p] = p THEN found[p]
                          ELSE found[p] \o g[next[p]]
    <3>1. CASE k = n
      <4>1. Solves(<<>>, k + 1)
        BY <3>1
      <4> QED BY <4>1
    <3>2. CASE k # n
      <4>1. k + 1 \in S
        BY <1>2, <3>2
      <4> QED BY <4>1
    <3> QED BY <3>1, <3>2
  <2> DEFINE h == [p \in 0 .. n |-> IF p = k
                     THEN IF next[k] = k THEN found[k]
                          ELSE found[k] \o g[next[k]]
                     ELSE g[p]]
  <2>2. ASSUME NEW p \in k .. n
        PROVE  h[p] = IF next[p] = p THEN found[p] ELSE found[p] \o h[next[p]]
    <3>1. next[p] \in 0 .. n /\ p <= next[p]
      BY <1>1
    <3>2. CASE p = k
      BY <3>1, <3>2
    <3>3. CASE p # k
      <4>1. p \in k + 1 .. n /\ next[p] # k
        BY <3>1, <3>3
      <4> QED BY <2>1, <3>1, <4>1
    <3> QED BY <3>2, <3>3
  <2> HIDE DEF h
  <2>3. Solves(h, k)
    BY <2>2
  <2> QED BY <2>3
<1>3. 0 \in S
  <2> HIDE DEF S
  <2>1. \A k \in 0 .. n : (\A j \in k + 1 .. n : j \in S) => k \in S
    BY <1>2
  <2>2. \A k \in 0 .. n : k \in S
    BY <2>1, Downwards
  <2> QED BY <2>2
<1>4. PICK g : Solves(g, 0)
  BY <1>3
<1> DEFINE f == [p \in DOMAIN next |-> g[p]]
<1>5. f = [p \in DOMAIN next |-> IF next[p] = p THEN found[p]
                                 ELSE found[p] \o f[next[p]]]
  <2>1. ASSUME NEW p \in 0 .. n
        PROVE  g[p] = IF next[p] = p THEN found[p] ELSE found[p] \o f[next[p]]
    BY <1>1, <1>4
  <2> QED BY <1>1, <2>1
<1>6. Gather(next, found)
        = [p \in DOMAIN next |-> IF next[p] = p THEN found[p]
                                 ELSE found[p] \o Gather(next, found)[next[p]]]
  <2> HIDE DEF f
  <2> QED BY <1>5 DEF Gather
<1> QED BY <1>1, <1>6
-------------------------------------------------------------------------------
(***************************************************************************)
(* Texts: what At sees, and where Pass ends.                               *)
(***************************************************************************)
\* A byte that is something lies in the text.
LEMMA AtInside ==
  ASSUME NEW C, NEW t \in Seq(C), NEW o \in Nat, At(t, o) # "end"
  PROVE  o < Len(t) /\ o + 1 \in 0 .. Len(t) /\ At(t, o) \in Range(t)
<1>1. Len(t) \in Nat /\ DOMAIN t = 1 .. Len(t)
  BY LenProperties
<1>2. o < Len(t) /\ At(t, o) = t[o + 1]
  BY <1>1 DEF At
<1> QED BY <1>1, <1>2 DEF Range

LEMMA PassEnds ==
  ASSUME NEW C, NEW t \in Seq(C), NEW o \in 0 .. Len(t), NEW bytes
  PROVE  LET e == Pass(t, o, bytes)
         IN  /\ e \in o .. Len(t)
             /\ \A i \in o .. e - 1 : At(t, i) \in bytes
             /\ e = Len(t) \/ At(t, e) \notin bytes
<1>0. Len(t) \in Nat
  BY LenProperties
<1> DEFINE T == {e \in o .. Len(t) : e = Len(t) \/ At(t, e) \notin bytes}
<1>1. T \subseteq Nat /\ T # {}
  <2>1. Len(t) \in T
    BY <1>0
  <2> QED BY <1>0, <2>1
<1>2. PICK e \in T : \A y \in T : e <= y
  <2> HIDE DEF T
  <2> QED BY <1>1, LeastNumber
<1>3. \A i \in o .. e - 1 : At(t, i) \in bytes
  <2> SUFFICES ASSUME NEW i \in o .. e - 1, At(t, i) \notin bytes PROVE FALSE
    OBVIOUS
  <2>1. i \in o .. Len(t) /\ ~ (e <= i)
    BY <1>0, <1>2
  <2>2. i \in T
    BY <2>1
  <2> QED BY <1>2, <2>1, <2>2
<1>4. \E d \in o .. Len(t) : /\ \A i \in o .. d - 1 : At(t, i) \in bytes
                             /\ d = Len(t) \/ At(t, d) \notin bytes
  BY <1>2, <1>3
<1> QED BY <1>4 DEF Pass

Unseen == Blank \cup {"nl", "\\"}

LEMMA WhitespaceLoop ==
  ASSUME NEW C, NEW t \in Seq(C), NEW depth \in Nat
  PROVE  PassWhitespace(t, depth) \in Loop(Len(t))
<1>0. Len(t) \in Nat
  BY LenProperties
<1>1. ASSUME NEW o \in 0 .. Len(t)
      PROVE  PassWhitespace(t, depth)[o] \in o .. Len(t)
  <2>1. At(t, o) # "end" => o + 1 \in 0 .. Len(t)
    BY <1>0, AtInside
  <2>2. At(t, o + 1) # "end" => o + 2 \in 0 .. Len(t)
    <3>1. At(t, o + 1) # "end" => o + 1 < Len(t)
      BY <1>0, AtInside
    <3> QED BY <1>0, <3>1
  <2> QED BY <1>0, <2>1, <2>2 DEF PassWhitespace, Blank
<1>2. PassWhitespace(t, depth) \in [0 .. Len(t) -> 0 .. Len(t)]
  <2>1. \A o \in 0 .. Len(t) : PassWhitespace(t, depth)[o] \in 0 .. Len(t)
    BY <1>0, <1>1
  <2> QED BY <2>1 DEF PassWhitespace
<1> QED BY <1>0, <1>1, <1>2 DEF Loop

\* skip_whitespace passes nothing that is seen, and stops at no blank.
LEMMA WhitespaceSkipped ==
  ASSUME NEW C, NEW t \in Seq(C), NEW depth \in Nat, NEW o \in 0 .. Len(t)
  PROVE  LET e == SkipWhitespace(t, depth)[o]
         IN  /\ e \in o .. Len(t)
             /\ \A i \in o .. e - 1 : At(t, i) \in Unseen
             /\ depth > 0 => At(t, e) # "nl"
<1> DEFINE next == PassWhitespace(t, depth)
           e == SkipWhitespace(t, depth)[o]
           T == {p \in o .. Len(t) : \A i \in o .. p - 1 : At(t, i) \in Unseen}
<1>0. Len(t) \in Nat /\ next \in Loop(Len(t))
  BY LenProperties, WhitespaceLoop
<1>1. e \in o .. Len(t) /\ next[e] = e
  <2> HIDE DEF next
  <2> QED BY <1>0, FollowEnds DEF SkipWhitespace, next
<1>2. ASSUME NEW p \in T PROVE next[p] \in T
  <2>1. next[p] \in p .. Len(t)
    BY <1>0 DEF Loop
  <2>2. ASSUME NEW i \in p .. next[p] - 1 PROVE At(t, i) \in Unseen
    <3>1. CASE At(t, p) \in Blank \/ (At(t, p) = "nl" /\ depth > 0)
      <4>1. i = p
        BY <1>0, <3>1 DEF PassWhitespace
      <4> QED BY <3>1, <4>1 DEF Unseen
    <3>2. CASE /\ ~ (At(t, p) \in Blank \/ (At(t, p) = "nl" /\ depth > 0))
               /\ At(t, p) = "\\" /\ At(t, p + 1) = "nl"
      <4>1. i = p \/ i = p + 1
        BY <1>0, <3>2 DEF PassWhitespace
      <4> QED BY <3>2, <4>1 DEF Unseen
    <3>3. CASE /\ ~ (At(t, p) \in Blank \/ (At(t, p) = "nl" /\ depth > 0))
               /\ ~ (At(t, p) = "\\" /\ At(t, p + 1) = "nl")
      BY <1>0, <3>3 DEF PassWhitespace
    <3> QED BY <3>1, <3>2, <3>3
  <2> HIDE DEF next
  <2>3. \A i \in o .. next[p] - 1 : i \in o .. p - 1 \/ i \in p .. next[p] - 1
    BY <1>0, <2>1
  <2> QED BY <1>0, <2>1, <2>2, <2>3
<1>3. e \in T
  <2>1. T \in SUBSET (0 .. Len(t)) /\ o \in T
    BY <1>0
  <2> HIDE DEF next, T
  <2> QED BY <1>0, <1>2, <2>1, FollowKeeps DEF SkipWhitespace, next
<1>4. depth > 0 => At(t, e) # "nl"
  <2> HIDE DEF e
  <2> QED BY <1>0, <1>1 DEF PassWhitespace
<1> QED BY <1>1, <1>3, <1>4

LEMMA QuoteIsByte == \A q \in Quote : q # "end" /\ q # "\\" /\ q # "nl"
BY DEF Quote

\* Three quotes in a row lie in the text.
LEMMA ThriceInside ==
  ASSUME NEW C, NEW t \in Seq(C), NEW o \in Nat, NEW q \in Quote,
         Thrice(t, o, q)
  PROVE  At(t, o) = q /\ o + 3 \in 0 .. Len(t)
<1>1. At(t, o) = q /\ At(t, o + 2) = q
  BY DEF Thrice
<1>2. o + 2 < Len(t)
  BY <1>1, QuoteIsByte, AtInside
<1> QED BY <1>1, <1>2, LenProperties

LEMMA StringLoop ==
  ASSUME NEW C, NEW t \in Seq(C), NEW q, NEW triple \in BOOLEAN
  PROVE  PassString(t, q, triple) \in Loop(Len(t))
<1>0. Len(t) \in Nat
  BY LenProperties
<1>1. ASSUME NEW o \in 0 .. Len(t)
      PROVE  PassString(t, q, triple)[o] \in o .. Len(t)
  BY <1>0 DEF PassString, StopsString, Least
<1>2. PassString(t, q, triple) \in [0 .. Len(t) -> 0 .. Len(t)]
  <2>1. \A o \in 0 .. Len(t) : PassString(t, q, triple)[o] \in 0 .. Len(t)
    BY <1>0, <1>1
  <2> QED BY <2>1 DEF PassString
<1> QED BY <1>0, <1>1, <1>2 DEF Loop

\* scan_string ends behind its start and in the text.
LEMMA StringEnds ==
  ASSUME NEW C, NEW t \in Seq(C), NEW o \in 0 .. Len(t),
         NEW q \in Quote, NEW triple \in BOOLEAN
  PROVE  LET r == ScanString(t, o, q, triple)
         IN  r.end \in o .. Len(t) /\ r.kind \in {"string", "error"}
<1> DEFINE next == PassString(t, q, triple)
           e == Follow(next)[o]
<1>0. Len(t) \in Nat /\ next \in Loop(Len(t))
  BY LenProperties, StringLoop
<1>1. e \in o .. Len(t) /\ next[e] = e
  <2> HIDE DEF next
  <2> QED BY <1>0, FollowEnds
<1> HIDE DEF e
<1>2. CASE At(t, e) = q
  <2>1. e + 1 \in 0 .. Len(t) /\ At(t, e) # "\\" /\ At(t, e) # "nl"
    BY <1>0, <1>1, <1>2, QuoteIsByte, AtInside
  <2>2. triple => Thrice(t, e, q)
    BY <1>0, <1>1, <1>2, <2>1 DEF PassString, StopsString
  <2>3. triple => e + 3 \in 0 .. Len(t)
    BY <1>0, <1>1, <2>2, ThriceInside
  <2> QED BY <1>0, <1>1, <1>2, <2>1, <2>3 DEF ScanString, e
<1>3. CASE At(t, e) # q
  BY <1>1, <1>3 DEF ScanString, e
<1> QED BY <1>2, <1>3

LEMMA LiteralLoop ==
  ASSUME NEW C, NEW t \in Seq(C), NEW f
  PROVE  PassLiteral(t, f) \in Loop(Len(t))
<1>0. Len(t) \in Nat
  BY LenProperties
<1>1. ASSUME NEW o \in 0 .. Len(t)
      PROVE  PassLiteral(t, f)[o] \in o .. Len(t)
  <2>1. Doubled(t, o) => o + 2 \in 0 .. Len(t)
    <3>0. o + 1 \in Nat
      BY <1>0
    <3>1. Doubled(t, o) => At(t, o + 1) # "end"
      BY DEF Doubled
    <3>2. Doubled(t, o) => o + 1 < Len(t)
      BY <3>0, <3>1, AtInside
    <3> QED BY <1>0, <3>2
  <2> QED BY <1>0, <2>1 DEF PassLiteral, Least
<1>2. PassLiteral(t, f) \in [0 .. Len(t) -> 0 .. Len(t)]
  <2>1. \A o \in 0 .. Len(t) : PassLiteral(t, f)[o] \in 0 .. Len(t)
    BY <1>0, <1>1
  <2> QED BY <2>1 DEF PassLiteral
<1> QED BY <1>0, <1>1, <1>2 DEF Loop

LEMMA LiteralEnds ==
  ASSUME NEW C, NEW t \in Seq(C), NEW f, NEW o \in 0 .. Len(t)
  PROVE  ScanFStringLiteral(t, f)[o] \in o .. Len(t)
BY LiteralLoop, FollowEnds, LenProperties DEF ScanFStringLiteral

\* Columns are numbers.
IsColumn(f, t, a, n) ==
  f = [o \in 0 .. n |->
         IF o = 0 THEN 0
         ELSE LET m == f[o - 1]
              IN  IF At(t, a + o - 1) = "sp" THEN m + 1 ELSE m + 8 - (m % 8)]

LEMMA ColumnDef ==
  ASSUME NEW t, NEW a \in Nat, NEW n \in Nat
  PROVE  \E column : IsColumn(column, t, a, n)
<1> DEFINE At8(m, o) == IF At(t, a + o - 1) = "sp" THEN m + 1
                        ELSE m + 8 - (m % 8)
           Solves(g, k) ==
             \A o \in 0 .. k : g[o] = IF o = 0 THEN 0 ELSE At8(g[o - 1], o)
           S == {k \in 0 .. n : \E g : Solves(g, k)}
<1> HIDE DEF At8
<1>1. 0 \in S
  <2>1. Solves([o \in 0 .. n |-> 0], 0)
    OBVIOUS
  <2> HIDE DEF Solves
  <2> QED BY <2>1
<1>2. ASSUME NEW k \in 0 .. n - 1, k \in S PROVE k + 1 \in S
  <2>1. PICK g : Solves(g, k)
    BY <1>2
  <2> DEFINE h == [o \in 0 .. n |-> IF o = k + 1 THEN At8(g[k], o) ELSE g[o]]
  <2>2. /\ h[k + 1] = At8(g[k], k + 1)
        /\ \A o \in 0 .. k : h[o] = g[o]
    OBVIOUS
  <2> HIDE DEF h
  <2>3. ASSUME NEW o \in 0 .. k + 1
        PROVE  h[o] = IF o = 0 THEN 0 ELSE At8(h[o - 1], o)
    <3>1. CASE o = k + 1
      <4>1. h[o - 1] = g[k] /\ o # 0
        BY <2>2, <3>1
      <4> QED BY <2>2, <3>1, <4>1
    <3>2. CASE o # k + 1
      <4>1. o \in 0 .. k /\ (o # 0 => o - 1 \in 0 .. k)
        BY <3>2
      <4> QED BY <2>1, <2>2, <4>1
    <3> QED BY <3>1, <3>2
  <2>4. Solves(h, k + 1)
    BY <2>3
  <2> HIDE DEF Solves
  <2> QED BY <2>4
<1>3. n \in S
  <2> HIDE DEF S
  <2>1. \A k \in 0 .. n - 1 : k \in S => k + 1 \in S
    BY <1>2
  <2>2. \A k \in 0 .. n : k \in S
    BY <1>1, <2>1, Upwards
  <2> QED BY <2>2
<1>4. PICK g : Solves(g, n)
  <2> HIDE DEF Solves
  <2> QED BY <1>3
<1> DEFINE f == [o \in 0 .. n |-> g[o]]
<1>5. f = [o \in 0 .. n |-> IF o = 0 THEN 0 ELSE At8(f[o - 1], o)]
  <2>1. ASSUME NEW o \in 0 .. n
        PROVE  g[o] = IF o = 0 THEN 0 ELSE At8(f[o - 1], o)
    <3>1. o # 0 => f[o - 1] = g[o - 1]
      OBVIOUS
    <3> HIDE DEF f
    <3> QED BY <1>4, <3>1
  <2> QED BY <2>1
<1> HIDE DEF f
<1>6. IsColumn(f, t, a, n)
  BY <1>5 DEF IsColumn, At8
<1> QED BY <1>6

LEMMA ColumnType ==
  ASSUME NEW t, NEW a \in Nat, NEW b \in Nat, a <= b
  PROVE  Column(t, a, b) \in Nat
<1> DEFINE n == b - a
           column == CHOOSE f : IsColumn(f, t, a, n)
           S == {o \in 0 .. n : column[o] \in Nat}
<1>0. n \in Nat
  OBVIOUS
<1>1. IsColumn(column, t, a, n)
  <2>1. \E f : IsColumn(f, t, a, n)
    <3> HIDE DEF n
    <3> QED BY <1>0, ColumnDef
  <2> QED BY <2>1
<1>2. Column(t, a, b) = column[n]
  BY DEF Column, IsColumn
<1> HIDE DEF column
<1>3. 0 \in S /\ \A k \in 0 .. n - 1 : k \in S => k + 1 \in S
  <2> HIDE DEF n
  <2>1. 0 \in S
    BY <1>0, <1>1 DEF IsColumn
  <2>2. ASSUME NEW k \in 0 .. n - 1, k \in S PROVE k + 1 \in S
    <3>1. k + 1 \in 0 .. n /\ k + 1 # 0 /\ (k + 1) - 1 = k
      BY <1>0
    <3>2. column[k + 1] \in {column[k] + 1, column[k] + 8 - (column[k] % 8)}
      BY <1>1, <3>1 DEF IsColumn
    <3>3. \A m \in Nat : m + 1 \in Nat /\ m + 8 - (m % 8) \in Nat
      OBVIOUS
    <3> QED BY <2>2, <3>1, <3>2, <3>3
  <2> QED BY <2>1, <2>2
<1>4. n \in S
  <2> HIDE DEF n, S
  <2>1. \A k \in 0 .. n : k \in S
    BY <1>0, <1>3, Upwards
  <2> QED BY <1>0, <2>1
<1> QED BY <1>2, <1>4
-------------------------------------------------------------------------------
(***************************************************************************)
(* Tokens and the bytes they span.                                         *)
(***************************************************************************)
TwoByteKind ==
  {":=", "+=", "->", "-=", "**", "*=", "//", "/=", "%=", "&=", "|=", "^=",
   "<<", "<=", ">>", ">=", "==", "!="}

\* Tokens whose kind says nothing of lines, blocks and brackets.
PlainKind == Keyword \cup OneByte \cup TwoByteKind \cup
  {"...", "comment", "name", "int", "float", "string", "fstart", "fend",
   "flit", "error"}

Kind == PlainKind \cup Opener \cup Closer \cup {"newline", "indent", "dedent"}

Tok == [kind : Kind, start : Nat, end : Nat]

Spans(k, o) == k.start <= o /\ o < k.end

OneOf(q, o) == \E i \in DOMAIN q :
                 /\ Spans(q[i], o)
                 /\ \A j \in DOMAIN q : Spans(q[j], o) => j = i

NoneOf(q, o) == \A i \in DOMAIN q : ~ Spans(q[i], o)

LEMMA TokenType ==
  ASSUME NEW kind \in Kind, NEW a \in Nat, NEW b \in Nat
  PROVE  /\ Token(kind, a, b) \in Tok
         /\ Token(kind, a, b).kind = kind
         /\ Token(kind, a, b).start = a /\ Token(kind, a, b).end = b
BY DEF Tok, Token

LEMMA OneOfFirst ==
  ASSUME NEW S, NEW q \in Seq(S), NEW c \in S, NEW o,
         \/ Spans(c, o) /\ NoneOf(q, o)
         \/ ~ Spans(c, o) /\ OneOf(q, o)
  PROVE  OneOf(<<c>> \o q, o)
<1> DEFINE r == <<c>> \o q
<1>1. /\ DOMAIN q = 1 .. Len(q) /\ Len(q) \in Nat
      /\ DOMAIN r = 1 .. (Len(q) + 1)
      /\ r[1] = c
      /\ \A i \in 1 .. Len(q) : r[i + 1] = q[i]
      /\ \A i \in 2 .. (Len(q) + 1) : i - 1 \in 1 .. Len(q) /\ r[i] = q[i - 1]
  <2>1. <<c>> \in Seq(S) /\ Len(<<c>>) = 1 /\ <<c>>[1] = c
    OBVIOUS
  <2>2. Len(q) \in Nat /\ DOMAIN q = 1 .. Len(q)
    BY LenProperties
  <2>3. /\ r \in Seq(S) /\ Len(r) = 1 + Len(q)
        /\ \A i \in 1 .. 1 + Len(q) : r[i] = IF i <= 1 THEN c ELSE q[i - 1]
    BY <2>1, ConcatProperties
  <2>4. DOMAIN r = 1 .. (Len(q) + 1)
    BY <2>2, <2>3, LenProperties
  <2> HIDE DEF r
  <2> QED BY <2>2, <2>3, <2>4
<1> HIDE DEF r
<1>2. CASE Spans(c, o) /\ NoneOf(q, o)
  <2>1. ASSUME NEW j \in DOMAIN r, Spans(r[j], o) PROVE j = 1
    BY <1>1, <1>2, <2>1 DEF NoneOf
  <2>2. 1 \in DOMAIN r
    BY <1>1
  <2> QED BY <1>1, <1>2, <2>1, <2>2 DEF OneOf, r
<1>3. CASE ~ Spans(c, o) /\ OneOf(q, o)
  <2>1. PICK i \in 1 .. Len(q) : /\ Spans(q[i], o)
                                 /\ \A j \in 1 .. Len(q) : Spans(q[j], o) => j = i
    BY <1>1, <1>3 DEF OneOf
  <2>2. i + 1 \in DOMAIN r /\ Spans(r[i + 1], o)
    BY <1>1, <2>1
  <2>3. ASSUME NEW j \in DOMAIN r, Spans(r[j], o) PROVE j = i + 1
    <3>1. j # 1
      BY <1>1, <1>3, <2>3
    <3>2. j - 1 \in 1 .. Len(q) /\ Spans(q[j - 1], o)
      BY <1>1, <2>3, <3>1
    <3> QED BY <1>1, <2>1, <3>2
  <2> QED BY <2>2, <2>3 DEF OneOf, r
<1> QED BY <1>2, <1>3

\* A line that is blank or a comment: its indentation and its comment.
LEMMA LineFacts ==
  ASSUME NEW C, NEW t \in Seq(C), NEW o \in 0 .. Len(t)
  PROVE  LET b == IndentEnd(t, o)
             e == CommentEnd(t, b)
         IN  /\ b \in o .. Len(t)
             /\ \A i \in o .. b - 1 : At(t, i) \in {"sp", "tab"}
             /\ e \in b .. Len(t)
             /\ At(t, b) = "#" => b < e
             /\ e < Len(t) => At(t, e) = "nl"
             /\ At(t, b) = "nl" => b + 1 \in 0 .. Len(t)
<1> DEFINE b == IndentEnd(t, o)
           e == CommentEnd(t, b)
<1>0. Len(t) \in Nat
  BY LenProperties
<1>1. b \in o .. Len(t) /\ \A i \in o .. b - 1 : At(t, i) \in {"sp", "tab"}
  BY PassEnds DEF IndentEnd
<1> HIDE DEF b
<1>2. /\ e \in b .. Len(t)
      /\ e = Len(t) \/ At(t, e) \notin Range(t) \ {"nl"}
  <2>1. b \in 0 .. Len(t)
    BY <1>0, <1>1
  <2> QED BY <2>1, PassEnds DEF CommentEnd
<1> HIDE DEF e
<1>3. \A i \in 0 .. Len(t) : i < Len(t) => At(t, i) \in Range(t)
  <2>1. DOMAIN t = 1 .. Len(t)
    BY LenProperties
  <2> QED BY <1>0, <2>1 DEF At, Range
<1>4. At(t, b) # "end" => b < Len(t) /\ b + 1 \in 0 .. Len(t)
  BY <1>0, <1>1, AtInside
<1>5. e < Len(t) => At(t, e) = "nl"
  BY <1>0, <1>1, <1>2, <1>3
<1>6. At(t, b) = "#" => b < e
  BY <1>0, <1>1, <1>2, <1>4, <1>5
<1> QED BY <1>1, <1>2, <1>4, <1>5, <1>6 DEF b, e

LEMMA LineLoop ==
  ASSUME NEW C, NEW t \in Seq(C)
  PROVE  PassLine(t) \in Loop(Len(t))
<1>0. Len(t) \in Nat
  BY LenProperties
<1>1. ASSUME NEW o \in 0 .. Len(t)
      PROVE  PassLine(t)[o] \in o .. Len(t)
  <2> DEFINE b == IndentEnd(t, o)
             e == CommentEnd(t, b)
  <2>1. /\ b \in o .. Len(t) /\ e \in b .. Len(t)
        /\ At(t, b) = "nl" => b + 1 \in 0 .. Len(t)
    BY LineFacts
  <2>2. PassLine(t)[o] = IF At(t, b) = "nl" THEN b + 1
                         ELSE IF At(t, b) = "#" /\ e < Len(t) THEN e + 1
                         ELSE o
    BY DEF PassLine
  <2> HIDE DEF b, e
  <2> QED BY <1>0, <2>1, <2>2
<1>2. PassLine(t) \in [0 .. Len(t) -> 0 .. Len(t)]
  <2>1. \A o \in 0 .. Len(t) : PassLine(t)[o] \in 0 .. Len(t)
    BY <1>0, <1>1
  <2> QED BY <2>1 DEF PassLine
<1> QED BY <1>0, <1>1, <1>2 DEF Loop

\* What PassBlankLines returns: comments in the order of the text, which hold
\* all that is seen before the indentation that counts.
LinesOK(t, o, l) ==
  /\ l.start \in o .. Len(t) /\ l.end \in l.start .. Len(t)
  /\ l.comments \in Seq(Tok)
  /\ \A i \in DOMAIN l.comments :
       /\ l.comments[i].kind = "comment"
       /\ o <= l.comments[i].start
       /\ l.comments[i].start <= l.comments[i].end
       /\ l.comments[i].end <= l.end
       /\ At(t, l.comments[i].start) = "#"
  /\ \A i \in o .. l.end - 1 : At(t, i) \in Unseen \/ OneOf(l.comments, i)
  /\ l.end < Len(t) => \A i \in l.start .. l.end - 1 : At(t, i) \in Unseen

LEMMA OneOfAlone ==
  ASSUME NEW c, NEW o, Spans(c, o)
  PROVE  OneOf(<<c>>, o)
<1>1. DOMAIN <<c>> = {1} /\ <<c>>[1] = c
  OBVIOUS
<1> QED BY <1>1 DEF OneOf

LEMMA LinesPassed ==
  ASSUME NEW C, NEW t \in Seq(C), NEW o \in 0 .. Len(t)
  PROVE  LinesOK(t, o, PassBlankLines(t, o))
<1> DEFINE next == PassLine(t)
           found == CommentOfLine(t)
           S == {k \in 0 .. Len(t) : LinesOK(t, k, PassBlankLines(t, k))}
<1>0. Len(t) \in Nat /\ next \in Loop(Len(t))
  BY LenProperties, LineLoop
<1>1. ASSUME NEW k \in 0 .. Len(t), \A j \in k + 1 .. Len(t) : j \in S
      PROVE  k \in S
  <2> DEFINE b == IndentEnd(t, k)
             e == CommentEnd(t, b)
             c == Token("comment", b, e)
             l == PassBlankLines(t, k)
             u == PassBlankLines(t, next[k])
             p == next[k]
  <2>1. /\ b \in k .. Len(t) /\ e \in b .. Len(t)
        /\ \A i \in k .. b - 1 : At(t, i) \in {"sp", "tab"}
        /\ At(t, b) = "#" => b < e
        /\ e < Len(t) => At(t, e) = "nl"
    BY LineFacts
  <2>2. p = IF At(t, b) = "nl" THEN b + 1
            ELSE IF At(t, b) = "#" /\ e < Len(t) THEN e + 1 ELSE k
    BY DEF PassLine
  <2>3. found[k] = IF At(t, b) = "#" THEN <<c>> ELSE <<>>
    BY DEF CommentOfLine
  <2>4. p \in k .. Len(t)
    BY <1>0 DEF Loop
  <2>5. c \in Tok /\ c.kind = "comment" /\ c.start = b /\ c.end = e
    <3>1. b \in Nat /\ e \in Nat
      BY <1>0, <2>1
    <3> HIDE DEF b, e
    <3>2. "comment" \in Kind
      BY DEF Kind, PlainKind
    <3> QED BY <3>1, <3>2, TokenType
  <2>6. {"sp", "tab"} \subseteq Unseen /\ "nl" \in Unseen
    BY DEF Unseen, Blank
  <2>7. \A i \in b .. e - 1 : Spans(c, i)
    <3> HIDE DEF b, e, c
    <3> QED BY <1>0, <2>1, <2>5 DEF Spans
  <2>8. CASE p = k
    <3>1. Follow(next)[k] = k /\ Gather(next, found)[k] = found[k]
      <4> HIDE DEF next, found
      <4> QED BY <1>0, <2>8, FollowDef, GatherDef
    <3>2. /\ l.start = k /\ l.comments = found[k]
          /\ l.end = IF At(t, b) = "#" THEN e ELSE b
      <4> HIDE DEF b, e
      <4> QED BY <3>1 DEF PassBlankLines, b, e
    <3> HIDE DEF b, e, c, l, p, next, found
    <3>3. CASE At(t, b) = "#"
      <4>1. e = Len(t) /\ l.comments = <<c>> /\ l.end = e
        BY <1>0, <2>1, <2>2, <2>3, <2>8, <3>2, <3>3
      <4>2. DOMAIN <<c>> = {1} /\ <<c>>[1] = c /\ <<c>> \in Seq(Tok)
        BY <2>5
      <4>3. ASSUME NEW i \in k .. e - 1
            PROVE  At(t, i) \in Unseen \/ OneOf(<<c>>, i)
        <5>1. CASE i < b
          BY <2>1, <2>6, <5>1
        <5>2. CASE b <= i
          BY <2>1, <2>7, <5>2, OneOfAlone
        <5> QED BY <2>1, <5>1, <5>2
      <4>4. LinesOK(t, k, l)
        BY <1>0, <2>1, <2>5, <3>2, <3>3, <4>1, <4>2, <4>3 DEF LinesOK
      <4> QED BY <4>4 DEF l
    <3>4. CASE At(t, b) # "#"
      <4>1. l.comments = <<>> /\ l.end = b /\ l.start = k
        BY <2>3, <3>2, <3>4
      <4>2. DOMAIN <<>> = {} /\ <<>> \in Seq(Tok)
        OBVIOUS
      <4>3. LinesOK(t, k, l)
        BY <1>0, <2>1, <2>6, <4>1, <4>2 DEF LinesOK
      <4> QED BY <4>3 DEF l
    <3> QED BY <3>3, <3>4
  <2>9. CASE p # k
    <3>1. p \in k + 1 .. Len(t) /\ (At(t, b) = "nl" \/ At(t, b) = "#")
      BY <1>0, <2>2, <2>4, <2>9
    <3>2. LinesOK(t, p, u)
      BY <1>1, <3>1
    <3>3. /\ Follow(next)[k] = Follow(next)[p]
          /\ Gather(next, found)[k] = found[k] \o Gather(next, found)[p]
      <4> HIDE DEF next, found
      <4>1. Follow(next)[k] = Follow(next)[p]
        BY <1>0, <2>9, FollowDef
      <4>2. Gather(next, found)[k] = found[k] \o Gather(next, found)[p]
        BY <1>0, <2>9, GatherDef, ZenonT(30)
      <4> QED BY <4>1, <4>2
    <3>4. /\ l.start = u.start /\ l.end = u.end
          /\ l.comments = found[k] \o u.comments
      BY <3>3 DEF PassBlankLines
    <3> HIDE DEF b, e, c, l, p, u, next, found
    <3>5. CASE At(t, b) = "nl"
      <4>1. found[k] = <<>> /\ p = b + 1
        BY <2>2, <2>3, <3>5
      <4>2. l.comments = u.comments
        BY <3>2, <3>4, <4>1 DEF LinesOK
      <4>3. ASSUME NEW i \in k .. l.end - 1
            PROVE  At(t, i) \in Unseen \/ OneOf(l.comments, i)
        <5>1. CASE i < b
          BY <2>1, <2>6, <5>1
        <5>2. CASE i = b
          BY <2>6, <3>5, <5>2
        <5>3. CASE b < i
          <6>1. i \in p .. u.end - 1
            BY <2>1, <3>4, <4>1, <5>3
          <6> QED BY <3>2, <4>2, <6>1 DEF LinesOK
        <5> QED BY <2>1, <5>1, <5>2, <5>3
      <4>4. ASSUME NEW i \in DOMAIN l.comments
            PROVE  /\ l.comments[i].kind = "comment"
                   /\ k <= l.comments[i].start
                   /\ l.comments[i].start <= l.comments[i].end
                   /\ l.comments[i].end <= l.end
                   /\ At(t, l.comments[i].start) = "#"
        <5>1. l.comments[i] \in Tok
          BY <3>2, <4>2, ElementOfSeq, LenProperties DEF LinesOK
        <5>2. l.comments[i].start \in Nat /\ p <= l.comments[i].start
          BY <3>2, <4>2, <5>1 DEF LinesOK, Tok
        <5> QED BY <3>1, <3>2, <3>4, <4>2, <5>2 DEF LinesOK
      <4>5. LinesOK(t, k, l)
        BY <1>0, <3>1, <3>2, <3>4, <4>2, <4>3, <4>4 DEF LinesOK
      <4> QED BY <4>5 DEF l
    <3>6. CASE At(t, b) = "#"
      <4>1. found[k] = <<c>> /\ p = e + 1 /\ At(t, e) = "nl" /\ b < e
        BY <2>1, <2>2, <2>3, <2>9, <3>6
      <4>2. l.comments = <<c>> \o u.comments
        BY <3>4, <4>1
      <4>3. u.comments \in Seq(Tok) /\ u.start \in p .. Len(t) /\ u.end \in u.start .. Len(t)
        BY <3>2 DEF LinesOK
      <4>4. /\ l.comments \in Seq(Tok)
            /\ \A i \in DOMAIN l.comments :
                 l.comments[i] = c \/ \E j \in DOMAIN u.comments : l.comments[i] = u.comments[j]
        <5>1. <<c>> \in Seq(Tok) /\ Len(<<c>>) = 1 /\ <<c>>[1] = c
          BY <2>5
        <5>2. /\ l.comments \in Seq(Tok)
              /\ Len(l.comments) = 1 + Len(u.comments)
              /\ \A i \in 1 .. 1 + Len(u.comments) :
                   l.comments[i] = IF i <= 1 THEN <<c>>[i] ELSE u.comments[i - 1]
          BY <4>2, <4>3, <5>1, ConcatProperties
        <5>3. DOMAIN l.comments = 1 .. 1 + Len(u.comments)
          BY <5>2, LenProperties
        <5>4. DOMAIN u.comments = 1 .. Len(u.comments) /\ Len(u.comments) \in Nat
          BY <4>3, LenProperties
        <5>5. ASSUME NEW i \in DOMAIN l.comments, l.comments[i] # c
              PROVE  \E j \in DOMAIN u.comments : l.comments[i] = u.comments[j]
          <6>1. i \in 2 .. 1 + Len(u.comments)
            BY <5>1, <5>2, <5>3, <5>4, <5>5
          <6>2. i - 1 \in DOMAIN u.comments
            BY <5>4, <6>1
          <6> QED BY <5>2, <5>4, <6>1, <6>2, SMTT(20)
        <5> QED BY <5>2, <5>5
      <4>5. ASSUME NEW i \in k .. l.end - 1
            PROVE  At(t, i) \in Unseen \/ OneOf(l.comments, i)
        <5>1. CASE i < b
          BY <2>1, <2>6, <5>1
        <5>2. CASE i \in b .. e - 1
          <6>1. NoneOf(u.comments, i)
            <7>1. ASSUME NEW j \in DOMAIN u.comments PROVE ~ Spans(u.comments[j], i)
              <8>1. p <= u.comments[j].start /\ u.comments[j].start \in Nat
                <9>1. u.comments[j] \in Tok
                  BY <4>3, ElementOfSeq, LenProperties
                <9> QED BY <3>2, <9>1 DEF LinesOK, Tok
              <8> QED BY <2>1, <4>1, <5>2, <8>1 DEF Spans
            <7> QED BY <7>1 DEF NoneOf
          <6> QED BY <2>5, <2>7, <4>2, <4>3, <5>2, <6>1, OneOfFirst
        <5>3. CASE i = e
          BY <2>6, <4>1, <5>3
        <5>4. CASE e < i
          <6>1. i \in p .. u.end - 1
            BY <2>1, <3>4, <4>1, <5>4
          <6>2. ~ Spans(c, i)
            BY <2>1, <2>5, <5>4 DEF Spans
          <6>3. At(t, i) \in Unseen \/ OneOf(u.comments, i)
            BY <3>2, <6>1 DEF LinesOK
          <6> QED BY <2>5, <4>2, <4>3, <6>2, <6>3, OneOfFirst
        <5> QED BY <2>1, <5>1, <5>2, <5>3, <5>4
      <4>6. ASSUME NEW i \in DOMAIN l.comments
            PROVE  /\ l.comments[i].kind = "comment"
                   /\ k <= l.comments[i].start
                   /\ l.comments[i].start <= l.comments[i].end
                   /\ l.comments[i].end <= l.end
                   /\ At(t, l.comments[i].start) = "#"
        <5>1. CASE l.comments[i] = c
          <6>1. k <= b /\ b <= e /\ e <= u.end
            BY <1>0, <2>1, <4>1, <4>3
          <6> QED BY <2>5, <3>4, <3>6, <5>1, <6>1
        <5>2. CASE \E j \in DOMAIN u.comments : l.comments[i] = u.comments[j]
          <6>1. PICK j \in DOMAIN u.comments : l.comments[i] = u.comments[j]
            BY <5>2
          <6>2. u.comments[j] \in Tok
            BY <4>3, ElementOfSeq, LenProperties
          <6>3. /\ u.comments[j].kind = "comment"
                /\ p <= u.comments[j].start
                /\ u.comments[j].start <= u.comments[j].end
                /\ u.comments[j].end <= u.end
                /\ At(t, u.comments[j].start) = "#"
            BY <3>2 DEF LinesOK
          <6>4. u.comments[j].start \in Nat
            BY <6>2 DEF Tok
          <6>5. k <= u.comments[j].start
            BY <2>1, <4>1, <6>3, <6>4
          <6> QED BY <3>4, <6>1, <6>3, <6>5
        <5> QED BY <4>4, <5>1, <5>2
      <4>7. LinesOK(t, k, l)
        <5>1. l.start \in k .. Len(t) /\ l.end \in l.start .. Len(t)
          BY <1>0, <3>1, <3>4, <4>3
        <5>2. l.end < Len(t) => \A i \in l.start .. l.end - 1 : At(t, i) \in Unseen
          BY <3>2, <3>4 DEF LinesOK
        <5> QED BY <4>4, <4>5, <4>6, <5>1, <5>2 DEF LinesOK
      <4> QED BY <4>7 DEF l
    <3> QED BY <3>1, <3>5, <3>6
  <2> QED BY <2>8, <2>9
<1>2. \A k \in 0 .. Len(t) : k \in S
  <2> HIDE DEF S
  <2>1. \A k \in 0 .. Len(t) : (\A j \in k + 1 .. Len(t) : j \in S) => k \in S
    BY <1>1
  <2> QED BY <1>0, <2>1, Downwards
<1> QED BY <1>2

\* The operators of two bytes.
LEMMA TwoBytesKinds ==
  \A w \in TwoBytes : w[3] \in TwoByteKind /\ w[1] # "end" /\ w[2] # "end"
BY DEF TwoBytes, TwoByteKind
-------------------------------------------------------------------------------
(***************************************************************************)
(* One token read: from the position on, up to the position after.         *)
(***************************************************************************)
FString == [quote : Quote, triple : BOOLEAN, braces : Nat]

LexerState ==
  [pos : Nat, indents : Seq(Nat), pending : Seq(Tok), fresh : BOOLEAN,
   done : BOOLEAN, depth : Nat, fstrings : Seq(FString)]

\* The bracket depth behind a token.
DepthBehind(n, kind) == CASE kind \in Opener -> n + 1
                          [] kind \in Closer -> Lower(n)
                          [] OTHER -> n

Took(t, s, n) ==
  /\ n.lexer \in LexerState /\ n.lexer.pos \in s.pos .. Len(t)
  /\ n.token = Token(n.token.kind, s.pos, n.lexer.pos)
  /\ n.token.kind \in PlainKind \cup Opener \cup Closer \cup {"newline"}
  /\ n.lexer.indents = s.indents /\ n.lexer.pending = s.pending
  /\ n.lexer.done = s.done
  /\ n.lexer.depth = DepthBehind(s.depth, n.token.kind)
  /\ n.token.kind = "newline" => At(t, s.pos) = "nl"
  /\ n.token.kind = "comment" => At(t, s.pos) = "#"

LEMMA KindsApart ==
  /\ \A k \in PlainKind :
       /\ k \notin Opener /\ k \notin Closer
       /\ k # "newline" /\ k # "indent" /\ k # "dedent"
  /\ \A k \in Opener \cup Closer :
       /\ k \notin PlainKind
       /\ k # "newline" /\ k # "indent" /\ k # "dedent" /\ k # "comment"
  /\ \A k \in Opener : k \notin Closer
  /\ "newline" \notin Opener \cup Closer
BY DEF PlainKind, Keyword, OneByte, TwoByteKind, Opener, Closer

LEMMA UptoTook ==
  ASSUME NEW t, NEW s \in LexerState, NEW r \in LexerState, Len(t) \in Nat,
         NEW kind \in PlainKind \cup Opener \cup Closer \cup {"newline"},
         NEW e \in s.pos .. Len(t),
         r.pos = s.pos, r.indents = s.indents, r.pending = s.pending,
         r.done = s.done, r.depth = DepthBehind(s.depth, kind),
         kind = "newline" => At(t, s.pos) = "nl",
         kind = "comment" => At(t, s.pos) = "#"
  PROVE  Took(t, s, Upto(r, kind, e))
<1> DEFINE n == Upto(r, kind, e)
<1>1. n = [lexer |-> [r EXCEPT !.pos = e], token |-> Token(kind, s.pos, e)]
  BY DEF Upto
<1>2. e \in Nat
  BY DEF LexerState
<1>3. /\ n.lexer = [r EXCEPT !.pos = e] /\ n.token = Token(kind, s.pos, e)
      /\ n.token.kind = kind
  BY <1>1 DEF Token
<1>4. /\ n.lexer \in LexerState /\ n.lexer.pos = e
      /\ n.lexer.indents = r.indents /\ n.lexer.pending = r.pending
      /\ n.lexer.done = r.done /\ n.lexer.depth = r.depth
  <2> HIDE DEF n
  <2> QED BY <1>2, <1>3 DEF LexerState
<1> HIDE DEF n
<1> QED BY <1>3, <1>4 DEF Took, n

\* A token that is no bracket and no newline, of a state that differs from s
\* in its f-strings at most.
LEMMA PlainTook ==
  ASSUME NEW t, NEW s \in LexerState, Len(t) \in Nat, NEW kind \in PlainKind,
         NEW e \in s.pos .. Len(t), NEW fstrings \in Seq(FString),
         kind = "comment" => At(t, s.pos) = "#"
  PROVE  Took(t, s, Upto([s EXCEPT !.fstrings = fstrings], kind, e))
<1> DEFINE r == [s EXCEPT !.fstrings = fstrings]
<1>1. /\ r \in LexerState /\ r.pos = s.pos /\ r.indents = s.indents
      /\ r.pending = s.pending /\ r.done = s.done /\ r.depth = s.depth
  BY DEF LexerState
<1>2. DepthBehind(s.depth, kind) = s.depth /\ kind # "newline"
  BY KindsApart DEF DepthBehind
<1> HIDE DEF r
<1>3. Took(t, s, Upto(r, kind, e))
  BY <1>1, <1>2, UptoTook
<1> QED BY <1>3 DEF r

LEMMA SameTook ==
  ASSUME NEW t, NEW s \in LexerState, Len(t) \in Nat, NEW kind \in PlainKind,
         NEW e \in s.pos .. Len(t),
         kind = "comment" => At(t, s.pos) = "#"
  PROVE  Took(t, s, Upto(s, kind, e))
<1>1. s = [s EXCEPT !.fstrings = s.fstrings] /\ s.fstrings \in Seq(FString)
  BY DEF LexerState
<1>2. Took(t, s, Upto([s EXCEPT !.fstrings = s.fstrings], kind, e))
  BY <1>1, PlainTook
<1> QED BY <1>1, <1>2

\* A token of some width that leaves the f-strings as they are.
TookOnly(t, s, n) ==
  Took(t, s, n) /\ s.pos < n.lexer.pos /\ n.lexer.fstrings = s.fstrings

LEMMA OnlyTook ==
  ASSUME NEW t, NEW s \in LexerState, Len(t) \in Nat, NEW kind \in PlainKind,
         NEW e \in s.pos + 1 .. Len(t),
         kind = "comment" => At(t, s.pos) = "#"
  PROVE  TookOnly(t, s, Upto(s, kind, e))
<1>1. s.pos \in Nat /\ e \in s.pos .. Len(t) /\ s.pos < e
  BY DEF LexerState
<1>2. Upto(s, kind, e).lexer.pos = e /\ Upto(s, kind, e).lexer.fstrings = s.fstrings
  BY DEF Upto, LexerState
<1> QED BY <1>1, <1>2, SameTook DEF TookOnly

LEMMA LastAndFront ==
  ASSUME NEW S, NEW q \in Seq(S), q # <<>>
  PROVE  /\ Len(q) \in Nat \ {0} /\ Len(q) \in DOMAIN q
         /\ Last(q) = q[Len(q)] /\ Last(q) \in S
         /\ Front(q) \in Seq(S) /\ Len(Front(q)) = Len(q) - 1
         /\ \A i \in 1 .. Len(q) - 1 : Front(q)[i] = q[i]
         /\ q = Append(Front(q), Last(q))
<1>1. Len(q) \in Nat /\ DOMAIN q = 1 .. Len(q) /\ \A i \in 1 .. Len(q) : q[i] \in S
  BY LenProperties, ElementOfSeq
<1>2. Len(q) # 0
  BY EmptySeq
<1>3. Last(q) = q[Len(q)] /\ Front(q) = [i \in 1 .. Len(q) - 1 |-> q[i]]
  BY <1>1, <1>2 DEF Last, Front
<1> QED BY <1>1, <1>2, <1>3

LEMMA BraceEntered ==
  ASSUME NEW s \in LexerState
  PROVE  \E f \in Seq(FString) : EnterBrace(s) = [s EXCEPT !.fstrings = f]
<1> DEFINE n == Len(s.fstrings)
<1>1. s.fstrings \in Seq(FString)
  BY DEF LexerState
<1>2. CASE s.fstrings = <<>>
  BY <1>1, <1>2 DEF EnterBrace, LexerState
<1>3. CASE s.fstrings # <<>>
  <2>1. n \in DOMAIN s.fstrings /\ s.fstrings[n] \in FString
    BY <1>1, <1>3, LastAndFront
  <2> DEFINE f == [s.fstrings EXCEPT ![n].braces = @ + 1]
  <2>2. f \in Seq(FString)
    <3>1. [s.fstrings[n] EXCEPT !.braces = @ + 1] \in FString
      BY <2>1 DEF FString
    <3> QED BY <1>1, <2>1, <3>1, ExceptSeq
  <2>3. EnterBrace(s) = [s EXCEPT !.fstrings = f]
    BY <1>3 DEF EnterBrace, LexerState
  <2> HIDE DEF f
  <2> QED BY <2>2, <2>3
<1> QED BY <1>2, <1>3

LEMMA BraceLeft ==
  ASSUME NEW s \in LexerState
  PROVE  \E f \in Seq(FString) : LeaveBrace(s) = [s EXCEPT !.fstrings = f]
<1> DEFINE n == Len(s.fstrings)
<1>1. s.fstrings \in Seq(FString)
  BY DEF LexerState
<1>2. CASE ~ (s.fstrings # <<>> /\ Last(s.fstrings).braces > 0)
  BY <1>1, <1>2 DEF LeaveBrace, LexerState
<1>3. CASE s.fstrings # <<>> /\ Last(s.fstrings).braces > 0
  <2>1. /\ n \in DOMAIN s.fstrings /\ s.fstrings[n] \in FString
        /\ s.fstrings[n].braces > 0
    BY <1>1, <1>3, LastAndFront
  <2> DEFINE f == [s.fstrings EXCEPT ![n].braces = @ - 1]
  <2>2. f \in Seq(FString)
    <3>1. [s.fstrings[n] EXCEPT !.braces = @ - 1] \in FString
      BY <2>1 DEF FString
    <3> QED BY <1>1, <2>1, <3>1, ExceptSeq
  <2>3. LeaveBrace(s) = [s EXCEPT !.fstrings = f]
    BY <1>3 DEF LeaveBrace, LexerState
  <2> HIDE DEF f
  <2> QED BY <2>2, <2>3
<1> QED BY <1>2, <1>3

\* Brackets, in an f-string or not.
LEMMA DeeperTook ==
  ASSUME NEW t, NEW s \in LexerState, Len(t) \in Nat,
         NEW kind \in Opener \cup Closer, NEW e \in s.pos .. Len(t),
         NEW fstrings \in Seq(FString)
  PROVE  Took(t, s, Upto([s EXCEPT !.fstrings = fstrings,
                                   !.depth = DepthBehind(s.depth, kind)],
                         kind, e))
<1> DEFINE r == [s EXCEPT !.fstrings = fstrings,
                          !.depth = DepthBehind(s.depth, kind)]
<1>1. DepthBehind(s.depth, kind) \in Nat
  BY DEF LexerState, DepthBehind, Lower
<1>2. /\ r \in LexerState /\ r.pos = s.pos /\ r.indents = s.indents
      /\ r.pending = s.pending /\ r.done = s.done
      /\ r.depth = DepthBehind(s.depth, kind)
  BY <1>1 DEF LexerState
<1>3. kind # "newline" /\ kind # "comment"
  BY KindsApart
<1> HIDE DEF r
<1>4. Took(t, s, Upto(r, kind, e))
  BY <1>2, <1>3, UptoTook
<1> QED BY <1>4 DEF r

LEMMA BracketTook ==
  ASSUME NEW C, NEW t \in Seq(C), NEW s \in LexerState, s.pos < Len(t),
         At(t, s.pos) \in Opener \cup Closer
  PROVE  Took(t, s, ScanBracket(t, s))
<1> DEFINE c == At(t, s.pos)
           o == IF c = "{" THEN EnterBrace(s) ELSE s
           l == IF c = "}" THEN LeaveBrace(s) ELSE s
           r == IF c \in Opener THEN [o EXCEPT !.depth = @ + 1]
                ELSE DecrementBracketDepth(l)
<1>1. /\ s.fstrings \in Seq(FString) /\ s.depth \in Nat /\ s.pos \in Nat
      /\ Len(t) \in Nat
  BY LenProperties DEF LexerState
<1>2. ScanBracket(t, s) = Upto(r, c, s.pos + 1)
  BY DEF ScanBracket
<1>3. s = [s EXCEPT !.fstrings = s.fstrings]
  BY DEF LexerState
<1>4. PICK f \in Seq(FString) : r = [s EXCEPT !.fstrings = f,
                                       !.depth = DepthBehind(s.depth, c)]
  <2>1. CASE c \in Opener
    <3>1. PICK f \in Seq(FString) : o = [s EXCEPT !.fstrings = f]
      BY <1>1, <1>3, BraceEntered
    <3>2. r = [s EXCEPT !.fstrings = f, !.depth = DepthBehind(s.depth, c)]
      <4>1. c \notin Closer
        BY <2>1, KindsApart
      <4> HIDE DEF o, c
      <4> QED BY <2>1, <3>1, <4>1 DEF DepthBehind, LexerState
    <3> QED BY <3>2
  <2>2. CASE c \notin Opener
    <3>1. PICK f \in Seq(FString) : l = [s EXCEPT !.fstrings = f]
      BY <1>1, <1>3, BraceLeft
    <3>2. r = [s EXCEPT !.fstrings = f, !.depth = DepthBehind(s.depth, c)]
      <4>1. c \in Closer
        BY <2>2
      <4> HIDE DEF l, c
      <4> QED BY <2>2, <3>1, <4>1
            DEF DepthBehind, LexerState, DecrementBracketDepth
    <3> QED BY <3>2
  <2> QED BY <2>1, <2>2
<1>5. s.pos + 1 \in s.pos .. Len(t)
  BY <1>1
<1> HIDE DEF r, c
<1>6. c \in Opener \cup Closer
  BY DEF c
<1>7. Took(t, s, Upto([s EXCEPT !.fstrings = f,
                                !.depth = DepthBehind(s.depth, c)],
                      c, s.pos + 1))
  BY <1>1, <1>5, <1>6, DeeperTook
<1> QED BY <1>2, <1>4, <1>7

LEMMA StringTook ==
  ASSUME NEW C, NEW t \in Seq(C), NEW s \in LexerState, NEW o \in Nat \ {0},
         s.pos < o, At(t, o - 1) \in Quote
  PROVE  TookOnly(t, s, ReadString(t, s, o))
<1> DEFINE q == At(t, o - 1)
           triple == Thrice(t, o - 1, q)
           from == IF triple THEN o + 2 ELSE o
           r == ScanString(t, from, q, triple)
<1>1. Len(t) \in Nat /\ s.pos \in Nat
  BY LenProperties DEF LexerState
<1>2. o - 1 \in Nat /\ o <= Len(t)
  BY QuoteIsByte, AtInside
<1>3. triple => o + 2 <= Len(t)
  BY <1>1, <1>2, ThriceInside
<1>4. from \in 0 .. Len(t) /\ s.pos < from
  BY <1>1, <1>2, <1>3
<1>5. triple \in BOOLEAN
  BY DEF Thrice
<1>6. ReadString(t, s, o) = Upto(s, r.kind, r.end)
  BY DEF ReadString
<1> HIDE DEF q, triple, from, r
<1>7. r.end \in from .. Len(t) /\ r.kind \in {"string", "error"}
  BY <1>4, <1>5, StringEnds DEF q, r
<1>8. r.kind \in PlainKind /\ r.kind # "comment"
  BY <1>7 DEF PlainKind
<1>9. r.end \in s.pos + 1 .. Len(t)
  BY <1>1, <1>4, <1>7
<1> QED BY <1>1, <1>6, <1>8, <1>9, OnlyTook

LEMMA FStringTook ==
  ASSUME NEW C, NEW t \in Seq(C), NEW s \in LexerState, NEW o \in Nat \ {0},
         s.pos < o, At(t, o - 1) \in Quote
  PROVE  Took(t, s, EnterFString(t, s, o))
<1> DEFINE q == At(t, o - 1)
           triple == Thrice(t, o - 1, q)
           e == IF triple THEN o + 2 ELSE o
           f == [quote |-> q, triple |-> triple, braces |-> 0]
           g == Append(s.fstrings, f)
<1>1. Len(t) \in Nat /\ s.pos \in Nat /\ s.fstrings \in Seq(FString)
  BY LenProperties DEF LexerState
<1>2. o - 1 \in Nat /\ o <= Len(t)
  BY QuoteIsByte, AtInside
<1>3. triple => o + 2 <= Len(t)
  BY <1>1, <1>2, ThriceInside
<1>4. e \in s.pos .. Len(t)
  BY <1>1, <1>2, <1>3
<1>5. triple \in BOOLEAN
  BY DEF Thrice
<1>6. EnterFString(t, s, o) = Upto([s EXCEPT !.fstrings = g], "fstart", e)
  BY DEF EnterFString
<1>7. f \in FString
  <2> HIDE DEF triple, q
  <2>1. q \in Quote
    BY DEF q
  <2> QED BY <1>5, <2>1 DEF FString
<1>8. g \in Seq(FString)
  <2> HIDE DEF f
  <2> QED BY <1>1, <1>7, AppendProperties
<1>9. "fstart" \in PlainKind
  BY DEF PlainKind
<1> HIDE DEF e, g
<1>10. "fstart" # "comment"
  OBVIOUS
<1>11. Took(t, s, Upto([s EXCEPT !.fstrings = g], "fstart", e))
  BY <1>1, <1>4, <1>8, <1>9, <1>10, PlainTook
<1> QED BY <1>6, <1>11

LEMMA IdentifierTook ==
  ASSUME NEW C, NEW t \in Seq(C), NEW s \in LexerState, s.pos <= Len(t)
  PROVE  Took(t, s, ScanIdentifier(t, s))
<1> DEFINE e    == Pass(t, s.pos, Range(t) \ Punctuation)
           text == SubSeq(t, s.pos + 1, e)
           kind == IF Len(text) = 1 /\ text[1] \in Keyword THEN text[1] ELSE "name"
<1>1. Len(t) \in Nat /\ s.pos \in 0 .. Len(t)
  BY LenProperties DEF LexerState
<1>2. e \in s.pos .. Len(t)
  BY <1>1, PassEnds
<1>3. kind \in PlainKind /\ kind # "comment"
  <2> HIDE DEF text
  <2> QED BY DEF PlainKind, Keyword
<1> HIDE DEF e, text, kind
<1>4. e + 1 \in Nat \ {0} /\ s.pos < e + 1 /\ (e + 1) - 1 = e
  BY <1>1, <1>2
<1>5. CASE At(t, e) \in Quote /\ text \in FPrefixes
  <2>1. ScanIdentifier(t, s) = EnterFString(t, s, e + 1)
    BY <1>5 DEF ScanIdentifier, e, text
  <2> QED BY <1>4, <1>5, <2>1, FStringTook
<1>6. CASE /\ ~ (At(t, e) \in Quote /\ text \in FPrefixes)
           /\ At(t, e) \in Quote /\ text \in StringPrefixes
  <2>1. ScanIdentifier(t, s) = ReadString(t, s, e + 1)
    BY <1>6 DEF ScanIdentifier, e, text, FPrefixes, StringPrefixes
  <2> QED BY <1>4, <1>6, <2>1, StringTook DEF TookOnly
<1>7. CASE /\ ~ (At(t, e) \in Quote /\ text \in FPrefixes)
           /\ ~ (At(t, e) \in Quote /\ text \in StringPrefixes)
  <2>1. ScanIdentifier(t, s) = Upto(s, kind, e)
    BY <1>7 DEF ScanIdentifier, e, text, kind
  <2> QED BY <1>1, <1>2, <1>3, <2>1, SameTook
<1> QED BY <1>5, <1>6, <1>7

LEMMA NumberTook ==
  ASSUME NEW C, NEW t \in Seq(C), NEW s \in LexerState, s.pos < Len(t)
  PROVE  TookOnly(t, s, ScanNumber(t, s))
<1> DEFINE int   == Pass(t, s.pos + 1, Digit)
           point == At(t, int) = "." /\ At(t, int + 1) \in Digit
           frac  == IF point THEN Pass(t, int + 1, Digit) ELSE int
           sign  == IF At(t, frac + 1) \in {"+", "-"} THEN 2 ELSE 1
           exp   == At(t, frac) = "e"
           end   == IF exp THEN Pass(t, frac + sign, Digit) ELSE frac
           kind  == IF point \/ exp THEN "float" ELSE "int"
<1>1. Len(t) \in Nat /\ s.pos \in Nat /\ s.pos + 1 \in 0 .. Len(t)
  BY LenProperties DEF LexerState
<1>2. int \in s.pos + 1 .. Len(t)
  BY <1>1, PassEnds
<1>3. ScanNumber(t, s) = Upto(s, kind, end)
  BY DEF ScanNumber
<1>4. kind \in PlainKind /\ kind # "comment"
  <2> HIDE DEF point, exp
  <2> QED BY DEF PlainKind
<1> HIDE DEF int, kind
<1>5. frac \in int .. Len(t)
  <2>1. CASE point
    <3>1. At(t, int + 1) # "end" /\ int + 1 \in Nat
      BY <1>1, <1>2, <2>1 DEF Digit
    <3>2. int + 1 \in 0 .. Len(t)
      BY <1>1, <3>1, AtInside
    <3>3. Pass(t, int + 1, Digit) \in int + 1 .. Len(t)
      BY <3>2, PassEnds
    <3> HIDE DEF point
    <3> QED BY <1>1, <1>2, <2>1, <3>3
  <2>2. CASE ~ point
    <3> HIDE DEF point
    <3> QED BY <1>1, <1>2, <2>2
  <2> QED BY <2>1, <2>2
<1> HIDE DEF point, frac
<1>6. end \in frac .. Len(t)
  <2>1. CASE exp
    <3>0. frac \in Nat /\ frac + 1 \in Nat
      BY <1>1, <1>2, <1>5
    <3>1. frac < Len(t)
      BY <2>1, <3>0, AtInside
    <3>2. sign \in {1, 2} /\ (sign = 2 => At(t, frac + 1) # "end")
      OBVIOUS
    <3> HIDE DEF sign
    <3>3. sign = 2 => frac + 1 < Len(t)
      BY <3>0, <3>2, AtInside
    <3>4. frac + sign \in 0 .. Len(t)
      BY <1>1, <3>0, <3>1, <3>2, <3>3
    <3>5. Pass(t, frac + sign, Digit) \in frac + sign .. Len(t)
      BY <3>4, PassEnds
    <3> HIDE DEF exp
    <3> QED BY <1>1, <2>1, <3>0, <3>2, <3>5
  <2>2. CASE ~ exp
    <3> HIDE DEF exp
    <3> QED BY <1>1, <1>2, <1>5, <2>2
  <2> QED BY <2>1, <2>2
<1> HIDE DEF end
<1>7. end \in s.pos + 1 .. Len(t)
  BY <1>1, <1>2, <1>5, <1>6
<1> QED BY <1>1, <1>3, <1>4, <1>7, OnlyTook

LEMMA OperatorTook ==
  ASSUME NEW C, NEW t \in Seq(C), NEW s \in LexerState, s.pos < Len(t)
  PROVE  TookOnly(t, s, ScanOperator(t, s))
<1> DEFINE c    == At(t, s.pos)
           long == {w \in TwoBytes : w[1] = c /\ w[2] = At(t, s.pos + 1)}
           w    == CHOOSE x \in long : TRUE
           kind == IF c \in OneByte THEN c ELSE "error"
<1>1. Len(t) \in Nat /\ s.pos \in Nat /\ s.pos + 1 \in Nat /\ s.pos + 2 \in Nat
  BY LenProperties DEF LexerState
<1>2. CASE long # {}
  <2>1. w \in TwoBytes /\ w[2] = At(t, s.pos + 1)
    BY <1>2
  <2>2. ScanOperator(t, s) = Upto(s, w[3], s.pos + 2)
    BY <1>2 DEF ScanOperator
  <2> HIDE DEF w
  <2>3. w[3] \in TwoByteKind /\ At(t, s.pos + 1) # "end"
    BY <2>1, TwoBytesKinds
  <2>4. s.pos + 2 \in s.pos + 1 .. Len(t)
    <3>1. s.pos + 1 < Len(t)
      BY <1>1, <2>3, AtInside
    <3> QED BY <1>1, <3>1
  <2>5. w[3] \in PlainKind /\ w[3] # "comment"
    BY <2>3 DEF PlainKind, TwoByteKind
  <2> QED BY <1>1, <2>2, <2>4, <2>5, OnlyTook
<1>3. CASE long = {} /\ Thrice(t, s.pos, ".")
  <2>1. ScanOperator(t, s) = Upto(s, "...", s.pos + 3)
    BY <1>3 DEF ScanOperator
  <2>2. At(t, s.pos + 2) = "."
    BY <1>1, <1>3 DEF Thrice
  <2>3. s.pos + 3 \in s.pos + 1 .. Len(t)
    <3>1. s.pos + 2 < Len(t)
      BY <1>1, <2>2, AtInside
    <3> QED BY <1>1, <3>1
  <2>4. "..." \in PlainKind /\ "..." # "comment"
    BY DEF PlainKind
  <2> QED BY <1>1, <2>1, <2>3, <2>4, OnlyTook
<1>4. CASE long = {} /\ ~ Thrice(t, s.pos, ".")
  <2>1. ScanOperator(t, s) = Upto(s, kind, s.pos + 1)
    BY <1>4 DEF ScanOperator
  <2>2. kind \in PlainKind /\ kind # "comment"
    BY DEF PlainKind, OneByte
  <2>3. s.pos + 1 \in s.pos + 1 .. Len(t)
    BY <1>1
  <2> HIDE DEF kind
  <2> QED BY <1>1, <2>1, <2>2, <2>3, OnlyTook
<1> QED BY <1>2, <1>3, <1>4

LEMMA FStringContentTook ==
  ASSUME NEW C, NEW t \in Seq(C), NEW s \in LexerState, s.pos <= Len(t),
         s.fstrings # <<>>
  PROVE  Took(t, s, ScanFStringContent(t, s))
<1> DEFINE n == Len(s.fstrings)
           f == Last(s.fstrings)
           left == [s EXCEPT !.fstrings = Front(@)]
           hole == [s EXCEPT !.fstrings[Len(s.fstrings)].braces = 1,
                             !.depth = @ + 1]
           o == s.pos
<1>1. /\ Len(t) \in Nat /\ o \in 0 .. Len(t) /\ s.fstrings \in Seq(FString)
      /\ s.depth \in Nat
  BY LenProperties DEF LexerState
<1>2. /\ n \in DOMAIN s.fstrings /\ f = s.fstrings[n] /\ f \in FString
      /\ Front(s.fstrings) \in Seq(FString)
  BY <1>1, LastAndFront
<1>3. left = [s EXCEPT !.fstrings = Front(s.fstrings)]
  BY DEF LexerState
<1>4. CASE o = Len(t)
  <2>1. ScanFStringContent(t, s) = Upto(left, "error", o)
    BY <1>4 DEF ScanFStringContent
  <2>2. "error" \in PlainKind /\ "error" # "comment" /\ o \in o .. Len(t)
    BY <1>1 DEF PlainKind
  <2> HIDE DEF left
  <2> QED BY <1>1, <1>2, <1>3, <2>1, <2>2, PlainTook
<1>5. CASE o # Len(t) /\ Closes(t, o, f)
  <2> DEFINE e == o + (IF f.triple THEN 3 ELSE 1)
  <2>1. ScanFStringContent(t, s) = Upto(left, "fend", e)
    BY <1>5 DEF ScanFStringContent
  <2>2. f.quote \in Quote /\ f.triple \in BOOLEAN
    BY <1>2 DEF FString
  <2>3. f.triple => o + 3 \in 0 .. Len(t)
    BY <1>1, <1>5, <2>2, ThriceInside DEF Closes
  <2>4. e \in o .. Len(t)
    <3> HIDE DEF f
    <3> QED BY <1>1, <1>5, <2>3
  <2>5. "fend" \in PlainKind /\ "fend" # "comment"
    BY DEF PlainKind
  <2> HIDE DEF left, e
  <2> QED BY <1>1, <1>2, <1>3, <2>1, <2>4, <2>5, PlainTook
<1>6. CASE o # Len(t) /\ ~ Closes(t, o, f) /\ EntersHole(t, o)
  <2> DEFINE g == [s.fstrings EXCEPT ![n].braces = 1]
  <2>1. ScanFStringContent(t, s) = Upto(hole, "{", o + 1)
    BY <1>6 DEF ScanFStringContent
  <2>2. g \in Seq(FString)
    <3>1. [s.fstrings[n] EXCEPT !.braces = 1] \in FString
      BY <1>2 DEF FString
    <3> QED BY <1>1, <1>2, <3>1, ExceptSeq
  <2>3. "{" \in Opener /\ DepthBehind(s.depth, "{") = s.depth + 1
    BY DEF Opener, Closer, DepthBehind
  <2>4. hole = [s EXCEPT !.fstrings = g, !.depth = DepthBehind(s.depth, "{")]
    BY <2>3 DEF LexerState
  <2>5. o + 1 \in o .. Len(t)
    BY <1>1, <1>6
  <2> HIDE DEF hole, g
  <2>6. Took(t, s, Upto([s EXCEPT !.fstrings = g,
                                  !.depth = DepthBehind(s.depth, "{")],
                        "{", o + 1))
    BY <1>1, <2>2, <2>3, <2>5, DeeperTook
  <2> QED BY <2>1, <2>4, <2>6
<1>7. CASE o # Len(t) /\ ~ Closes(t, o, f) /\ ~ EntersHole(t, o)
  <2>1. ScanFStringContent(t, s) = Upto(s, "flit", LiteralEnd(t, s))
    BY <1>7 DEF ScanFStringContent
  <2>2. LiteralEnd(t, s) \in o .. Len(t)
    BY <1>1, LiteralEnds DEF LiteralEnd
  <2>3. "flit" \in PlainKind /\ "flit" # "comment"
    BY DEF PlainKind
  <2> QED BY <1>1, <2>1, <2>2, <2>3, SameTook
<1> QED BY <1>4, <1>5, <1>6, <1>7

LEMMA FStringContentKind ==
  ASSUME NEW t, NEW s
  PROVE  ScanFStringContent(t, s).token.kind # "newline"
BY DEF ScanFStringContent, Upto, Token

\* next_token before the end of the text, at the first byte of a token.
LEMMA NextTook ==
  ASSUME NEW C, NEW t \in Seq(C), NEW s \in LexerState, s.pos < Len(t)
  PROVE  Took(t, s, ReadNext(t, s))
<1> DEFINE c == At(t, s.pos)
<1>1. Len(t) \in Nat /\ s.pos \in Nat /\ s.pos + 1 \in Nat \ {0}
  BY LenProperties DEF LexerState
<1>2. CASE c = "#"
  <2>1. ReadNext(t, s) = Upto(s, "comment", CommentEnd(t, s.pos))
    BY <1>1, <1>2 DEF ReadNext
  <2>2. CommentEnd(t, s.pos) \in s.pos .. Len(t)
    BY <1>1, PassEnds DEF CommentEnd
  <2>3. "comment" \in PlainKind
    BY DEF PlainKind
  <2> QED BY <1>1, <1>2, <2>1, <2>2, <2>3, SameTook
<1>3. CASE c \in Opener \cup Closer
  <2>1. ReadNext(t, s) = ScanBracket(t, s)
    <3>1. c # "#"
      BY <1>3 DEF Opener, Closer
    <3> QED BY <1>1, <1>3, <3>1 DEF ReadNext
  <2> QED BY <1>3, <2>1, BracketTook
<1>4. CASE c = "nl"
  <2> DEFINE r == [s EXCEPT !.fresh = TRUE]
  <2>1. ReadNext(t, s) = Upto(r, "newline", s.pos + 1)
    BY <1>1, <1>4 DEF ReadNext, Opener, Closer
  <2>2. /\ r \in LexerState /\ r.pos = s.pos /\ r.indents = s.indents
        /\ r.pending = s.pending /\ r.done = s.done /\ r.depth = s.depth
    BY DEF LexerState
  <2>3. DepthBehind(s.depth, "newline") = s.depth /\ "newline" # "comment"
    BY KindsApart DEF DepthBehind
  <2>4. s.pos + 1 \in s.pos .. Len(t)
    BY <1>1
  <2> HIDE DEF r
  <2>5. Took(t, s, Upto(r, "newline", s.pos + 1))
    BY <1>1, <1>4, <2>2, <2>3, <2>4, UptoTook
  <2> QED BY <2>1, <2>5
<1>5. CASE c \in Quote
  <2>1. ReadNext(t, s) = ReadString(t, s, s.pos + 1)
    <3>1. c # "#" /\ c # "nl" /\ c \notin Opener \cup Closer
      BY <1>5 DEF Quote, Opener, Closer
    <3> QED BY <1>1, <1>5, <3>1 DEF ReadNext
  <2>2. s.pos < s.pos + 1 /\ (s.pos + 1) - 1 = s.pos
    BY <1>1
  <2> QED BY <1>1, <1>5, <2>1, <2>2, StringTook DEF TookOnly
<1>6. CASE /\ c # "#" /\ c # "nl" /\ c \notin Opener \cup Closer
           /\ c \notin Quote
           /\ c \in Digit \/ (c = "." /\ At(t, s.pos + 1) \in Digit)
  <2>1. ReadNext(t, s) = ScanNumber(t, s)
    <3> HIDE DEF c
    <3> QED BY <1>1, <1>6 DEF ReadNext, c
  <2> QED BY <2>1, NumberTook DEF TookOnly
<1>7. CASE /\ c # "#" /\ c # "nl" /\ c \notin Opener \cup Closer
           /\ c \notin Quote
           /\ ~ (c \in Digit \/ (c = "." /\ At(t, s.pos + 1) \in Digit))
           /\ InName(c)
  <2>1. ReadNext(t, s) = ScanIdentifier(t, s)
    <3> HIDE DEF c
    <3> QED BY <1>1, <1>7 DEF ReadNext, c
  <2> QED BY <1>1, <2>1, IdentifierTook
<1>8. CASE /\ c # "#" /\ c # "nl" /\ c \notin Opener \cup Closer
           /\ c \notin Quote
           /\ ~ (c \in Digit \/ (c = "." /\ At(t, s.pos + 1) \in Digit))
           /\ ~ InName(c)
  <2>1. ReadNext(t, s) = ScanOperator(t, s)
    <3> HIDE DEF c
    <3> QED BY <1>1, <1>8 DEF ReadNext, c
  <2> QED BY <2>1, OperatorTook DEF TookOnly
<1> HIDE DEF c
<1> QED BY <1>2, <1>3, <1>4, <1>5, <1>6, <1>7, <1>8
-------------------------------------------------------------------------------
(***************************************************************************)
(* One call of next_token: the tokens it returns or leaves pending hold    *)
(* what it passes.                                                         *)
(***************************************************************************)
LieIn(q, a, b) == \A i \in DOMAIN q : /\ a <= q[i].start
                                       /\ q[i].start <= q[i].end
                                       /\ q[i].end <= b

Seen(t, q, a, b) == \A o \in a .. b - 1 : At(t, o) \in Unseen \/ OneOf(q, o)

Comments(t, q) ==
  \A i \in DOMAIN q : q[i].kind = "comment" /\ At(t, q[i].start) = "#"

\* Comments, and m dedents of one line behind them.
Stack(t, q, d, m) ==
  /\ d.kind = "dedent" /\ m \in 0 .. Len(q)
  /\ \A i \in 1 .. Len(q) :
       IF i <= Len(q) - m
       THEN q[i].kind = "comment" /\ At(t, q[i].start) = "#"
       ELSE q[i] = d

LEMMA OneOfLast ==
  ASSUME NEW S, NEW q \in Seq(S), NEW c \in S, NEW o
  PROVE  /\ NoneOf(Append(q, c), o) <=> NoneOf(q, o) /\ ~ Spans(c, o)
         /\ OneOf(Append(q, c), o) <=> \/ OneOf(q, o) /\ ~ Spans(c, o)
                                       \/ NoneOf(q, o) /\ Spans(c, o)
<1> DEFINE r == Append(q, c)
           n == Len(q)
<1>1. /\ n \in Nat /\ DOMAIN q = 1 .. n /\ DOMAIN r = 1 .. n + 1
      /\ r[n + 1] = c /\ \A i \in 1 .. n : r[i] = q[i]
  <2>1. n \in Nat /\ DOMAIN q = 1 .. n
    BY LenProperties
  <2>2. /\ r \in Seq(S) /\ Len(r) = n + 1 /\ r[n + 1] = c
        /\ \A i \in 1 .. n : r[i] = q[i]
    BY AppendProperties
  <2>3. DOMAIN r = 1 .. n + 1
    BY <2>2, LenProperties
  <2> QED BY <2>1, <2>2, <2>3
<1> HIDE DEF r, n
<1>2. NoneOf(r, o) <=> NoneOf(q, o) /\ ~ Spans(c, o)
  <2>1. ASSUME NoneOf(r, o) PROVE NoneOf(q, o) /\ ~ Spans(c, o)
    <3>1. n + 1 \in 1 .. n + 1 /\ \A i \in 1 .. n : i \in 1 .. n + 1
      BY <1>1
    <3> QED BY <1>1, <2>1, <3>1 DEF NoneOf
  <2>2. ASSUME NoneOf(q, o), ~ Spans(c, o) PROVE NoneOf(r, o)
    <3>1. \A i \in 1 .. n + 1 : i = n + 1 \/ i \in 1 .. n
      BY <1>1
    <3> QED BY <1>1, <2>2, <3>1 DEF NoneOf
  <2> QED BY <2>1, <2>2
<1>3. OneOf(r, o) <=> \/ OneOf(q, o) /\ ~ Spans(c, o)
                      \/ NoneOf(q, o) /\ Spans(c, o)
  <2>0. /\ n + 1 \in 1 .. n + 1 /\ n + 1 \notin 1 .. n
        /\ \A i \in 1 .. n : i \in 1 .. n + 1 /\ i # n + 1
        /\ \A i \in 1 .. n + 1 : i = n + 1 \/ i \in 1 .. n
    BY <1>1
  <2>1. CASE Spans(c, o)
    <3>1. OneOf(r, o) => NoneOf(q, o)
      BY <1>1, <2>0, <2>1 DEF OneOf, NoneOf
    <3>2. NoneOf(q, o) => OneOf(r, o)
      <4>1. NoneOf(q, o) => \A j \in 1 .. n + 1 : Spans(r[j], o) => j = n + 1
        BY <1>1, <2>0 DEF NoneOf
      <4> QED BY <1>1, <2>0, <2>1, <4>1 DEF OneOf
    <3> QED BY <2>1, <3>1, <3>2
  <2>2. CASE ~ Spans(c, o)
    <3>1. OneOf(r, o) => OneOf(q, o)
      BY <1>1, <2>0, <2>2 DEF OneOf
    <3>2. OneOf(q, o) => OneOf(r, o)
      BY <1>1, <2>0, <2>2 DEF OneOf
    <3> QED BY <2>2, <3>1, <3>2
  <2> QED BY <2>1, <2>2
<1> QED BY <1>2, <1>3 DEF r

LEMMA NoneWithin ==
  ASSUME NEW q \in Seq(Tok), NEW a \in Nat, NEW b \in Nat, NEW o \in Nat,
         LieIn(q, a, b), o < a \/ b <= o
  PROVE  NoneOf(q, o)
<1>1. ASSUME NEW i \in DOMAIN q PROVE ~ Spans(q[i], o)
  <2>1. q[i] \in Tok
    BY ElementOfSeq, LenProperties
  <2>2. q[i].start \in Nat /\ q[i].end \in Nat
    BY <2>1 DEF Tok
  <2> QED BY <2>2 DEF LieIn, Spans
<1> QED BY <1>1 DEF NoneOf

\* A token behind the tokens seen, and nothing that is seen in between.
LEMMA SeenFurther ==
  ASSUME NEW t, NEW q \in Seq(Tok), NEW c \in Tok, NEW a \in Nat,
         NEW p \in Nat, a <= p, p <= c.start, c.start <= c.end,
         LieIn(q, a, p), Seen(t, q, a, p),
         \A i \in p .. c.start - 1 : At(t, i) \in Unseen
  PROVE  /\ Append(q, c) \in Seq(Tok)
         /\ LieIn(Append(q, c), a, c.end)
         /\ Seen(t, Append(q, c), a, c.end)
<1> DEFINE r == Append(q, c)
           n == Len(q)
<1>1. /\ n \in Nat /\ DOMAIN q = 1 .. n /\ r \in Seq(Tok)
      /\ DOMAIN r = 1 .. n + 1
      /\ r[n + 1] = c /\ \A i \in 1 .. n : r[i] = q[i]
  <2>1. n \in Nat /\ DOMAIN q = 1 .. n
    BY LenProperties
  <2>2. /\ r \in Seq(Tok) /\ Len(r) = n + 1 /\ r[n + 1] = c
        /\ \A i \in 1 .. n : r[i] = q[i]
    BY AppendProperties
  <2>3. DOMAIN r = 1 .. n + 1
    BY <2>2, LenProperties
  <2> QED BY <2>1, <2>2, <2>3
<1>2. c.start \in Nat /\ c.end \in Nat
  BY DEF Tok
<1> HIDE DEF r, n
<1>3. LieIn(r, a, c.end)
  <2>1. ASSUME NEW i \in 1 .. n
        PROVE  a <= r[i].start /\ r[i].start <= r[i].end /\ r[i].end <= c.end
    <3>1. q[i].start \in Nat /\ q[i].end \in Nat
      <4>1. q[i] \in Tok
        BY <1>1, ElementOfSeq DEF n
      <4> QED BY <4>1 DEF Tok
    <3>2. a <= q[i].start /\ q[i].start <= q[i].end /\ q[i].end <= p
      BY <1>1 DEF LieIn
    <3> QED BY <1>1, <1>2, <3>1, <3>2
  <2>2. \A i \in 1 .. n + 1 : i = n + 1 \/ i \in 1 .. n
    BY <1>1
  <2>3. a <= c.start
    BY <1>2
  <2> QED BY <1>1, <1>2, <2>1, <2>2, <2>3 DEF LieIn
<1>4. ASSUME NEW o \in a .. c.end - 1
      PROVE  At(t, o) \in Unseen \/ OneOf(r, o)
  <2>1. CASE o < p
    <3>1. ~ Spans(c, o)
      BY <1>2, <2>1 DEF Spans
    <3>2. At(t, o) \in Unseen \/ OneOf(q, o)
      BY <1>2, <2>1 DEF Seen
    <3> QED BY <3>1, <3>2, OneOfLast DEF r
  <2>2. CASE p <= o /\ o < c.start
    BY <1>2, <2>2
  <2>3. CASE c.start <= o
    <3>1. Spans(c, o) /\ o \in Nat /\ p <= o
      BY <1>2, <2>3 DEF Spans
    <3>2. NoneOf(q, o)
      BY <3>1, NoneWithin
    <3> QED BY <3>1, <3>2, OneOfLast DEF r
  <2> QED BY <1>2, <2>1, <2>2, <2>3
<1> QED BY <1>1, <1>3, <1>4 DEF Seen, r

\* Dedents on top of the comments of a stack.
Copies(d, m) == [i \in 1 .. m |-> d]

LEMMA DedentsStacked ==
  ASSUME NEW t, NEW q \in Seq(Tok), NEW d \in Tok, NEW a \in Nat,
         NEW e \in Nat, NEW m \in Nat,
         a <= d.start, d.start <= d.end, d.end <= e, d.kind = "dedent",
         Comments(t, q), LieIn(q, a, e), Seen(t, q, a, e),
         \A i \in d.start .. d.end - 1 : At(t, i) \in Unseen
  PROVE  LET r == q \o Copies(d, m)
         IN  /\ r \in Seq(Tok) /\ Len(r) = Len(q) + m
             /\ LieIn(r, a, e) /\ Seen(t, r, a, e) /\ Stack(t, r, d, m)
<1> DEFINE ds == Copies(d, m)
           r  == q \o ds
           n  == Len(q)
<1>1. ds \in Seq(Tok) /\ Len(ds) = m /\ \A i \in 1 .. m : ds[i] = d
  BY DEF Copies
<1>2. n \in Nat /\ DOMAIN q = 1 .. n
  BY LenProperties
<1> HIDE DEF ds
<1>3. /\ r \in Seq(Tok) /\ Len(r) = n + m
      /\ \A i \in 1 .. n + m : r[i] = IF i <= n THEN q[i] ELSE ds[i - n]
  BY <1>1, ConcatProperties
<1>4. DOMAIN r = 1 .. n + m
  BY <1>3, LenProperties
<1> HIDE DEF r, n
<1>5. \A i \in 1 .. n : i \in 1 .. n + m /\ r[i] = q[i]
  BY <1>2, <1>3
<1>6. ASSUME NEW i \in 1 .. n + m, ~ (i <= n) PROVE r[i] = d
  <2>1. i - n \in 1 .. m
    BY <1>2, <1>6
  <2> QED BY <1>1, <1>3, <1>6, <2>1
<1>7. d.start \in Nat /\ d.end \in Nat
  BY DEF Tok
<1>8. LieIn(r, a, e)
  <2>1. ASSUME NEW i \in 1 .. n + m
        PROVE  a <= r[i].start /\ r[i].start <= r[i].end /\ r[i].end <= e
    <3>1. CASE i <= n
      <4>1. i \in 1 .. n
        BY <1>2, <3>1
      <4> QED BY <1>2, <1>5, <4>1 DEF LieIn
    <3>2. CASE ~ (i <= n)
      BY <1>6, <3>2
    <3> QED BY <3>1, <3>2
  <2> QED BY <1>4, <2>1 DEF LieIn
<1>9. ASSUME NEW o \in a .. e - 1, At(t, o) \notin Unseen PROVE OneOf(r, o)
  <2>1. OneOf(q, o)
    BY <1>9 DEF Seen
  <2>2. PICK i \in 1 .. n : /\ Spans(q[i], o)
                            /\ \A j \in 1 .. n : Spans(q[j], o) => j = i
    BY <1>2, <2>1 DEF OneOf
  <2>3. ~ Spans(d, o)
    <3>1. Spans(d, o) => o \in d.start .. d.end - 1
      BY <1>7 DEF Spans
    <3> QED BY <1>9, <3>1
  <2>4. ASSUME NEW j \in 1 .. n + m, Spans(r[j], o) PROVE j = i
    <3>1. j <= n
      BY <1>6, <2>3, <2>4
    <3>2. j \in 1 .. n
      BY <1>2, <3>1
    <3> QED BY <1>5, <2>2, <2>4, <3>2
  <2>5. i \in DOMAIN r /\ Spans(r[i], o)
    BY <1>4, <1>5, <2>2
  <2> QED BY <1>4, <2>4, <2>5 DEF OneOf
<1>10. Stack(t, r, d, m)
  <2>1. m \in 0 .. n + m /\ (n + m) - m = n
    BY <1>2
  <2>2. ASSUME NEW i \in 1 .. n + m
        PROVE  IF i <= n
               THEN r[i].kind = "comment" /\ At(t, r[i].start) = "#"
               ELSE r[i] = d
    <3>1. CASE i <= n
      <4>1. i \in 1 .. n
        BY <1>2, <3>1
      <4> QED BY <1>2, <1>5, <3>1, <4>1 DEF Comments
    <3>2. CASE ~ (i <= n)
      BY <1>6, <3>2
    <3> QED BY <3>1, <3>2
  <2> QED BY <1>3, <2>1, <2>2 DEF Stack
<1> QED BY <1>3, <1>8, <1>9, <1>10 DEF Seen, r, ds, n
-------------------------------------------------------------------------------
Rising(l) == /\ Len(l) >= 1 /\ l[1] = 0
             /\ \A i \in 1 .. Len(l) - 1 : l[i] < l[i + 1]

\* The states of a lexer that reads t.
LexerOK(t, s) ==
  /\ s \in LexerState /\ s.pos <= Len(t) /\ Rising(s.indents)
  /\ s.done => s.pos = Len(t) /\ Len(s.indents) = 1

\* What n, the result of a call, is to a lexer that was at a, and had the
\* indents and the depth of s.
\* There is nothing left:
TextOver(t, a, s, n) ==
  /\ n.token.kind = "eof" /\ n.lexer.pending = <<>> /\ n.lexer.done
  /\ n.token \in [kind : {"eof"}, start : {n.lexer.pos}, end : {n.lexer.pos}]
  /\ Len(n.lexer.indents) = Len(s.indents) /\ n.lexer.depth = s.depth
  /\ Seen(t, <<>>, a, n.lexer.pos)

\* A token was read, and comments before it:
Reads(t, s, n) ==
  /\ Comments(t, n.lexer.pending)
  /\ n.token.kind \in Kind \ {"dedent"}
  /\ n.token.kind = "comment" => At(t, n.token.start) = "#"
  /\ Len(n.lexer.indents)
       = Len(s.indents) + (IF n.token.kind = "indent" THEN 1 ELSE 0)
  /\ n.lexer.depth = DepthBehind(s.depth, n.token.kind)
  /\ n.token.kind \in {"newline", "indent"} => s.depth = 0

\* Blocks, or none, were closed, and comments read before:
ClosesBlocks(t, s, n, d, m) ==
  /\ Stack(t, Append(n.lexer.pending, n.token), d, m)
  /\ Len(n.lexer.indents) + m = Len(s.indents)
  /\ n.lexer.depth = s.depth
  /\ m > 0 => s.depth = 0 \/ n.lexer.done

Returns(t, a, s, n) ==
  LET q == Append(n.lexer.pending, n.token)
  IN  /\ n.token \in Tok /\ LieIn(q, a, n.lexer.pos)
      /\ Seen(t, q, a, n.lexer.pos)
      /\ Reads(t, s, n) \/ \E d, m : ClosesBlocks(t, s, n, d, m)

Called(t, a, s, n) ==
  /\ LexerOK(t, n.lexer) /\ a <= n.lexer.pos
  /\ TextOver(t, a, s, n) \/ Returns(t, a, s, n)

LEMMA PoppedState ==
  ASSUME NEW s \in LexerState, s.pending # <<>>
  PROVE  /\ Popped(s).lexer \in LexerState
         /\ Popped(s).token \in Tok
         /\ Popped(s).token = Last(s.pending)
         /\ Popped(s).lexer.pending = Front(s.pending)
         /\ Append(Popped(s).lexer.pending, Popped(s).token) = s.pending
         /\ Popped(s).lexer.pos = s.pos /\ Popped(s).lexer.depth = s.depth
         /\ Popped(s).lexer.indents = s.indents
         /\ Popped(s).lexer.done = s.done
<1> DEFINE n == Popped(s)
<1>1. s.pending \in Seq(Tok)
  BY DEF LexerState
<1>2. /\ Front(s.pending) \in Seq(Tok) /\ Last(s.pending) \in Tok
      /\ s.pending = Append(Front(s.pending), Last(s.pending))
  BY <1>1, LastAndFront
<1>3. /\ n.token = Last(s.pending)
      /\ n.lexer = [s EXCEPT !.pending = Front(s.pending)]
  BY DEF Popped, LexerState
<1> HIDE DEF n
<1>4. /\ n.lexer \in LexerState /\ n.lexer.pending = Front(s.pending)
      /\ n.lexer.pos = s.pos /\ n.lexer.depth = s.depth
      /\ n.lexer.indents = s.indents /\ n.lexer.done = s.done
  BY <1>2, <1>3 DEF LexerState
<1> QED BY <1>2, <1>3, <1>4 DEF n

\* The end of the text, comments that wait in s.pending being read.
LEMMA EndOfTextStep ==
  ASSUME NEW C, NEW t \in Seq(C), NEW s, LexerOK(t, s), s.pos = Len(t),
         NEW a \in Nat, a <= s.pos,
         Comments(t, s.pending), LieIn(s.pending, a, s.pos),
         Seen(t, s.pending, a, s.pos), s.done => s.pending = <<>>
  PROVE  Called(t, a, s, EndOfText(s))
<1> DEFINE n == EndOfText(s)
           open   == Len(s.indents) - 1
           dedent == Token("dedent", s.pos, s.pos)
           r == s.pending \o Copies(dedent, open)
           closed == [s EXCEPT !.done = TRUE, !.indents = <<0>>, !.pending = r]
<1>1. /\ s \in LexerState /\ s.pos \in Nat /\ s.pending \in Seq(Tok)
      /\ s.indents \in Seq(Nat) /\ s.depth \in Nat
      /\ Rising(s.indents) /\ s.done \in BOOLEAN
      /\ s.done => Len(s.indents) = 1
  BY DEF LexerOK, LexerState
<1>2. open \in Nat /\ Len(s.indents) \in Nat
  BY <1>1, LenProperties DEF Rising
<1>3. dedent \in Tok /\ dedent.kind = "dedent" /\ dedent.start = s.pos
      /\ dedent.end = s.pos
  <2>1. "dedent" \in Kind
    BY DEF Kind
  <2> QED BY <1>1, <2>1, TokenType
<1>4. /\ r \in Seq(Tok) /\ Len(r) = Len(s.pending) + open
      /\ LieIn(r, a, s.pos) /\ Seen(t, r, a, s.pos)
      /\ Stack(t, r, dedent, open)
  <2>1. \A i \in dedent.start .. dedent.end - 1 : At(t, i) \in Unseen
    BY <1>1, <1>3
  <2>2. dedent.start <= dedent.end /\ dedent.end <= s.pos /\ a <= dedent.start
    BY <1>1, <1>3
  <2> HIDE DEF open, dedent
  <2> QED BY <1>1, <1>2, <1>3, <2>1, <2>2, DedentsStacked
<1> HIDE DEF open, dedent, r
<1>5. /\ closed \in LexerState /\ closed.pos = s.pos /\ closed.pending = r
      /\ closed.indents = <<0>> /\ closed.done /\ closed.depth = s.depth
  <2>1. <<0>> \in Seq(Nat)
    OBVIOUS
  <2> QED BY <1>1, <1>4, <2>1 DEF LexerState
<1>6. closed = [s EXCEPT !.done = TRUE, !.indents = <<0>>,
                         !.pending = @ \o [i \in 1 .. open |-> dedent]]
  BY <1>1 DEF r, LexerState, Copies
<1>7. Len(<<0>>) = 1 /\ Rising(<<0>>)
  BY DEF Rising
<1>8. CASE ~ s.done /\ r # <<>>
  <2>1. n = Popped(closed)
    BY <1>5, <1>6, <1>8 DEF EndOfText, open, dedent
  <2> HIDE DEF n, closed
  <2>2. /\ n.lexer \in LexerState /\ n.token \in Tok
        /\ Append(n.lexer.pending, n.token) = r
        /\ n.lexer.pos = s.pos /\ n.lexer.depth = s.depth
        /\ n.lexer.indents = <<0>> /\ n.lexer.done
    BY <1>5, <1>8, <2>1, PoppedState
  <2>3. LexerOK(t, n.lexer)
    BY <1>1, <1>7, <2>2 DEF LexerOK
  <2>4. Len(n.lexer.indents) + open = Len(s.indents)
    BY <1>2, <1>7, <2>2 DEF open
  <2>5. ClosesBlocks(t, s, n, dedent, open)
    BY <1>4, <2>2, <2>4 DEF ClosesBlocks
  <2>6. Returns(t, a, s, n)
    BY <1>4, <2>2, <2>5 DEF Returns
  <2> QED BY <2>2, <2>3, <2>6 DEF Called, n
<1>9. CASE s.done \/ r = <<>>
  <2>1. n = [lexer |-> [s EXCEPT !.done = TRUE],
             token |-> Token("eof", s.pos, s.pos)]
    <3>1. s.done \/ closed.pending = <<>>
      BY <1>5, <1>9
    <3> HIDE DEF closed
    <3> QED BY <1>6, <3>1 DEF EndOfText, open, dedent
  <2>2. s.pending = <<>> /\ Len(s.indents) = 1
    <3>1. CASE s.done
      BY <1>1, <3>1
    <3>2. CASE ~ s.done
      <4>1. Len(s.pending) \in Nat /\ Len(s.pending) + open = 0
        BY <1>1, <1>4, <1>9, <3>2, LenProperties, EmptySeq
      <4>2. Len(s.pending) = 0 /\ open = 0
        BY <1>2, <4>1
      <4> QED BY <1>1, <1>2, <4>2, EmptySeq DEF open
    <3> QED BY <3>1, <3>2
  <2>3. /\ n.lexer \in LexerState /\ n.lexer.pos = s.pos
        /\ n.lexer.pending = <<>> /\ n.lexer.done
        /\ n.lexer.indents = s.indents /\ n.lexer.depth = s.depth
        /\ n.token.kind = "eof"
        /\ n.token \in [kind : {"eof"}, start : {s.pos}, end : {s.pos}]
    <3>1. /\ n.lexer = [s EXCEPT !.done = TRUE]
          /\ n.token = Token("eof", s.pos, s.pos)
      BY <2>1
    <3> HIDE DEF n
    <3>2. /\ n.lexer \in LexerState /\ n.lexer.pos = s.pos
          /\ n.lexer.pending = s.pending /\ n.lexer.done
          /\ n.lexer.indents = s.indents /\ n.lexer.depth = s.depth
      BY <1>1, <3>1 DEF LexerState
    <3>3. /\ n.token.kind = "eof"
          /\ n.token \in [kind : {"eof"}, start : {s.pos}, end : {s.pos}]
      BY <3>1 DEF Token
    <3> QED BY <2>2, <3>2, <3>3
  <2> HIDE DEF n
  <2>4. LexerOK(t, n.lexer)
    BY <1>1, <2>2, <2>3 DEF LexerOK
  <2>5. TextOver(t, a, s, n)
    BY <2>2, <2>3 DEF TextOver
  <2> QED BY <2>3, <2>4, <2>5 DEF Called, n
<1> QED BY <1>1, <1>8, <1>9

\* A token that was taken behind what is not seen, u being where it starts.
LEMMA TookStep ==
  ASSUME NEW C, NEW t \in Seq(C), NEW s, LexerOK(t, s), NEW u, LexerOK(t, u),
         NEW n, Took(t, u, n),
         u.indents = s.indents, u.pending = s.pending, u.depth = s.depth,
         u.pos >= s.pos, \A i \in s.pos .. u.pos - 1 : At(t, i) \in Unseen,
         NEW a \in Nat, a <= s.pos,
         Comments(t, s.pending), LieIn(s.pending, a, s.pos),
         Seen(t, s.pending, a, s.pos),
         n.token.kind = "newline" => s.depth = 0
  PROVE  Called(t, a, s, n)
<1> DEFINE c == n.token
           e == n.lexer.pos
           w == u.pos
<1>1. /\ s \in LexerState /\ s.pos \in Nat /\ s.pending \in Seq(Tok)
      /\ Len(t) \in Nat /\ w \in Nat /\ w <= Len(t)
      /\ Rising(s.indents) /\ (u.done => w = Len(t) /\ Len(s.indents) = 1)
  BY LenProperties DEF LexerOK, LexerState
<1>2. /\ n.lexer \in LexerState /\ e \in w .. Len(t)
      /\ c = Token(c.kind, w, e)
      /\ c.kind \in PlainKind \cup Opener \cup Closer \cup {"newline"}
      /\ n.lexer.indents = s.indents /\ n.lexer.pending = s.pending
      /\ n.lexer.done = u.done
      /\ n.lexer.depth = DepthBehind(s.depth, c.kind)
      /\ c.kind = "comment" => At(t, w) = "#"
  BY DEF Took
<1> HIDE DEF c, e, w
<1>3. e \in Nat /\ w <= e /\ s.pos <= w /\ a <= e
  BY <1>1, <1>2 DEF w
<1>4. c.kind \in Kind /\ c.kind # "dedent" /\ c.kind # "indent"
  <2>1. PlainKind \cup Opener \cup Closer \cup {"newline"} \subseteq Kind
    BY DEF Kind
  <2> QED BY <1>2, <2>1, KindsApart
<1>5. c \in Tok /\ c.start = w /\ c.end = e
  BY <1>1, <1>2, <1>3, <1>4, TokenType
<1>6. /\ LieIn(Append(s.pending, c), a, e)
      /\ Seen(t, Append(s.pending, c), a, e)
  <2>1. \A i \in s.pos .. w - 1 : At(t, i) \in Unseen
    BY DEF w
  <2> QED BY <1>1, <1>3, <1>5, <2>1, SeenFurther
<1>7. Reads(t, s, n)
  <2>1. Len(s.indents) + 0 = Len(s.indents)
    BY <1>1, LenProperties DEF LexerState
  <2> QED BY <1>2, <1>4, <1>5, <2>1 DEF Reads, c
<1>8. LexerOK(t, n.lexer)
  <2>1. u.done => e = Len(t)
    BY <1>1, <1>2, <1>3
  <2> QED BY <1>1, <1>2, <2>1 DEF LexerOK, e
<1>9. Returns(t, a, s, n)
  BY <1>2, <1>5, <1>6, <1>7 DEF Returns, c, e
<1> QED BY <1>3, <1>8, <1>9 DEF Called, e

\* NextInLine, comments that wait in s.pending being read.
LEMMA LineStep ==
  ASSUME NEW C, NEW t \in Seq(C), NEW s, LexerOK(t, s),
         NEW a \in Nat, a <= s.pos,
         Comments(t, s.pending), LieIn(s.pending, a, s.pos),
         Seen(t, s.pending, a, s.pos), s.done => s.pending = <<>>
  PROVE  Called(t, a, s, NextInLine(t, s))
<1> DEFINE w == SkipWhitespace(t, s.depth)[s.pos]
           u == [s EXCEPT !.pos = w]
           n == NextInLine(t, s)
<1>1. /\ s \in LexerState /\ s.pos \in 0 .. Len(t) /\ s.pending \in Seq(Tok)
      /\ s.depth \in Nat /\ Len(t) \in Nat /\ Rising(s.indents)
      /\ s.done => s.pos = Len(t) /\ Len(s.indents) = 1
  BY LenProperties DEF LexerOK, LexerState
<1>2. /\ w \in s.pos .. Len(t)
      /\ \A i \in s.pos .. w - 1 : At(t, i) \in Unseen
      /\ s.depth > 0 => At(t, w) # "nl"
  BY <1>1, WhitespaceSkipped
<1>3. n = ReadNext(t, u)
  BY DEF NextInLine
<1> HIDE DEF w
<1>4. /\ u \in LexerState /\ u.pos = w /\ u.indents = s.indents
      /\ u.pending = s.pending /\ u.done = s.done /\ u.depth = s.depth
  <2>1. w \in Nat
    BY <1>1, <1>2
  <2> QED BY <1>1, <2>1 DEF LexerState
<1> HIDE DEF u, n
<1>5. s.done => w = Len(t)
  BY <1>1, <1>2
<1>6. LexerOK(t, u)
  BY <1>1, <1>2, <1>4, <1>5 DEF LexerOK
<1>7. CASE w = Len(t)
  <2>1. n = EndOfText(u)
    BY <1>3, <1>4, <1>7 DEF ReadNext
  <2>2. LieIn(s.pending, a, w)
    <3>1. \A i \in DOMAIN s.pending : s.pending[i] \in Tok
      BY <1>1, ElementOfSeq, LenProperties
    <3>2. \A i \in DOMAIN s.pending : s.pending[i].end \in Nat
      BY <3>1 DEF Tok
    <3> QED BY <1>1, <1>2, <3>2 DEF LieIn
  <2>3. Seen(t, s.pending, a, w)
    <3>1. \A o \in a .. w - 1 : o \in a .. s.pos - 1 \/ o \in s.pos .. w - 1
      BY <1>1, <1>2
    <3> QED BY <1>2, <3>1 DEF Seen
  <2>4. a <= u.pos
    BY <1>1, <1>2, <1>4
  <2>5. Called(t, a, u, EndOfText(u))
    BY <1>4, <1>6, <1>7, <2>2, <2>3, <2>4, EndOfTextStep
  <2> QED BY <1>4, <2>1, <2>5
        DEF Called, TextOver, Returns, Reads, ClosesBlocks, n
<1>8. CASE w # Len(t)
  <2>1. Took(t, u, n)
    <3>1. u.pos < Len(t)
      BY <1>1, <1>2, <1>4, <1>8
    <3> QED BY <1>3, <1>4, <3>1, NextTook
  <2>2. n.token.kind = "newline" => s.depth = 0
    BY <1>1, <1>2, <1>4, <2>1 DEF Took
  <2> QED BY <1>2, <1>4, <1>6, <2>1, <2>2, TookStep DEF n
<1> QED BY <1>7, <1>8

\* A token on nothing that is seen, on top of others.
LEMMA SeenOnTop ==
  ASSUME NEW t, NEW q \in Seq(Tok), NEW c \in Tok, NEW a \in Nat,
         NEW e \in Nat, a <= c.start, c.start <= c.end, c.end <= e,
         LieIn(q, a, e), Seen(t, q, a, e),
         \A i \in c.start .. c.end - 1 : At(t, i) \in Unseen
  PROVE  LieIn(Append(q, c), a, e) /\ Seen(t, Append(q, c), a, e)
<1> DEFINE r == Append(q, c)
           n == Len(q)
<1>1. /\ n \in Nat /\ DOMAIN q = 1 .. n
      /\ DOMAIN r = 1 .. n + 1
      /\ r[n + 1] = c /\ \A i \in 1 .. n : r[i] = q[i]
  <2>1. n \in Nat /\ DOMAIN q = 1 .. n
    BY LenProperties
  <2>2. /\ r \in Seq(Tok) /\ Len(r) = n + 1 /\ r[n + 1] = c
        /\ \A i \in 1 .. n : r[i] = q[i]
    BY AppendProperties
  <2>3. DOMAIN r = 1 .. n + 1
    BY <2>2, LenProperties
  <2> QED BY <2>1, <2>2, <2>3
<1> HIDE DEF r, n
<1>2. c.start \in Nat /\ c.end \in Nat
  BY DEF Tok
<1>3. LieIn(r, a, e)
  <2>1. \A i \in 1 .. n + 1 : i = n + 1 \/ i \in 1 .. n
    BY <1>1
  <2> QED BY <1>1, <2>1 DEF LieIn
<1>4. ASSUME NEW o \in a .. e - 1, At(t, o) \notin Unseen PROVE OneOf(r, o)
  <2>1. OneOf(q, o)
    BY <1>4 DEF Seen
  <2>2. ~ Spans(c, o)
    <3>1. Spans(c, o) => o \in c.start .. c.end - 1
      BY <1>2 DEF Spans
    <3> QED BY <1>4, <3>1
  <2> QED BY <2>1, <2>2, OneOfLast DEF r
<1> QED BY <1>3, <1>4 DEF Seen, r

LEMMA DeeperRises ==
  ASSUME NEW l \in Seq(Nat), Rising(l), NEW w \in Nat, w > Last(l)
  PROVE  Append(l, w) \in Seq(Nat) /\ Rising(Append(l, w))
<1> DEFINE n == Len(l)
           r == Append(l, w)
<1>1. n \in Nat /\ n >= 1 /\ Last(l) = l[n]
  BY LenProperties DEF Rising, Last
<1>2. /\ r \in Seq(Nat) /\ Len(r) = n + 1 /\ r[n + 1] = w
      /\ \A i \in 1 .. n : r[i] = l[i]
  BY AppendProperties
<1> HIDE DEF r
<1>3. ASSUME NEW i \in 1 .. n PROVE r[i] < r[i + 1]
  <2>1. CASE i = n
    BY <1>1, <1>2, <2>1
  <2>2. CASE i # n
    <3>1. i \in 1 .. n - 1 /\ i + 1 \in 1 .. n
      BY <1>1, <2>2
    <3>2. l[i] < l[i + 1]
      BY <3>1 DEF Rising
    <3> QED BY <1>2, <3>1, <3>2
  <2> QED BY <2>1, <2>2
<1>4. r[1] = 0
  BY <1>1, <1>2 DEF Rising
<1> QED BY <1>1, <1>2, <1>3, <1>4 DEF Rising, r

\* As many indents are taken off the stack as are deeper than the line.
LEMMA ShallowerRises ==
  ASSUME NEW l \in Seq(Nat), Rising(l), NEW w \in Nat
  PROVE  LET deeper == {i \in DOMAIN l : l[i] > w}
             m == Cardinality(deeper)
             r == SubSeq(l, 1, Len(l) - m)
         IN  /\ m \in Nat /\ (m = 0 <=> deeper = {})
             /\ r \in Seq(Nat) /\ Rising(r) /\ Len(r) + m = Len(l)
<1> DEFINE n == Len(l)
           deeper == {i \in DOMAIN l : l[i] > w}
           m == Cardinality(deeper)
           r == SubSeq(l, 1, n - m)
<1>1. n \in Nat /\ n >= 1 /\ DOMAIN l = 1 .. n
  BY LenProperties DEF Rising
<1>2. deeper \subseteq 2 .. n
  BY <1>1 DEF Rising
<1>3. /\ IsFiniteSet(2 .. n) /\ Cardinality(2 .. n) = n - 1
  <2>1. /\ IsFiniteSet(2 .. n)
        /\ Cardinality(2 .. n) = IF 2 > n THEN 0 ELSE n - 2 + 1
    <3>1. 2 \in Int /\ n \in Int
      BY <1>1
    <3> HIDE DEF n
    <3> QED BY <3>1, FS_Interval
  <2> QED BY <1>1, <2>1
<1> HIDE DEF deeper
<1>4. /\ IsFiniteSet(deeper) /\ m <= n - 1
  BY <1>2, <1>3, FS_Subset
<1>5. m \in Nat /\ (m = 0 <=> deeper = {})
  BY <1>4, FS_CardinalityType, FS_EmptySet
<1> HIDE DEF m
<1>6. /\ r \in Seq(Nat) /\ Len(r) = n - m
      /\ \A i \in 1 .. n - m : r[i] = l[i]
  <2>1. n - m \in 1 .. n
    BY <1>1, <1>4, <1>5
  <2>2. \A i \in 1 .. n - m : l[i] \in Nat
    BY <1>1, <2>1, ElementOfSeq
  <2> QED BY <1>1, <2>1, <2>2, SubSeqProperties
<1> HIDE DEF r
<1>7. Rising(r)
  <2>1. n - m >= 1
    BY <1>1, <1>4, <1>5
  <2>2. \A i \in 1 .. (n - m) - 1 :
          i \in 1 .. n - 1 /\ i \in 1 .. n - m /\ i + 1 \in 1 .. n - m
    BY <1>1, <1>4, <1>5
  <2>3. 1 \in 1 .. n - m
    BY <1>1, <1>5, <2>1
  <2> QED BY <1>6, <2>1, <2>2, <2>3 DEF Rising
<1> QED BY <1>1, <1>5, <1>6, <1>7 DEF r, m, deeper, n

\* handle_indentation, and the line behind it.
LEMMA IndentationStep ==
  ASSUME NEW C, NEW t \in Seq(C), NEW s, LexerOK(t, s), ~ s.done,
         s.depth = 0, s.pending = <<>>
  PROVE  Called(t, s.pos, s, NextBehind(t, HandleIndentation(t, s)))
<1> DEFINE a == s.pos
           line == PassBlankLines(t, a)
           at == [s EXCEPT !.pos = line.end, !.pending = line.comments]
           width == Column(t, line.start, line.end)
           deeper == {i \in DOMAIN s.indents : s.indents[i] > width}
           m == Cardinality(deeper)
           dedent == Token("dedent", line.start, line.end)
           below == SubSeq(s.indents, 1, Len(s.indents) - m)
           stack == line.comments \o Copies(dedent, m)
           h == HandleIndentation(t, s)
           n == NextBehind(t, h)
<1>1. /\ s \in LexerState /\ a \in 0 .. Len(t) /\ s.indents \in Seq(Nat)
      /\ Len(t) \in Nat /\ Rising(s.indents)
  BY LenProperties DEF LexerOK, LexerState
<1>2. LinesOK(t, a, line)
  BY <1>1, LinesPassed
<1> HIDE DEF line
<1>3. /\ line.start \in a .. Len(t) /\ line.end \in line.start .. Len(t)
      /\ line.comments \in Seq(Tok)
      /\ Comments(t, line.comments) /\ LieIn(line.comments, a, line.end)
      /\ Seen(t, line.comments, a, line.end)
      /\ line.end < Len(t) =>
           \A i \in line.start .. line.end - 1 : At(t, i) \in Unseen
  BY <1>2 DEF LinesOK, Comments, LieIn, Seen
<1>4. /\ line.start \in Nat /\ line.end \in Nat /\ a \in Nat
      /\ a <= line.start /\ line.start <= line.end /\ a <= line.end
  BY <1>1, <1>3
<1>5. width \in Nat
  BY <1>4, ColumnType
<1>6. /\ at \in LexerState /\ at.pos = line.end /\ at.pending = line.comments
      /\ at.indents = s.indents /\ at.depth = 0 /\ ~ at.done
  BY <1>1, <1>3, <1>4 DEF LexerState
<1>7. LexerOK(t, at)
  BY <1>1, <1>3, <1>6 DEF LexerOK
<1>8. h = IndentLine(t, s, line)
  BY DEF HandleIndentation, line
<1> HIDE DEF width, m, dedent, below, stack, at, h
<1>9. CASE line.comments # <<>> /\ Last(line.comments).end = Len(t)
  <2>1. h = Popped(at)
    BY <1>8, <1>9 DEF IndentLine, at
  <2>2. /\ h.lexer \in LexerState /\ h.token \in Tok
        /\ h.token = Last(line.comments)
        /\ Append(h.lexer.pending, h.token) = line.comments
        /\ h.lexer.pos = line.end /\ h.lexer.depth = 0
        /\ h.lexer.indents = s.indents /\ ~ h.lexer.done
    BY <1>6, <1>9, <2>1, PoppedState
  <2>3. h.token.kind = "comment"
    BY <1>3, <1>9, <2>2, LastAndFront DEF Comments
  <2>4. n = h
    BY <2>3 DEF NextBehind
  <2> HIDE DEF n
  <2>5. LexerOK(t, h.lexer)
    BY <1>1, <1>3, <2>2 DEF LexerOK
  <2> DEFINE d == Token("dedent", 0, 0)
  <2>6. ClosesBlocks(t, s, h, d, 0)
    <3>1. d.kind = "dedent"
      BY DEF Token
    <3>2. Len(line.comments) \in Nat /\ DOMAIN line.comments = 1 .. Len(line.comments)
      BY <1>3, LenProperties
    <3> HIDE DEF d
    <3>3. Stack(t, line.comments, d, 0)
      BY <1>3, <3>1, <3>2 DEF Stack, Comments
    <3>4. Len(s.indents) \in Nat
      BY <1>1, LenProperties
    <3> QED BY <2>2, <3>3, <3>4 DEF ClosesBlocks
  <2>7. Returns(t, a, s, h)
    BY <1>3, <2>2, <2>6 DEF Returns
  <2>8. Called(t, a, s, h)
    BY <1>4, <2>2, <2>5, <2>7 DEF Called
  <2> QED BY <2>4, <2>8 DEF n, h
<1>10. CASE /\ ~ (line.comments # <<>> /\ Last(line.comments).end = Len(t))
            /\ line.end = Len(t) \/ (width <= Last(s.indents) /\ deeper = {})
  <2>1. h = [lexer |-> at, token |-> Token("none", 0, 0)]
    BY <1>8, <1>10 DEF IndentLine, at, width
  <2>2. n = NextInLine(t, at)
    <3>1. h.token.kind = "none" /\ h.lexer = at
      BY <2>1 DEF Token
    <3> QED BY <3>1 DEF NextBehind
  <2> HIDE DEF n
  <2>3. Called(t, a, at, NextInLine(t, at))
    BY <1>3, <1>4, <1>6, <1>7, LineStep
  <2>4. Called(t, a, s, n)
    BY <1>6, <2>2, <2>3 DEF Called, TextOver, Returns, Reads, ClosesBlocks
  <2> QED BY <2>4 DEF n, h
<1>11. CASE /\ ~ (line.comments # <<>> /\ Last(line.comments).end = Len(t))
            /\ ~ (line.end = Len(t) \/ (width <= Last(s.indents) /\ deeper = {}))
            /\ width > Last(s.indents)
  <2> DEFINE c == Token("indent", line.start, line.end)
             u == [at EXCEPT !.indents = Append(s.indents, width)]
  <2>1. h = [lexer |-> u, token |-> c]
    BY <1>6, <1>8, <1>11 DEF IndentLine, at, width, LexerState
  <2>2. c \in Tok /\ c.kind = "indent" /\ c.start = line.start
        /\ c.end = line.end
    <3>1. "indent" \in Kind
      BY DEF Kind
    <3> QED BY <1>4, <3>1, TokenType
  <2>3. /\ Append(s.indents, width) \in Seq(Nat)
        /\ Rising(Append(s.indents, width))
        /\ Len(Append(s.indents, width)) = Len(s.indents) + 1
    BY <1>1, <1>5, <1>11, DeeperRises, AppendProperties
  <2>4. /\ u \in LexerState /\ u.pos = line.end
        /\ u.pending = line.comments /\ u.indents = Append(s.indents, width)
        /\ u.depth = 0 /\ ~ u.done
    BY <1>6, <2>3 DEF LexerState
  <2> HIDE DEF c, u
  <2>5. n = h /\ h.lexer = u /\ h.token = c
    BY <2>1, <2>2 DEF NextBehind
  <2> HIDE DEF n
  <2>6. LexerOK(t, u)
    BY <1>1, <1>3, <2>3, <2>4 DEF LexerOK
  <2>7. /\ LieIn(Append(line.comments, c), a, line.end)
        /\ Seen(t, Append(line.comments, c), a, line.end)
    <3>1. \A i \in c.start .. c.end - 1 : At(t, i) \in Unseen
      BY <1>1, <1>3, <1>11, <2>2, SMTT(20)
    <3>2. a <= c.start /\ c.start <= c.end /\ c.end <= line.end
      BY <1>4, <2>2
    <3> HIDE DEF a
    <3> QED BY <1>3, <1>4, <2>2, <3>1, <3>2, SeenOnTop
  <2>8. Reads(t, s, h)
    <3>1. /\ "indent" \in Kind \ {"dedent"} /\ "indent" # "comment"
          /\ DepthBehind(0, "indent") = 0
      BY DEF Kind, DepthBehind, Opener, Closer
    <3> QED BY <1>3, <2>2, <2>3, <2>4, <2>5, <3>1 DEF Reads
  <2>9. Returns(t, a, s, h)
    BY <2>2, <2>4, <2>5, <2>7, <2>8 DEF Returns
  <2>10. Called(t, a, s, h)
    BY <1>4, <2>4, <2>5, <2>6, <2>9 DEF Called
  <2> QED BY <2>5, <2>10 DEF n, h
<1>12. CASE /\ ~ (line.comments # <<>> /\ Last(line.comments).end = Len(t))
            /\ ~ (line.end = Len(t) \/ (width <= Last(s.indents) /\ deeper = {}))
            /\ ~ (width > Last(s.indents))
  <2> DEFINE u == [at EXCEPT !.indents = below, !.pending = stack]
  <2>1. h = Popped(u)
    <3>1. h = Popped([at EXCEPT
             !.indents = SubSeq(@, 1, Len(@) - m),
             !.pending = @ \o [i \in 1 .. m |-> dedent]])
      BY <1>8, <1>12 DEF IndentLine, at, width, m, dedent
    <3>2. u = [at EXCEPT !.indents = SubSeq(@, 1, Len(@) - m),
                         !.pending = @ \o [i \in 1 .. m |-> dedent]]
      BY <1>6 DEF below, stack, Copies, LexerState
    <3> HIDE DEF u
    <3> QED BY <3>1, <3>2
  <2>2. deeper # {}
    <3>1. Last(s.indents) \in Nat
      <4>1. Len(s.indents) >= 1
        BY <1>1 DEF Rising
      <4>2. s.indents # <<>>
        BY <4>1
      <4> QED BY <1>1, <4>2, LastAndFront
    <3> HIDE DEF deeper
    <3> QED BY <1>5, <1>12, <3>1
  <2>3. /\ m \in Nat /\ m # 0 /\ below \in Seq(Nat) /\ Rising(below)
        /\ Len(below) + m = Len(s.indents)
    BY <1>1, <1>5, <2>2, ShallowerRises DEF m, below
  <2>4. dedent \in Tok /\ dedent.kind = "dedent"
        /\ dedent.start = line.start /\ dedent.end = line.end
    <3>1. "dedent" \in Kind
      BY DEF Kind
    <3> QED BY <1>4, <3>1, TokenType DEF dedent
  <2> HIDE DEF deeper
  <2>5. /\ stack \in Seq(Tok) /\ Len(stack) = Len(line.comments) + m
        /\ LieIn(stack, a, line.end) /\ Seen(t, stack, a, line.end)
        /\ Stack(t, stack, dedent, m)
    <3>1. \A i \in dedent.start .. dedent.end - 1 : At(t, i) \in Unseen
      BY <1>1, <1>3, <1>12, <2>4
    <3>2. /\ a <= dedent.start /\ dedent.start <= dedent.end
          /\ dedent.end <= line.end
      BY <1>4, <2>4
    <3> HIDE DEF a
    <3> QED BY <1>3, <1>4, <2>3, <2>4, <3>1, <3>2, DedentsStacked DEF stack
  <2>6. stack # <<>>
    <3>1. Len(line.comments) \in Nat
      BY <1>3, LenProperties
    <3>2. Len(stack) # 0
      BY <2>3, <2>5, <3>1
    <3> QED BY <3>2, EmptySeq
  <2>7. /\ u \in LexerState /\ u.pos = line.end /\ u.pending = stack
        /\ u.indents = below /\ u.depth = 0 /\ ~ u.done
    BY <1>6, <2>3, <2>5 DEF LexerState
  <2> HIDE DEF u
  <2>8. /\ h.lexer \in LexerState /\ h.token \in Tok
        /\ h.token = Last(stack)
        /\ Append(h.lexer.pending, h.token) = stack
        /\ h.lexer.pos = line.end /\ h.lexer.depth = 0
        /\ h.lexer.indents = below /\ ~ h.lexer.done
    BY <2>1, <2>6, <2>7, PoppedState
  <2>9. n = h
    <3>1. h.token.kind = "dedent"
      <4>1. Last(stack) = stack[Len(stack)] /\ Len(stack) \in 1 .. Len(stack)
        BY <2>5, <2>6, LastAndFront, LenProperties
      <4>2. Len(stack) - m < Len(stack)
        BY <2>3, <2>5, LenProperties
      <4>3. stack[Len(stack)] = dedent
        BY <2>3, <2>5, <4>1, <4>2 DEF Stack
      <4> QED BY <2>4, <2>8, <4>1, <4>3
    <3> QED BY <3>1 DEF NextBehind
  <2> HIDE DEF n
  <2>10. LexerOK(t, h.lexer)
    BY <1>1, <1>3, <2>3, <2>8 DEF LexerOK
  <2>11. ClosesBlocks(t, s, h, dedent, m)
    BY <2>3, <2>5, <2>8 DEF ClosesBlocks
  <2>12. Returns(t, a, s, h)
    BY <2>5, <2>8, <2>11 DEF Returns
  <2>13. Called(t, a, s, h)
    BY <1>4, <2>8, <2>10, <2>12 DEF Called
  <2> QED BY <2>9, <2>13 DEF n, h
<1> QED BY <1>9, <1>10, <1>11, <1>12

\* next_token, when no token waits.
LEMMA TextStep ==
  ASSUME NEW C, NEW t \in Seq(C), NEW s, LexerOK(t, s), s.pending = <<>>
  PROVE  Called(t, s.pos, s, NextToken(t, s))
<1> DEFINE n == NextToken(t, s)
           stale == [s EXCEPT !.fresh = FALSE]
<1>1. /\ s \in LexerState /\ s.pos \in Nat /\ s.pos <= Len(t)
      /\ s.depth \in Nat /\ Len(t) \in Nat
  BY LenProperties DEF LexerOK, LexerState
<1>2. n = NextInText(t, s)
  BY DEF NextToken
<1>3. Comments(t, <<>>) /\ LieIn(<<>>, s.pos, s.pos)
      /\ Seen(t, <<>>, s.pos, s.pos) /\ <<>> \in Seq(Tok)
  BY <1>1 DEF Comments, LieIn, Seen
<1>4. /\ LexerOK(t, stale) /\ stale.pos = s.pos /\ stale.pending = <<>>
      /\ stale.depth = s.depth /\ stale.indents = s.indents
      /\ stale.done = s.done
  <2>1. /\ stale \in LexerState /\ stale.pos = s.pos /\ stale.pending = <<>>
        /\ stale.depth = s.depth /\ stale.indents = s.indents
        /\ stale.done = s.done
    BY <1>1 DEF LexerState
  <2> HIDE DEF stale
  <2> QED BY <2>1 DEF LexerOK
<1> HIDE DEF n
<1>5. CASE InFString(s)
  <2>1. n = ScanFStringContent(t, s) /\ s.fstrings # <<>>
    BY <1>2, <1>5 DEF NextInText, InFString
  <2>2. Took(t, s, n) /\ n.token.kind # "newline"
    BY <1>1, <2>1, FStringContentTook, FStringContentKind
  <2> QED BY <1>1, <1>3, <2>2, TookStep DEF n
<1>6. CASE ~ InFString(s) /\ s.fresh /\ s.pos < Len(t) /\ s.depth > 0
  <2>1. n = NextInLine(t, stale)
    BY <1>2, <1>6 DEF NextInText
  <2> HIDE DEF stale
  <2>2. Called(t, s.pos, stale, NextInLine(t, stale))
    BY <1>1, <1>3, <1>4, LineStep
  <2>3. Called(t, s.pos, s, n)
    BY <1>4, <2>1, <2>2 DEF Called, TextOver, Returns, Reads, ClosesBlocks
  <2> QED BY <2>3 DEF n
<1>7. CASE ~ InFString(s) /\ s.fresh /\ s.pos < Len(t) /\ ~ (s.depth > 0)
  <2>1. n = NextBehind(t, HandleIndentation(t, stale))
    BY <1>2, <1>7 DEF NextInText
  <2> HIDE DEF stale
  <2>2. ~ s.done /\ s.depth = 0
    BY <1>1, <1>7 DEF LexerOK
  <2>3. Called(t, s.pos, stale, NextBehind(t, HandleIndentation(t, stale)))
    BY <1>4, <2>2, IndentationStep
  <2>4. Called(t, s.pos, s, n)
    BY <1>4, <2>1, <2>3 DEF Called, TextOver, Returns, Reads, ClosesBlocks
  <2> QED BY <2>4 DEF n
<1>8. CASE ~ InFString(s) /\ ~ (s.fresh /\ s.pos < Len(t))
  <2>1. n = NextInLine(t, s)
    BY <1>2, <1>8 DEF NextInText
  <2>2. Called(t, s.pos, s, NextInLine(t, s))
    BY <1>1, <1>3, LineStep
  <2> QED BY <2>1, <2>2 DEF n
<1> QED BY <1>5, <1>6, <1>7, <1>8
===============================================================================
