---------------------------- MODULE ParserProofs ----------------------------
(***************************************************************************)
(* What holds of the parser's stack and of the nodes it allocates, for any *)
(* texts.                                                                  *)
(***************************************************************************)
EXTENDS GrammarProofs, LexerProofs

(***************************************************************************)
(* Rules that are filled in.                                               *)
(***************************************************************************)
HasStart(i) == i.op \in {"node", "join", "within", "keyword"}

LEMMA RightlySame ==
  ASSUME NEW c, NEW i, NEW s, NEW f, NEW n \in Nat,
         DOMAIN s = 1 .. n, DOMAIN f = 1 .. n, Len(s) = n, Len(f) = n,
         \A k \in 1 .. n : f[k].op = s[k].op /\ f[k].arg = s[k].arg,
         Rightly(c, i, s)
  PROVE  Rightly(c, i, f)
<1>1. \A k \in 1 .. n : \A r : Calls(f[k], r) = Calls(s[k], r)
  BY DEF Calls
<1>2. \A k \in 1 .. n : /\ GoesOn(f[k]) = GoesOn(s[k])
                        /\ NodeLike(f[k]) = NodeLike(s[k])
  BY DEF GoesOn, NodeLike
<1>3. \A k \in 1 .. n : /\ Yields(f[k]) = Yields(s[k])
                        /\ Consumes(f[k]) = Consumes(s[k])
                        /\ Settles(f[k]) = Settles(s[k])
  BY <1>1 DEF Yields, Consumes, Settles
<1>4. \A k \in 1 .. n : ConsumesAt(f[k], c) = ConsumesAt(s[k], c)
  BY <1>1, <1>3 DEF ConsumesAt
<1>5. \A k \in 1 .. n : /\ Trails(f[k]) = Trails(s[k])
                        /\ Loops(f[k]) = Loops(s[k])
                        /\ FailsAtDedent(f[k]) = FailsAtDedent(s[k])
  BY <1>1 DEF Trails, Loops, FailsAtDedent
<1>6. GoesOnRight(i, f)
  BY <1>2, <1>3 DEF Rightly, GoesOnRight
<1>7. SettlesRight(c, i, f)
  <2>1. SettlesRight(c, i, s)
    BY DEF Rightly
  <2>2. ConsumesAt(i, c) => \E k \in 1 .. n : Consumes(f[k])
    BY <1>3, <2>1 DEF SettlesRight
  <2>3. ASSUME ~ Settles(i), NEW m \in 1 .. n, Settles(f[m])
        PROVE  \/ \E k \in 1 .. m - 1 : Consumes(f[k])
               \/ m > 1 /\ ConsumesAt(f[1], c)
    BY <1>3, <1>4, <2>1, <2>3 DEF SettlesRight
  <2> QED BY <2>2, <2>3 DEF SettlesRight
<1>8. MissingRight(i, f)
  <2>1. MissingRight(i, s)
    BY DEF Rightly
  <2>2. ASSUME NEW m \in 1 .. n, Calls(f[m], {"expr_or_missing"})
        PROVE  \E k \in m + 1 .. n : /\ Consumes(f[k])
                                     /\ \A j \in m + 1 .. k - 1 : ~ Settles(f[j])
    BY <1>1, <1>3, <2>1, <2>2, SMTT(30) DEF MissingRight
  <2>3. ASSUME NEW m \in 1 .. n, f[m].op = "missing"
        PROVE  /\ m = n /\ \A k \in 1 .. m - 1 : ~ NodeLike(f[k])
               /\ Calls(i, {"expr_or_missing"})
    BY <1>2, <2>1, <2>3 DEF MissingRight
  <2> QED BY <2>2, <2>3 DEF MissingRight
<1>9. TrailsRight(i, f)
  BY <1>1, <1>5 DEF Rightly, TrailsRight
<1>10. AdvancesRight(c, i, f)
  <2>1. AdvancesRight(c, i, s)
    BY DEF Rightly
  <2>2. ASSUME NEW m \in 1 .. n, Calls(f[m], Guarded)
        PROVE  m = 1 /\ f[1].op = "parse" /\ c # "dedent"
    BY <1>1, <2>1, <2>2 DEF AdvancesRight
  <2>3. ASSUME NEW m \in 1 .. n, f[m].op = "advance"
        PROVE  IF m = 1
               THEN \/ c # "dedent" \/ Calls(i, Guarded)
                    \/ Calls(i, {"stmts"}) /\ n = 1
                    \/ n > 1 /\ Loops(f[2])
               ELSE f[m - 1].op = "complain" /\ m < n /\ Loops(f[m + 1])
    BY <1>5, <2>1, <2>3 DEF AdvancesRight
  <2> QED BY <2>2, <2>3 DEF AdvancesRight
<1>11. ASSUME c = "dedent" PROVE DedentRight(i, f)
  <2>1. DedentRight(i, s)
    BY <1>11 DEF Rightly
  <2>2. Calls(i, Chain) \/ i.op = "binop" =>
          n > 0 /\ FailsAtDedent(f[1]) /\ \A k \in 1 .. n : f[k].op # "missing"
    BY <1>5, <2>1 DEF DedentRight
  <2>3. Loops(i) =>
          /\ n > 1 /\ \A k \in 1 .. n : ~ NodeLike(f[k])
          /\ \/ f[1].op = "advance"
             \/ f[1].op = "complain" /\ n > 2 /\ f[2].op = "advance"
    BY <1>2, <2>1 DEF DedentRight
  <2>4. Trails(i) =>
          \A k \in 1 .. n : /\ ~ NodeLike(f[k])
                            /\ Trails(f[k]) \/ (f[k].op = "advance" /\ n = 1)
    BY <1>2, <1>5, <2>1 DEF DedentRight
  <2> QED BY <2>2, <2>3, <2>4 DEF DedentRight
<1> QED BY <1>6, <1>7, <1>8, <1>9, <1>10, <1>11 DEF Rightly

LEMMA FilledIs ==
  ASSUME NEW c, NEW i, NEW s, Right(c, i, s), NEW a \in Nat, NEW n \in Nat,
         Len(nodes) \in Nat
  PROVE  LET f == Filled(s, a, n)
         IN  /\ Right(c, i, f) /\ Len(f) = Len(s)
             /\ \A k \in 1 .. Len(f) :
                  /\ HasStart(f[k]) => f[k].at = a /\ f[k].first = n
                  /\ f[k].op = "missing" => f[k].first = Len(nodes)
<1> DEFINE f == Filled(s, a, n)
           m == Len(s)
<1>1. s \in Seq(Instr) /\ m \in Nat /\ DOMAIN s = 1 .. m
  BY LenProperties DEF Right
<1>2. ASSUME NEW k \in 1 .. m
      PROVE  /\ f[k] \in Instr /\ f[k].op = s[k].op /\ f[k].arg = s[k].arg
             /\ HasStart(f[k]) => f[k].at = a /\ f[k].first = n
             /\ f[k].op = "missing" => f[k].first = Len(nodes)
  <2>1. s[k] \in Instr
    BY <1>1, ElementOfSeq
  <2>2. f[k] = CASE HasStart(s[k]) -> [s[k] EXCEPT !.at = a, !.first = n]
                 [] s[k].op = "missing" -> [s[k] EXCEPT !.first = Len(nodes)]
                 [] OTHER -> s[k]
    BY <1>1 DEF Filled, HasStart
  <2> DEFINE r == s[k]
             g == f[k]
  <2>3. r \in [op : Ops, arg : RuleNames \cup Words, then : Items \cup {""},
               at : Nat, first : Nat] /\ MayCall(r.op, r.arg, r.then)
    BY <2>1 DEF Instr
  <2> HIDE DEF f, r
  <2>4. \/ g = [r EXCEPT !.at = a, !.first = n] /\ HasStart(r)
        \/ g = [r EXCEPT !.first = Len(nodes)] /\ r.op = "missing"
        \/ g = r /\ ~ HasStart(r) /\ r.op # "missing"
    BY <2>2 DEF HasStart, r
  <2> HIDE DEF g
  <2>5. /\ g \in [op : Ops, arg : RuleNames \cup Words, then : Items \cup {""},
                  at : Nat, first : Nat]
        /\ g.op = r.op /\ g.arg = r.arg /\ g.then = r.then
    BY <2>3, <2>4
  <2>6. g \in Instr
    BY <2>3, <2>5 DEF Instr
  <2>7. HasStart(g) => g.at = a /\ g.first = n
    BY <2>3, <2>4, <2>5 DEF HasStart
  <2>8. g.op = "missing" => g.first = Len(nodes)
    BY <2>3, <2>4, <2>5 DEF HasStart
  <2> QED BY <2>5, <2>6, <2>7, <2>8 DEF g, r
<1>3. DOMAIN f = 1 .. m
  BY <1>1 DEF Filled
<1> HIDE DEF f, m
<1>4. f \in Seq(Instr) /\ Len(f) = m
  <2>1. f = [k \in 1 .. m |-> f[k]]
    BY <1>3 DEF f, Filled
  <2>2. f \in [1 .. m -> Instr]
    BY <1>2, <2>1
  <2>3. f \in Seq(Instr)
    BY <1>1, <2>2, SeqDef
  <2>4. DOMAIN f = 1 .. Len(f) /\ Len(f) \in Nat
    BY <2>3, LenProperties
  <2> QED BY <1>1, <1>3, <2>3, <2>4
<1>5. Rightly(c, i, f)
  BY <1>1, <1>2, <1>3, <1>4, RightlySame DEF Right, m
<1> QED BY <1>2, <1>4, <1>5 DEF Right, f, m
-------------------------------------------------------------------------------
(***************************************************************************)
(* Stacks.                                                                 *)
(***************************************************************************)
LEMMA InsteadIs ==
  ASSUME NEW f \in Seq(Instr), NEW st \in Seq(Instr), st # <<>>
  PROVE  LET g == f \o Tail(st)
             m == Len(f)
             n == Len(st)
         IN  /\ g \in Seq(Instr) /\ m \in Nat /\ n \in Nat /\ n > 0
             /\ Len(g) = m + n - 1
             /\ \A i \in 1 .. m : g[i] = f[i]
             /\ \A i \in m + 1 .. m + n - 1 :
                  i - m + 1 \in 2 .. n /\ g[i] = st[i - m + 1]
             /\ \A i \in 2 .. n : g[i + m - 1] = st[i]
             /\ \A i \in 1 .. m + n - 1 : i \in 1 .. m \/ i \in m + 1 .. m + n - 1
<1> DEFINE g == f \o Tail(st)
           m == Len(f)
           n == Len(st)
           t == Tail(st)
<1>1. m \in Nat /\ n \in Nat /\ n > 0
  BY LenProperties, EmptySeq
<1>2. /\ t \in Seq(Instr) /\ Len(t) = n - 1
      /\ \A i \in 1 .. n - 1 : t[i] = st[i + 1]
  BY HeadTailProperties
<1> HIDE DEF t
<1>3. /\ g \in Seq(Instr) /\ Len(g) = m + Len(t)
      /\ \A i \in 1 .. m + Len(t) : g[i] = IF i <= m THEN f[i] ELSE t[i - m]
  BY <1>2, ConcatProperties DEF t
<1> HIDE DEF g, m, n
<1>4. \A i \in 1 .. m : g[i] = f[i]
  BY <1>1, <1>2, <1>3
<1>5. ASSUME NEW i \in m + 1 .. m + n - 1
      PROVE  i - m + 1 \in 2 .. n /\ g[i] = st[i - m + 1]
  <2>1. /\ i \in 1 .. m + Len(t) /\ ~ (i <= m) /\ i - m \in 1 .. n - 1
        /\ i - m + 1 \in 2 .. n
    BY <1>1, <1>2
  <2>2. t[i - m] = st[(i - m) + 1]
    BY <1>2, <2>1
  <2> QED BY <1>3, <2>1, <2>2
<1>6. ASSUME NEW i \in 2 .. n PROVE g[i + m - 1] = st[i]
  <2>1. i + m - 1 \in m + 1 .. m + n - 1 /\ (i + m - 1) - m + 1 = i
    BY <1>1
  <2> QED BY <1>5, <2>1
<1>7. \A i \in 1 .. m + n - 1 : i \in 1 .. m \/ i \in m + 1 .. m + n - 1
  BY <1>1
<1>8. Len(g) = m + n - 1
  BY <1>1, <1>2, <1>3
<1> QED BY <1>1, <1>3, <1>4, <1>5, <1>6, <1>7, <1>8 DEF g, m, n

LEMMA CutIs ==
  ASSUME NEW st \in Seq(Instr), NEW h \in 0 .. Len(st)
  PROVE  LET g == SubSeq(st, h + 1, Len(st))
             n == Len(st)
         IN  /\ g \in Seq(Instr) /\ n \in Nat /\ Len(g) = n - h
             /\ \A i \in 1 .. n - h : i + h \in h + 1 .. n /\ g[i] = st[i + h]
<1>1. Len(st) \in Nat
  BY LenProperties
<1>2. \A i \in h + 1 .. Len(st) : st[i] \in Instr
  BY <1>1, ElementOfSeq
<1> DEFINE g == SubSeq(st, h + 1, Len(st))
<1>3. /\ g \in Seq(Instr)
      /\ Len(g) = IF h + 1 <= Len(st) THEN Len(st) - (h + 1) + 1 ELSE 0
      /\ \A i \in 1 .. Len(st) - (h + 1) + 1 : g[i] = st[(h + 1) + i - 1]
  BY <1>1, <1>2, SubSeqProperties
<1> HIDE DEF g
<1>4. ASSUME NEW i \in 1 .. Len(st) - h
      PROVE  i + h \in h + 1 .. Len(st) /\ g[i] = st[i + h]
  <2>1. /\ i \in 1 .. Len(st) - (h + 1) + 1 /\ (h + 1) + i - 1 = i + h
        /\ i + h \in h + 1 .. Len(st)
    BY <1>1
  <2> QED BY <1>3, <2>1
<1> QED BY <1>1, <1>3, <1>4 DEF g

LEMMA TailIsCut ==
  ASSUME NEW st \in Seq(Instr), st # <<>>
  PROVE  /\ Tail(st) = SubSeq(st, 2, Len(st)) /\ Tail(st) = <<>> \o Tail(st)
         /\ Head(st) = st[1] /\ st[1] \in Instr /\ 1 \in 0 .. Len(st)
<1>1. Tail(st) = SubSeq(st, 2, Len(st))
  BY TailIsSubSeq
<1>2. Tail(st) \in Seq(Instr)
  BY HeadTailProperties
<1>3. Tail(st) = <<>> \o Tail(st)
  BY <1>2, ConcatEmptySeq
<1>4. Len(st) \in Nat /\ Len(st) > 0
  BY LenProperties, EmptySeq
<1>5. st[1] \in Instr
  BY <1>4, ElementOfSeq
<1> QED BY <1>1, <1>3, <1>4, <1>5
-------------------------------------------------------------------------------
(***************************************************************************)
(* The numbers of nodes filled in, b being the number of nodes before the  *)
(* statement and n that of the nodes there are.                            *)
(***************************************************************************)
FirstsFall(st, b, n) ==
  \A i \in 1 .. Len(st) : NodeLike(st[i]) =>
    /\ st[i].first \in b .. n
    /\ \A j \in i + 1 .. Len(st) : NodeLike(st[j]) => st[j].first <= st[i].first

\* What goes on from an operand comes behind what leaves one, or finds it in
\* value, the first node inside of which is number v + 1.
OperandsReady(st, b, n, v) ==
  \A i \in 1 .. Len(st) : GoesOn(st[i]) =>
    \/ \E k \in 1 .. i - 1 : Yields(st[k])
    \/ /\ b < n /\ v \in b .. n
       /\ \A j \in i + 1 .. Len(st) : NodeLike(st[j]) => st[j].first <= v

\* How a rule f is filled in, a being where its nodes begin.
Starts(f, a, n) ==
  \A k \in 1 .. Len(f) :
    /\ HasStart(f[k]) => f[k].first = a
    /\ f[k].op = "missing" => /\ f[k].first = n /\ k = Len(f)
                              /\ \A j \in 1 .. k - 1 : ~ NodeLike(f[j])

LEMMA FirstsFallInstead ==
  ASSUME NEW f \in Seq(Instr), NEW st \in Seq(Instr), st # <<>>,
         NEW b \in Nat, NEW n \in Nat, NEW a \in b .. n,
         FirstsFall(st, b, n), Starts(f, a, n),
         \A j \in 2 .. Len(st) : NodeLike(st[j]) => st[j].first <= a
  PROVE  FirstsFall(f \o Tail(st), b, n)
<1> DEFINE g == f \o Tail(st)
           m == Len(f)
           l == Len(st)
<1>1. /\ g \in Seq(Instr) /\ m \in Nat /\ l \in Nat /\ l > 0
      /\ Len(g) = m + l - 1
      /\ \A i \in 1 .. m : g[i] = f[i]
      /\ \A i \in m + 1 .. m + l - 1 :
           i - m + 1 \in 2 .. l /\ g[i] = st[i - m + 1]
      /\ \A i \in 1 .. m + l - 1 : i \in 1 .. m \/ i \in m + 1 .. m + l - 1
  BY InsteadIs
<1>2. \A i \in 1 .. m : f[i] \in Instr
  BY ElementOfSeq
<1> HIDE DEF g, m, l
<1> SUFFICES ASSUME NEW i \in 1 .. m + l - 1, NodeLike(g[i])
             PROVE  /\ g[i].first \in b .. n
                    /\ \A j \in i + 1 .. m + l - 1 :
                         NodeLike(g[j]) => g[j].first <= g[i].first
  BY <1>1 DEF FirstsFall, g
<1>3. \A j \in m + 1 .. m + l - 1 : NodeLike(g[j]) => g[j].first <= a
  BY <1>1 DEF l
<1>4. CASE i \in 1 .. m
  <2>1. HasStart(f[i]) \/ f[i].op = "missing"
    BY <1>1, <1>4 DEF NodeLike, HasStart
  <2>2. CASE HasStart(f[i])
    <3>1. g[i].first = a
      BY <1>1, <1>4, <2>2 DEF Starts, m
    <3>2. ASSUME NEW j \in i + 1 .. m, NodeLike(g[j]) PROVE g[j].first <= a
      <4>1. j \in 1 .. m /\ i \in 1 .. j - 1 /\ NodeLike(f[i])
        BY <1>1, <1>4, <2>2 DEF NodeLike, HasStart
      <4>2. f[j].op # "missing"
        BY <4>1 DEF Starts, m
      <4>3. HasStart(f[j])
        BY <1>1, <3>2, <4>1, <4>2 DEF NodeLike, HasStart
      <4> QED BY <1>1, <4>1, <4>3 DEF Starts, m
    <3>3. \A j \in i + 1 .. m + l - 1 : j \in i + 1 .. m \/ j \in m + 1 .. m + l - 1
      BY <1>1, <1>4
    <3> QED BY <1>3, <3>1, <3>2, <3>3
  <2>3. CASE f[i].op = "missing"
    <3>1. g[i].first = n /\ i = m
      BY <1>1, <1>4, <2>3 DEF Starts, m
    <3>2. ASSUME NEW j \in m + 1 .. m + l - 1, NodeLike(g[j]) PROVE g[j].first <= n
      <4>1. j - m + 1 \in 1 .. l /\ g[j] = st[j - m + 1]
        BY <1>1
      <4> QED BY <3>2, <4>1 DEF FirstsFall, l
    <3> QED BY <3>1, <3>2
  <2> QED BY <2>1, <2>2, <2>3
<1>5. CASE i \in m + 1 .. m + l - 1
  <2> DEFINE k == i - m + 1
  <2>1. k \in 1 .. l /\ g[i] = st[k]
    BY <1>1, <1>5
  <2>2. g[i].first \in b .. n
    BY <2>1 DEF FirstsFall, l
  <2>3. ASSUME NEW j \in i + 1 .. m + l - 1, NodeLike(g[j])
        PROVE  g[j].first <= g[i].first
    <3>1. j - m + 1 \in k + 1 .. l /\ g[j] = st[j - m + 1]
      BY <1>1, <1>5
    <3> QED BY <2>1, <2>3, <3>1 DEF FirstsFall, l
  <2> QED BY <2>2, <2>3
<1> QED BY <1>1, <1>4, <1>5

LEMMA FirstsFallCut ==
  ASSUME NEW st \in Seq(Instr), NEW h \in 0 .. Len(st), NEW b \in Nat,
         NEW n \in Nat, FirstsFall(st, b, n), NEW o \in Nat,
         \A i \in h + 1 .. Len(st) : NodeLike(st[i]) => st[i].first <= o
  PROVE  FirstsFall(SubSeq(st, h + 1, Len(st)), b, o)
<1> DEFINE g == SubSeq(st, h + 1, Len(st))
           l == Len(st)
<1>1. /\ g \in Seq(Instr) /\ l \in Nat /\ Len(g) = l - h
      /\ \A i \in 1 .. l - h : i + h \in h + 1 .. l /\ g[i] = st[i + h]
  BY CutIs
<1> HIDE DEF g, l
<1> SUFFICES ASSUME NEW i \in 1 .. l - h, NodeLike(g[i])
             PROVE  /\ g[i].first \in b .. o
                    /\ \A j \in i + 1 .. l - h :
                         NodeLike(g[j]) => g[j].first <= g[i].first
  BY <1>1 DEF FirstsFall, g
<1>2. i + h \in 1 .. l /\ i + h \in h + 1 .. l /\ g[i] = st[i + h]
  BY <1>1 DEF l
<1>3. st[i + h].first \in b .. n /\ st[i + h].first <= o
  BY <1>2 DEF FirstsFall, l
<1>4. ASSUME NEW j \in i + 1 .. l - h, NodeLike(g[j])
      PROVE  g[j].first <= g[i].first
  <2>1. j + h \in (i + h) + 1 .. l /\ g[j] = st[j + h]
    BY <1>1 DEF l
  <2> QED BY <1>2, <1>4, <2>1 DEF FirstsFall, l
<1> QED BY <1>2, <1>3, <1>4

LEMMA OperandsReadyInstead ==
  ASSUME NEW f \in Seq(Instr), NEW st \in Seq(Instr), st # <<>>,
         NEW b \in Nat, NEW n \in Nat, NEW v, OperandsReady(st, b, n, v),
         GoesOnRight(st[1], f)
  PROVE  OperandsReady(f \o Tail(st), b, n, v)
<1> DEFINE g == f \o Tail(st)
           m == Len(f)
           l == Len(st)
<1>1. /\ g \in Seq(Instr) /\ m \in Nat /\ l \in Nat /\ l > 0
      /\ Len(g) = m + l - 1
      /\ \A i \in 1 .. m : g[i] = f[i]
      /\ \A i \in m + 1 .. m + l - 1 :
           i - m + 1 \in 2 .. l /\ g[i] = st[i - m + 1]
      /\ \A i \in 2 .. l : g[i + m - 1] = st[i]
      /\ \A i \in 1 .. m + l - 1 : i \in 1 .. m \/ i \in m + 1 .. m + l - 1
  BY InsteadIs
<1>2. DOMAIN f = 1 .. m
  BY LenProperties
<1> HIDE DEF g, m, l
<1> SUFFICES ASSUME NEW i \in 1 .. m + l - 1, GoesOn(g[i])
             PROVE  \/ \E k \in 1 .. i - 1 : Yields(g[k])
                    \/ /\ b < n /\ v \in b .. n
                       /\ \A j \in i + 1 .. m + l - 1 :
                            NodeLike(g[j]) => g[j].first <= v
  BY <1>1 DEF OperandsReady, g
<1>3. CASE i \in 1 .. m
  <2>1. PICK k \in 1 .. i - 1 : Yields(f[k])
    BY <1>1, <1>2, <1>3 DEF GoesOnRight
  <2>2. k \in 1 .. m
    BY <1>1, <1>3
  <2> QED BY <1>1, <2>1, <2>2
<1>4. CASE i \in m + 1 .. m + l - 1
  <2> DEFINE p == i - m + 1
  <2>1. p \in 2 .. l /\ p \in 1 .. l /\ g[i] = st[p] /\ i = p + m - 1
    BY <1>1, <1>4
  <2> HIDE DEF p
  <2>2. \/ \E k \in 1 .. p - 1 : Yields(st[k])
        \/ /\ b < n /\ v \in b .. n
           /\ \A j \in p + 1 .. l : NodeLike(st[j]) => st[j].first <= v
    <3>1. GoesOn(st[p])
      BY <2>1
    <3> QED BY <2>1, <3>1 DEF OperandsReady, l
  <2>3. ASSUME NEW k \in 1 .. p - 1, Yields(st[k])
        PROVE  \E q \in 1 .. i - 1 : Yields(g[q])
    <3>1. CASE k = 1
      <4>1. PICK q \in 1 .. m : Yields(f[q])
        BY <1>2, <2>3, <3>1 DEF GoesOnRight
      <4>2. q \in 1 .. i - 1
        BY <1>1, <1>4
      <4> QED BY <1>1, <4>1, <4>2
    <3>2. CASE k # 1
      <4>1. k \in 2 .. l /\ k + m - 1 \in 1 .. i - 1
        BY <1>1, <1>4, <2>1, <3>2
      <4> QED BY <1>1, <2>3, <4>1
    <3> QED BY <3>1, <3>2
  <2>4. ASSUME \A j \in p + 1 .. l : NodeLike(st[j]) => st[j].first <= v,
               NEW j \in i + 1 .. m + l - 1, NodeLike(g[j])
        PROVE  g[j].first <= v
    <3>1. j \in m + 1 .. m + l - 1 /\ j - m + 1 \in p + 1 .. l
      BY <1>1, <2>1
    <3>2. g[j] = st[j - m + 1]
      BY <1>1, <3>1
    <3> QED BY <2>4, <3>1, <3>2
  <2> QED BY <2>2, <2>3, <2>4
<1> QED BY <1>1, <1>3, <1>4

LEMMA OperandsReadyCut ==
  ASSUME NEW st \in Seq(Instr), NEW h \in 0 .. Len(st), NEW b \in Nat,
         NEW n \in Nat, b < n, NEW v \in b .. n,
         \A i \in h + 1 .. Len(st) : NodeLike(st[i]) => st[i].first <= v
  PROVE  OperandsReady(SubSeq(st, h + 1, Len(st)), b, n, v)
<1> DEFINE g == SubSeq(st, h + 1, Len(st))
           l == Len(st)
<1>1. /\ g \in Seq(Instr) /\ l \in Nat /\ Len(g) = l - h
      /\ \A i \in 1 .. l - h : i + h \in h + 1 .. l /\ g[i] = st[i + h]
  BY CutIs
<1> HIDE DEF g, l
<1>2. \A j \in 1 .. l - h : NodeLike(g[j]) => g[j].first <= v
  BY <1>1 DEF l
<1>3. ASSUME NEW i \in 1 .. l - h, NEW j \in i + 1 .. l - h, NodeLike(g[j])
      PROVE  g[j].first <= v
  <2>1. j \in 1 .. l - h
    BY <1>1 DEF l
  <2> QED BY <1>2, <1>3, <2>1
<1> QED BY <1>1, <1>3 DEF OperandsReady, g
-------------------------------------------------------------------------------
(***************************************************************************)
(* What is left to do, by what the instructions are.                       *)
(***************************************************************************)
Awaits(i) == i.op = "missing" \/ Calls(i, {"expr_or_missing"})

\* Behind what may be missing a token is passed, before a node is allocated.
TokenBehind(st) ==
  \A h \in 1 .. Len(st) : Awaits(st[h]) =>
    \E k \in h + 1 .. Len(st) : /\ Consumes(st[k])
                                /\ \A j \in h + 1 .. k - 1 : ~ Settles(st[j])

TrailsBehind(st) ==
  \A i \in 1 .. Len(st) : Calls(st[i], Statements) =>
    \A j \in i + 1 .. Len(st) : Trails(st[j])

\* c is the kind of the current token, and "none" while the lexer reads.
GuardedFirst(st, c) ==
  \A i \in 1 .. Len(st) : Calls(st[i], Guarded) =>
    i = 1 /\ st[1].op = "parse" /\ c \notin {"none", "dedent"}

AdvancesFirst(st, c) ==
  \A i \in 1 .. Len(st) : st[i].op = "advance" =>
    IF i = 1
    THEN /\ c # "none"
         /\ \/ c # "dedent"
            \/ \A j \in 2 .. Len(st) : Trails(st[j])
            \/ Len(st) > 1 /\ Loops(st[2])
    ELSE st[i - 1].op = "complain" /\ i < Len(st) /\ Loops(st[i + 1])

\* The statement will be dropped, with the nodes it allocated.
Doomed(st, c) ==
  /\ c = "dedent" /\ Len(st) > 0 /\ FailsAtDedent(st[1])
  /\ \A i \in 1 .. Len(st) : st[i].op # "missing"

\* Where a Dedent was passed.
AtDedent(st, c) ==
  \/ \A j \in 1 .. Len(st) : Trails(st[j])
  \/ Doomed(st, c)
  \/ Len(st) > 0 /\ Loops(st[1])
  \/ /\ Len(st) > 0 /\ st[1].op = "advance"
     /\ \/ Len(st) > 1 /\ Loops(st[2])
        \/ \A j \in 2 .. Len(st) : Trails(st[j])
  \/ /\ Len(st) > 2 /\ st[1].op = "complain"
     /\ st[2].op = "advance" /\ Loops(st[3])

LEMMA TokenBehindInstead ==
  ASSUME NEW f \in Seq(Instr), NEW st \in Seq(Instr), st # <<>>,
         TokenBehind(st), MissingRight(st[1], f)
  PROVE  TokenBehind(f \o Tail(st))
<1> DEFINE g == f \o Tail(st)
           m == Len(f)
           l == Len(st)
<1>1. /\ g \in Seq(Instr) /\ m \in Nat /\ l \in Nat /\ l > 0
      /\ Len(g) = m + l - 1
      /\ \A i \in 1 .. m : g[i] = f[i]
      /\ \A i \in m + 1 .. m + l - 1 :
           i - m + 1 \in 2 .. l /\ g[i] = st[i - m + 1]
      /\ \A i \in 2 .. l : g[i + m - 1] = st[i]
      /\ \A i \in 1 .. m + l - 1 : i \in 1 .. m \/ i \in m + 1 .. m + l - 1
  BY InsteadIs
<1>2. DOMAIN f = 1 .. m
  BY LenProperties
<1> HIDE DEF g, m, l
<1> SUFFICES ASSUME NEW i \in 1 .. m + l - 1, Awaits(g[i])
             PROVE  \E k \in i + 1 .. m + l - 1 :
                      /\ Consumes(g[k])
                      /\ \A j \in i + 1 .. k - 1 : ~ Settles(g[j])
  BY <1>1 DEF TokenBehind, g
\* A witness for an instruction of the old stack is one in the new.
<1>3. ASSUME NEW p \in 1 .. l, Awaits(st[p]), i \in m .. m + l - 1, i = p + m - 1
      PROVE  \E k \in i + 1 .. m + l - 1 :
               /\ Consumes(g[k])
               /\ \A j \in i + 1 .. k - 1 : ~ Settles(g[j])
  <2>1. PICK k \in p + 1 .. l : /\ Consumes(st[k])
                                /\ \A j \in p + 1 .. k - 1 : ~ Settles(st[j])
    BY <1>3 DEF TokenBehind, l
  <2>2. k \in 2 .. l /\ k + m - 1 \in i + 1 .. m + l - 1
    BY <1>1, <1>3, <2>1
  <2>3. Consumes(g[k + m - 1])
    BY <1>1, <2>1, <2>2
  <2>4. ASSUME NEW j \in i + 1 .. (k + m - 1) - 1 PROVE ~ Settles(g[j])
    <3>1. j \in m + 1 .. m + l - 1 /\ j - m + 1 \in p + 1 .. k - 1
      BY <1>1, <1>3, <2>1, <2>2
    <3> QED BY <1>1, <2>1, <3>1
  <2> QED BY <2>2, <2>3, <2>4
<1>4. CASE i \in 1 .. m
  <2>1. Awaits(f[i])
    BY <1>1, <1>4
  <2>2. CASE f[i].op = "missing"
    <3>1. i = m /\ Calls(st[1], {"expr_or_missing"})
      BY <1>2, <1>4, <2>2 DEF MissingRight, m
    <3>2. Awaits(st[1]) /\ 1 \in 1 .. l /\ i \in m .. m + l - 1 /\ i = 1 + m - 1
      BY <1>1, <3>1 DEF Awaits
    <3> QED BY <1>3, <3>2
  <2>3. CASE Calls(f[i], {"expr_or_missing"})
    <3>1. PICK k \in i + 1 .. m : /\ Consumes(f[k])
                                  /\ \A j \in i + 1 .. k - 1 : ~ Settles(f[j])
      BY <1>2, <1>4, <2>3 DEF MissingRight, m
    <3>2. /\ k \in 1 .. m /\ k \in i + 1 .. m + l - 1
          /\ \A j \in i + 1 .. k - 1 : j \in 1 .. m
      BY <1>1, <1>4, <3>1
    <3>3. Consumes(g[k]) /\ \A j \in i + 1 .. k - 1 : ~ Settles(g[j])
      BY <1>1, <3>1, <3>2
    <3> QED BY <3>2, <3>3
  <2> QED BY <2>1, <2>2, <2>3 DEF Awaits
<1>5. CASE i \in m + 1 .. m + l - 1
  <2>1. PICK p \in 2 .. l : p = i - m + 1 /\ g[i] = st[p]
    BY <1>1, <1>5
  <2>2. p \in 1 .. l /\ i \in m .. m + l - 1 /\ i = p + m - 1 /\ Awaits(st[p])
    BY <1>1, <1>5, <2>1
  <2> QED BY <1>3, <2>2
<1> QED BY <1>1, <1>4, <1>5

LEMMA TokenBehindCut ==
  ASSUME NEW st \in Seq(Instr), NEW h \in 0 .. Len(st), TokenBehind(st)
  PROVE  TokenBehind(SubSeq(st, h + 1, Len(st)))
<1> DEFINE g == SubSeq(st, h + 1, Len(st))
           l == Len(st)
<1>1. /\ g \in Seq(Instr) /\ l \in Nat /\ Len(g) = l - h
      /\ \A i \in 1 .. l - h : i + h \in h + 1 .. l /\ g[i] = st[i + h]
  BY CutIs
<1> HIDE DEF g, l
<1> SUFFICES ASSUME NEW i \in 1 .. l - h, Awaits(g[i])
             PROVE  \E k \in i + 1 .. l - h :
                      /\ Consumes(g[k])
                      /\ \A j \in i + 1 .. k - 1 : ~ Settles(g[j])
  BY <1>1 DEF TokenBehind, g
<1>2. i + h \in 1 .. l /\ Awaits(st[i + h])
  BY <1>1 DEF l
<1>3. PICK k \in i + h + 1 .. l : /\ Consumes(st[k])
                                  /\ \A j \in i + h + 1 .. k - 1 : ~ Settles(st[j])
  BY <1>2 DEF TokenBehind, l
<1>4. k - h \in i + 1 .. l - h /\ k - h \in 1 .. l - h /\ (k - h) + h = k
  BY <1>1, <1>3 DEF l
<1>5. Consumes(g[k - h])
  BY <1>1, <1>3, <1>4
<1>6. ASSUME NEW j \in i + 1 .. (k - h) - 1 PROVE ~ Settles(g[j])
  <2>1. j \in 1 .. l - h /\ j + h \in i + h + 1 .. k - 1
    BY <1>1, <1>3, <1>4 DEF l
  <2> QED BY <1>1, <1>3, <2>1
<1> QED BY <1>4, <1>5, <1>6

LEMMA TrailsBehindInstead ==
  ASSUME NEW f \in Seq(Instr), NEW st \in Seq(Instr), st # <<>>,
         TrailsBehind(st), TrailsRight(st[1], f)
  PROVE  TrailsBehind(f \o Tail(st))
<1> DEFINE g == f \o Tail(st)
           m == Len(f)
           l == Len(st)
<1>1. /\ g \in Seq(Instr) /\ m \in Nat /\ l \in Nat /\ l > 0
      /\ Len(g) = m + l - 1
      /\ \A i \in 1 .. m : g[i] = f[i]
      /\ \A i \in m + 1 .. m + l - 1 :
           i - m + 1 \in 2 .. l /\ g[i] = st[i - m + 1]
      /\ \A i \in 2 .. l : g[i + m - 1] = st[i]
      /\ \A i \in 1 .. m + l - 1 : i \in 1 .. m \/ i \in m + 1 .. m + l - 1
  BY InsteadIs
<1>2. DOMAIN f = 1 .. m
  BY LenProperties
<1> HIDE DEF g, m, l
<1> SUFFICES ASSUME NEW i \in 1 .. m + l - 1, Calls(g[i], Statements),
                    NEW j \in i + 1 .. m + l - 1
             PROVE  Trails(g[j])
  BY <1>1 DEF TrailsBehind, g
<1>3. CASE i \in 1 .. m
  <2>1. Calls(f[i], Statements) /\ i \in DOMAIN f
    BY <1>1, <1>2, <1>3
  <2>2. CASE j \in 1 .. m
    <3>1. j \in i + 1 .. Len(f)
      BY <1>1, <1>3, <2>2 DEF m
    <3> QED BY <1>1, <2>1, <2>2, <3>1 DEF TrailsRight
  <2>3. CASE j \in m + 1 .. m + l - 1
    <3>1. Calls(st[1], Statements)
      BY <2>1 DEF TrailsRight
    <3>2. j - m + 1 \in 1 + 1 .. l /\ 1 \in 1 .. l /\ g[j] = st[j - m + 1]
      BY <1>1, <2>3
    <3> QED BY <3>1, <3>2 DEF TrailsBehind, l
  <2>4. j \in 1 .. m + l - 1
    BY <1>1
  <2> QED BY <1>1, <2>2, <2>3, <2>4
<1>4. CASE i \in m + 1 .. m + l - 1
  <2>1. PICK p \in 2 .. l : p = i - m + 1 /\ g[i] = st[p]
    BY <1>1, <1>4
  <2>2. /\ p \in 1 .. l /\ j \in m + 1 .. m + l - 1
        /\ j - m + 1 \in p + 1 .. l
    BY <1>1, <1>4, <2>1
  <2>3. g[j] = st[j - m + 1] /\ Calls(st[p], Statements)
    BY <1>1, <2>1, <2>2
  <2> QED BY <2>2, <2>3 DEF TrailsBehind, l
<1> QED BY <1>1, <1>3, <1>4

LEMMA TrailsBehindCut ==
  ASSUME NEW st \in Seq(Instr), NEW h \in 0 .. Len(st), TrailsBehind(st)
  PROVE  TrailsBehind(SubSeq(st, h + 1, Len(st)))
<1> DEFINE g == SubSeq(st, h + 1, Len(st))
           l == Len(st)
<1>1. /\ g \in Seq(Instr) /\ l \in Nat /\ Len(g) = l - h
      /\ \A i \in 1 .. l - h : i + h \in h + 1 .. l /\ g[i] = st[i + h]
  BY CutIs
<1> HIDE DEF g, l
<1> SUFFICES ASSUME NEW i \in 1 .. l - h, Calls(g[i], Statements),
                    NEW j \in i + 1 .. l - h
             PROVE  Trails(g[j])
  BY <1>1 DEF TrailsBehind, g
<1>2. i + h \in 1 .. l /\ j \in 1 .. l - h /\ j + h \in (i + h) + 1 .. l
  BY <1>1 DEF l
<1>3. Calls(st[i + h], Statements) /\ g[j] = st[j + h]
  BY <1>1, <1>2
<1> QED BY <1>2, <1>3 DEF TrailsBehind, l

LEMMA GuardedFirstInstead ==
  ASSUME NEW f \in Seq(Instr), NEW st \in Seq(Instr), st # <<>>,
         NEW c \in Kinds, c # "none",
         GuardedFirst(st, c), AdvancesRight(c, st[1], f)
  PROVE  GuardedFirst(f \o Tail(st), c)
<1> DEFINE g == f \o Tail(st)
           m == Len(f)
           l == Len(st)
<1>1. /\ g \in Seq(Instr) /\ m \in Nat /\ l \in Nat /\ l > 0
      /\ Len(g) = m + l - 1
      /\ \A i \in 1 .. m : g[i] = f[i]
      /\ \A i \in m + 1 .. m + l - 1 :
           i - m + 1 \in 2 .. l /\ g[i] = st[i - m + 1]
      /\ \A i \in 2 .. l : g[i + m - 1] = st[i]
      /\ \A i \in 1 .. m + l - 1 : i \in 1 .. m \/ i \in m + 1 .. m + l - 1
  BY InsteadIs
<1>2. DOMAIN f = 1 .. m
  BY LenProperties
<1> HIDE DEF g, m, l
<1> SUFFICES ASSUME NEW i \in 1 .. m + l - 1, Calls(g[i], Guarded)
             PROVE  i = 1 /\ g[1].op = "parse" /\ c \notin {"none", "dedent"}
  BY <1>1 DEF GuardedFirst, g
<1>3. CASE i \in 1 .. m
  <2>1. i \in DOMAIN f /\ Calls(f[i], Guarded)
    BY <1>1, <1>2, <1>3
  <2>2. i = 1 /\ f[1].op = "parse" /\ c # "dedent"
    BY <2>1 DEF AdvancesRight
  <2> QED BY <1>1, <1>3, <2>2
<1>4. CASE i \in m + 1 .. m + l - 1
  <2>1. PICK p \in 2 .. l : p = i - m + 1 /\ g[i] = st[p]
    BY <1>1, <1>4
  <2>2. p \in 1 .. l /\ p # 1
    BY <1>1, <2>1
  <2> QED BY <2>1, <2>2 DEF GuardedFirst, l
<1> QED BY <1>1, <1>3, <1>4

LEMMA GuardedFirstCut ==
  ASSUME NEW st \in Seq(Instr), NEW h \in 0 .. Len(st), h > 0, NEW c, NEW d,
         GuardedFirst(st, c)
  PROVE  GuardedFirst(SubSeq(st, h + 1, Len(st)), d)
<1> DEFINE g == SubSeq(st, h + 1, Len(st))
           l == Len(st)
<1>1. /\ g \in Seq(Instr) /\ l \in Nat /\ Len(g) = l - h
      /\ \A i \in 1 .. l - h : i + h \in h + 1 .. l /\ g[i] = st[i + h]
  BY CutIs
<1> HIDE DEF g, l
<1> SUFFICES ASSUME NEW i \in 1 .. l - h, Calls(g[i], Guarded) PROVE FALSE
  BY <1>1 DEF GuardedFirst, g
<1>2. i + h \in 1 .. l /\ i + h # 1 /\ Calls(st[i + h], Guarded)
  BY <1>1 DEF l
<1> QED BY <1>2 DEF GuardedFirst, l

LEMMA AdvancesFirstInstead ==
  ASSUME NEW f \in Seq(Instr), NEW st \in Seq(Instr), st # <<>>,
         NEW c \in Kinds, c # "none", st[1].op # "complain",
         GuardedFirst(st, c), TrailsBehind(st), AdvancesFirst(st, c),
         AdvancesRight(c, st[1], f)
  PROVE  AdvancesFirst(f \o Tail(st), c)
<1> DEFINE g == f \o Tail(st)
           m == Len(f)
           l == Len(st)
<1>1. /\ g \in Seq(Instr) /\ m \in Nat /\ l \in Nat /\ l > 0
      /\ Len(g) = m + l - 1
      /\ \A i \in 1 .. m : g[i] = f[i]
      /\ \A i \in m + 1 .. m + l - 1 :
           i - m + 1 \in 2 .. l /\ g[i] = st[i - m + 1]
      /\ \A i \in 2 .. l : g[i + m - 1] = st[i]
      /\ \A i \in 1 .. m + l - 1 : i \in 1 .. m \/ i \in m + 1 .. m + l - 1
  BY InsteadIs
<1>2. DOMAIN f = 1 .. m
  BY LenProperties
<1> HIDE DEF g, m, l
<1>0. Calls(st[1], {"stmts"}) => \A j \in 2 .. l : Trails(st[j])
  <2>1. Calls(st[1], {"stmts"}) => Calls(st[1], Statements)
    BY DEF Calls, Statements
  <2>2. 1 \in 1 .. l /\ 1 + 1 = 2
    BY <1>1
  <2> QED BY <2>1, <2>2 DEF TrailsBehind, l
<1> SUFFICES ASSUME NEW i \in 1 .. m + l - 1, g[i].op = "advance"
             PROVE  IF i = 1
                    THEN \/ c # "dedent"
                         \/ \A j \in 2 .. m + l - 1 : Trails(g[j])
                         \/ m + l - 1 > 1 /\ Loops(g[2])
                    ELSE /\ g[i - 1].op = "complain" /\ i < m + l - 1
                         /\ Loops(g[i + 1])
  BY <1>1 DEF AdvancesFirst, g
<1>3. CASE i \in 1 .. m /\ i = 1
  <2>1. i \in DOMAIN f /\ f[i].op = "advance" /\ i = 1
    BY <1>1, <1>2, <1>3
  <2>2. \/ c # "dedent" \/ Calls(st[1], Guarded)
        \/ Calls(st[1], {"stmts"}) /\ m = 1
        \/ m > 1 /\ Loops(f[2])
    BY <2>1 DEF AdvancesRight, m
  <2>3. CASE Calls(st[1], Guarded)
    <3>1. 1 \in 1 .. l
      BY <1>1
    <3> QED BY <1>3, <2>3, <3>1 DEF GuardedFirst, l
  <2>4. CASE Calls(st[1], {"stmts"}) /\ m = 1
    <3>1. ASSUME NEW j \in 2 .. m + l - 1 PROVE Trails(g[j])
      <4>1. j \in m + 1 .. m + l - 1 /\ g[j] = st[j - m + 1] /\ j - m + 1 \in 2 .. l
        BY <1>1, <2>4
      <4> QED BY <1>0, <2>4, <4>1
    <3> QED BY <1>3, <3>1
  <2>5. CASE m > 1 /\ Loops(f[2])
    <3>1. 2 \in 1 .. m /\ m + l - 1 > 1
      BY <1>1, <2>5
    <3> QED BY <1>1, <1>3, <2>5, <3>1
  <2> QED BY <1>3, <2>2, <2>3, <2>4, <2>5
<1>4. CASE i \in 1 .. m /\ i # 1
  <2>1. i \in DOMAIN f /\ f[i].op = "advance" /\ i # 1
    BY <1>1, <1>2, <1>4
  <2>2. f[i - 1].op = "complain" /\ i < m /\ Loops(f[i + 1])
    BY <2>1 DEF AdvancesRight, m
  <2>3. i - 1 \in 1 .. m /\ i + 1 \in 1 .. m /\ i < m + l - 1
    BY <1>1, <1>4, <2>2
  <2> QED BY <1>1, <1>4, <2>2, <2>3
<1>5. CASE i \in m + 1 .. m + l - 1
  <2>1. PICK p \in 2 .. l : p = i - m + 1 /\ g[i] = st[p]
    BY <1>1, <1>5
  <2>2. p \in 1 .. l /\ p # 1
    BY <1>1, <2>1
  <2>3. st[p - 1].op = "complain" /\ p < l /\ Loops(st[p + 1])
    BY <2>1, <2>2 DEF AdvancesFirst, l
  <2>4. p # 2
    BY <2>1, <2>3
  <2>5. /\ p - 1 \in 2 .. l /\ p + 1 \in 2 .. l
        /\ (p - 1) + m - 1 = i - 1 /\ (p + 1) + m - 1 = i + 1
        /\ i < m + l - 1 /\ i # 1
    BY <1>1, <1>5, <2>1, <2>3, <2>4
  <2>6. g[i - 1] = st[p - 1] /\ g[i + 1] = st[p + 1]
    BY <1>1, <2>5
  <2> QED BY <2>3, <2>5, <2>6
<1> QED BY <1>1, <1>3, <1>4, <1>5

LEMMA AdvancesFirstCut ==
  ASSUME NEW st \in Seq(Instr), NEW h \in 1 .. Len(st), NEW c, NEW d,
         AdvancesFirst(st, c), st[h].op = "complain" => d # "none"
  PROVE  AdvancesFirst(SubSeq(st, h + 1, Len(st)), d)
<1>0. h \in 0 .. Len(st) /\ h > 0
  BY LenProperties
<1> DEFINE g == SubSeq(st, h + 1, Len(st))
           l == Len(st)
<1>1. /\ g \in Seq(Instr) /\ l \in Nat /\ Len(g) = l - h
      /\ \A i \in 1 .. l - h : i + h \in h + 1 .. l /\ g[i] = st[i + h]
  BY CutIs
<1> HIDE DEF g, l
<1> SUFFICES ASSUME NEW i \in 1 .. l - h, g[i].op = "advance"
             PROVE  IF i = 1
                    THEN /\ d # "none"
                         /\ l - h > 1 /\ Loops(g[2])
                    ELSE /\ g[i - 1].op = "complain" /\ i < l - h
                         /\ Loops(g[i + 1])
  BY <1>1 DEF AdvancesFirst, g
<1>2. i + h \in 1 .. l /\ i + h # 1 /\ st[i + h].op = "advance"
  BY <1>0, <1>1 DEF l
<1>3. /\ st[(i + h) - 1].op = "complain" /\ i + h < l
      /\ Loops(st[(i + h) + 1])
  BY <1>2 DEF AdvancesFirst, l
<1>4. i + 1 \in 1 .. l - h /\ (i + 1) + h = (i + h) + 1 /\ i < l - h
  BY <1>0, <1>1, <1>3, SMTT(30) DEF l
<1>5. Loops(g[i + 1])
  BY <1>1, <1>3, <1>4
<1>6. CASE i = 1
  <2>1. (i + h) - 1 = h /\ i + 1 = 2 /\ l - h > 1
    BY <1>0, <1>1, <1>4, <1>6 DEF l
  <2> QED BY <1>3, <1>5, <1>6, <2>1
<1>7. CASE i # 1
  <2>1. i - 1 \in 1 .. l - h /\ (i - 1) + h = (i + h) - 1
    BY <1>0, <1>1, <1>7 DEF l
  <2> QED BY <1>1, <1>3, <1>4, <1>5, <1>7, <2>1
<1> QED BY <1>6, <1>7

LEMMA AtDedentInstead ==
  ASSUME NEW f \in Seq(Instr), NEW st \in Seq(Instr), st # <<>>,
         AtDedent(st, "dedent"), Rightly("dedent", st[1], f),
         st[1].op \notin {"advance", "complain", "fail", "node"}
  PROVE  AtDedent(f \o Tail(st), "dedent")
<1> DEFINE g == f \o Tail(st)
           m == Len(f)
           l == Len(st)
<1>1. /\ g \in Seq(Instr) /\ m \in Nat /\ l \in Nat /\ l > 0
      /\ Len(g) = m + l - 1
      /\ \A i \in 1 .. m : g[i] = f[i]
      /\ \A i \in m + 1 .. m + l - 1 :
           i - m + 1 \in 2 .. l /\ g[i] = st[i - m + 1]
      /\ \A i \in 2 .. l : g[i + m - 1] = st[i]
      /\ \A i \in 1 .. m + l - 1 : i \in 1 .. m \/ i \in m + 1 .. m + l - 1
  BY InsteadIs
<1>2. DOMAIN f = 1 .. m
  BY LenProperties
<1> HIDE DEF g, m, l
<1>3. /\ Calls(st[1], Chain) \/ st[1].op = "binop" =>
           m > 0 /\ FailsAtDedent(f[1]) /\ \A n \in 1 .. m : f[n].op # "missing"
      /\ Loops(st[1]) =>
           /\ m > 1
           /\ \/ f[1].op = "advance"
              \/ f[1].op = "complain" /\ m > 2 /\ f[2].op = "advance"
      /\ Trails(st[1]) =>
           \A n \in 1 .. m : Trails(f[n]) \/ (f[n].op = "advance" /\ m = 1)
  BY <1>2 DEF Rightly, DedentRight, m
<1>4. \A n \in 1 .. m : f[n].op = "advance" =>
        IF n = 1
        THEN \/ Calls(st[1], Guarded)
             \/ Calls(st[1], {"stmts"}) /\ m = 1
             \/ m > 1 /\ Loops(f[2])
        ELSE f[n - 1].op = "complain" /\ n < m /\ Loops(f[n + 1])
  BY <1>2 DEF Rightly, AdvancesRight, m
<1>5. CASE \A j \in 1 .. l : Trails(st[j])
  <2>1. \A i \in m + 1 .. m + l - 1 : Trails(g[i])
    <3>1. \A j \in 2 .. l : j \in 1 .. l
      BY <1>1
    <3> QED BY <1>1, <1>5, <3>1
  <2>2. 1 \in 1 .. l
    BY <1>1
  <2>3. CASE \A n \in 1 .. m : Trails(f[n])
    <3>1. \A i \in 1 .. m + l - 1 : Trails(g[i])
      BY <1>1, <2>1, <2>3
    <3> QED BY <1>1, <3>1 DEF AtDedent, g
  <2>4. CASE ~ \A n \in 1 .. m : Trails(f[n])
    <3>1. m = 1 /\ f[1].op = "advance"
      BY <1>1, <1>3, <1>5, <2>2, <2>4
    <3>2. g[1].op = "advance" /\ Len(g) > 0
      BY <1>1, <3>1
    <3>3. \A j \in 2 .. Len(g) : j \in m + 1 .. m + l - 1
      BY <1>1, <3>1
    <3>4. \A j \in 2 .. Len(g) : Trails(g[j])
      BY <2>1, <3>3
    <3> QED BY <3>2, <3>4 DEF AtDedent, g
  <2> QED BY <2>3, <2>4
<1>6. CASE Doomed(st, "dedent")
  <2>1. Calls(st[1], Chain) \/ st[1].op = "binop"
    BY <1>6 DEF Doomed, FailsAtDedent
  <2>2. m > 0 /\ FailsAtDedent(f[1]) /\ \A n \in 1 .. m : f[n].op # "missing"
    BY <1>3, <2>1
  <2>3. \A i \in m + 1 .. m + l - 1 : g[i].op # "missing"
    <3>1. \A j \in 2 .. l : j \in 1 .. l
      BY <1>1
    <3> QED BY <1>1, <1>6, <3>1 DEF Doomed, l
  <2>4. Len(g) > 0 /\ 1 \in 1 .. m
    BY <1>1, <2>2
  <2>5. Doomed(g, "dedent")
    BY <1>1, <2>2, <2>3, <2>4 DEF Doomed
  <2> QED BY <2>5 DEF AtDedent, g
<1>7. CASE l > 0 /\ Loops(st[1])
  <2>1. ~ Calls(st[1], Guarded) /\ ~ Calls(st[1], {"stmts"})
    BY <1>7 DEF Loops, Calls, Guarded
  <2>2. CASE f[1].op = "advance"
    <3>1. 1 \in 1 .. m /\ 2 \in 1 .. m /\ Len(g) > 1 /\ Len(g) > 0
      BY <1>1, <1>3, <1>7
    <3>2. Loops(f[2])
      BY <1>4, <2>1, <2>2, <3>1
    <3>3. g[1].op = "advance" /\ Loops(g[2])
      BY <1>1, <2>2, <3>1, <3>2
    <3> QED BY <3>1, <3>3 DEF AtDedent, g
  <2>3. CASE f[1].op = "complain" /\ m > 2 /\ f[2].op = "advance"
    <3>1. 1 \in 1 .. m /\ 2 \in 1 .. m /\ 3 \in 1 .. m /\ Len(g) > 2
      BY <1>1, <2>3
    <3>2. Loops(f[2 + 1])
      BY <1>4, <2>3, <3>1
    <3>3. /\ g[1].op = "complain" /\ g[2].op = "advance" /\ Loops(g[3])
      BY <1>1, <2>3, <3>1, <3>2
    <3> QED BY <3>1, <3>3 DEF AtDedent, g
  <2> QED BY <1>3, <1>7, <2>2, <2>3
<1> QED BY <1>5, <1>6, <1>7 DEF AtDedent, l, g

\* What may come first there.
LEMMA FirstAtDedent ==
  ASSUME NEW st \in Seq(Instr), st # <<>>, NEW c, AtDedent(st, c)
  PROVE  /\ st[1].op \in {"parse", "within", "spec", "node", "advance",
                          "complain", "binop", "fail"}
         /\ st[1].op \in {"binop", "fail"} => Doomed(st, c)
         /\ st[1].op = "node" => \A j \in 1 .. Len(st) : Trails(st[j])
         /\ st[1].op = "complain" =>
              Len(st) > 2 /\ st[2].op = "advance" /\ Loops(st[3])
         /\ st[1].op \in {"parse", "within"} =>
              \/ Trails(st[1]) \/ Doomed(st, c) \/ Loops(st[1])
<1>1. Len(st) \in Nat /\ Len(st) > 0 /\ 1 \in 1 .. Len(st)
  BY LenProperties, EmptySeq
<1>2. CASE \A j \in 1 .. Len(st) : Trails(st[j])
  BY <1>1, <1>2 DEF Trails, Calls
<1>3. CASE Doomed(st, c)
  BY <1>3 DEF Doomed, FailsAtDedent, Calls
<1>4. CASE Loops(st[1])
  BY <1>4 DEF Loops, Calls
<1>5. CASE st[1].op = "advance"
  BY <1>5
<1>6. CASE /\ Len(st) > 2 /\ st[1].op = "complain"
           /\ st[2].op = "advance" /\ Loops(st[3])
  BY <1>6
<1> QED BY <1>2, <1>3, <1>4, <1>5, <1>6 DEF AtDedent
-------------------------------------------------------------------------------
(***************************************************************************)
(* Tokens.                                                                 *)
(***************************************************************************)
Lexemes == [kind : Kinds \cup {"none"}, start : Nat, end : Nat]

\* What the lexer has still to return: comments, and the token d once more
\* when it is a Dedent.
Waiting(s, d) ==
  \A i \in DOMAIN s.pending :
    LET k == s.pending[i]
    IN  /\ k.kind = "comment" \/ (k.kind = "dedent" /\ k = d)
        /\ k.start <= k.end /\ k.end <= s.pos

TokensOK ==
  /\ source \in Seq(STRING) /\ LexerOK(source, lexer) /\ reading \in BOOLEAN
  /\ current \in Lexemes /\ previous \in Lexemes /\ origin \in Nat
  /\ ~ reading => /\ current.kind \in Kinds /\ current.kind # "none"
                  /\ current.start <= current.end /\ current.end <= lexer.pos
                  /\ previous.end <= current.start \/ previous = current
  /\ previous.start <= previous.end /\ previous.end <= lexer.pos
  /\ Waiting(lexer, IF reading THEN previous ELSE current)
  /\ origin <= previous.start

LEMMA KindsAreRead ==
  /\ Kind \cup {"eof"} \subseteq Kinds
  /\ "none" \notin Kind \cup {"eof"}
<1>1. TwoByteKind \subseteq {w[3] : w \in TwoBytes}
  <2> SUFFICES ASSUME NEW k \in TwoByteKind
               PROVE  \E w \in TwoBytes : w[3] = k
    OBVIOUS
  <2>1. \E a, b : <<a, b, k>> \in TwoBytes
    BY DEF TwoByteKind, TwoBytes
  <2>2. PICK a, b : <<a, b, k>> \in TwoBytes
    BY <2>1
  <2> QED BY <2>2
<1>2. PlainKind \subseteq Kinds
  <2>1. Keyword \cup OneByte \cup TwoByteKind \subseteq Kinds
    BY <1>1 DEF Kinds
  <2>2. {"...", "comment", "name", "int", "float", "string", "fstart", "fend",
         "flit", "error"} \subseteq Kinds
    BY DEF Kinds
  <2> QED BY <2>1, <2>2 DEF PlainKind
<1>3. Opener \cup Closer \cup {"newline", "indent", "dedent", "eof"} \subseteq Kinds
  BY DEF Kinds
<1>4. "none" \notin Opener \cup Closer
  BY Zenon DEF Opener, Closer
<1>5. "none" \notin Keyword /\ "none" \notin TwoByteKind
  BY DEF Keyword, TwoByteKind
<1>6. "none" \notin OneByte
  BY Zenon DEF OneByte
<1>7. "none" \notin PlainKind
  BY <1>5, <1>6 DEF PlainKind
<1> QED BY <1>2, <1>3, <1>4, <1>7 DEF Kind

\* A token that the lexer reads behind d, the token read before.
LEMMA TokenIsRead ==
  ASSUME NEW t \in Seq(STRING), NEW s, LexerOK(t, s), NEW d \in Lexemes,
         d.end <= s.pos, Waiting(s, d)
  PROVE  LET n == NextToken(t, s)
         IN  /\ LexerOK(t, n.lexer) /\ n.token \in Lexemes
             /\ n.token.kind \in Kinds /\ n.token.kind # "none"
             /\ s.pos <= n.lexer.pos
             /\ n.token.start <= n.token.end /\ n.token.end <= n.lexer.pos
             /\ \/ d.end <= n.token.start \/ n.token.kind = "comment"
                \/ n.token = d /\ d.kind = "dedent"
             /\ Waiting(n.lexer, IF n.token.kind = "comment" THEN d ELSE n.token)
<1> DEFINE n == NextToken(t, s)
<1>1. /\ s \in LexerState /\ s.pos \in Nat /\ s.pending \in Seq(Tok)
      /\ d.end \in Nat
  BY DEF LexerOK, LexerState, Lexemes
<1>2. \A k \in Tok : k \in Lexemes /\ k.kind \in Kinds /\ k.kind # "none"
  BY KindsAreRead DEF Tok, Lexemes
<1>3. CASE s.pending # <<>>
  <2>1. n = Popped(s)
    BY <1>3 DEF NextToken
  <2>2. /\ n.lexer \in LexerState /\ n.token \in Tok
        /\ Append(n.lexer.pending, n.token) = s.pending
        /\ n.lexer.pos = s.pos /\ n.lexer.depth = s.depth
        /\ n.lexer.indents = s.indents /\ n.lexer.done = s.done
    BY <1>1, <1>3, <2>1, PoppedState
  <2> HIDE DEF n
  <2> DEFINE p == n.lexer.pending
  <2>3. /\ p \in Seq(Tok) /\ Len(p) \in Nat /\ DOMAIN p = 1 .. Len(p)
        /\ DOMAIN s.pending = 1 .. Len(p) + 1
        /\ s.pending[Len(p) + 1] = n.token
        /\ \A i \in 1 .. Len(p) : s.pending[i] = p[i]
    BY <2>2, LenProperties, AppendProperties DEF LexerState
  <2> HIDE DEF p
  <2>4. /\ n.token.kind = "comment" \/ (n.token = d /\ d.kind = "dedent")
        /\ n.token.start <= n.token.end /\ n.token.end <= s.pos
    BY <2>3 DEF Waiting
  <2>5. Waiting(n.lexer, IF n.token.kind = "comment" THEN d ELSE n.token)
    <3> SUFFICES ASSUME NEW i \in DOMAIN n.lexer.pending
                 PROVE  LET k == n.lexer.pending[i]
                        IN  /\ k.kind = "comment" \/ (k.kind = "dedent" /\ k = d)
                            /\ k.start <= k.end /\ k.end <= n.lexer.pos
      BY <2>4 DEF Waiting
    <3>1. i \in DOMAIN s.pending /\ s.pending[i] = n.lexer.pending[i]
      BY <2>3 DEF p
    <3> QED BY <2>2, <3>1 DEF Waiting
  <2>6. LexerOK(t, n.lexer)
    BY <2>2 DEF LexerOK
  <2>7. n.token \in Lexemes /\ n.token.kind \in Kinds /\ n.token.kind # "none"
    BY <1>2, <2>2
  <2> QED BY <1>1, <2>2, <2>4, <2>5, <2>6, <2>7 DEF n
<1>4. CASE s.pending = <<>>
  <2>1. Called(t, s.pos, s, n)
    BY <1>4, TextStep
  <2> HIDE DEF n
  <2>2. /\ LexerOK(t, n.lexer) /\ s.pos <= n.lexer.pos
        /\ n.lexer.pos \in Nat /\ n.lexer.pending \in Seq(Tok)
    BY <2>1 DEF Called, LexerOK, LexerState
  <2>3. CASE TextOver(t, s.pos, s, n)
    <3>1. /\ n.token \in [kind : {"eof"}, start : {n.lexer.pos}, end : {n.lexer.pos}]
          /\ n.lexer.pending = <<>>
      BY <2>3 DEF TextOver
    <3>2. /\ n.token \in Lexemes /\ n.token.kind \in Kinds
          /\ n.token.kind # "none"
      BY <2>2, <3>1, KindsAreRead DEF Lexemes
    <3>3. Waiting(n.lexer, n.token)
      BY <3>1 DEF Waiting
    <3> QED BY <1>1, <2>2, <3>1, <3>2, <3>3 DEF n
  <2>4. CASE Returns(t, s.pos, s, n)
    <3> DEFINE p == n.lexer.pending
               q == Append(p, n.token)
    <3>1. /\ n.token \in Tok /\ LieIn(q, s.pos, n.lexer.pos)
          /\ Reads(t, s, n) \/ \E e, m : ClosesBlocks(t, s, n, e, m)
      BY <2>4 DEF Returns
    <3>2. /\ p \in Seq(Tok) /\ Len(p) \in Nat /\ DOMAIN p = 1 .. Len(p)
          /\ DOMAIN q = 1 .. Len(p) + 1 /\ Len(q) = Len(p) + 1
          /\ q[Len(p) + 1] = n.token
          /\ \A i \in 1 .. Len(p) : q[i] = p[i]
      BY <2>2, <3>1, LenProperties, AppendProperties
    <3> HIDE DEF p, q
    <3>3. /\ s.pos <= n.token.start /\ n.token.start <= n.token.end
          /\ n.token.end <= n.lexer.pos
      BY <3>1, <3>2 DEF LieIn
    <3>4. \A i \in 1 .. Len(p) : p[i].start <= p[i].end /\ p[i].end <= n.lexer.pos
      BY <3>1, <3>2 DEF LieIn
    <3>5. CASE Reads(t, s, n)
      <4>1. \A i \in 1 .. Len(p) : p[i].kind = "comment"
        BY <3>2, <3>5 DEF Reads, Comments, p
      <4>2. \A e : Waiting(n.lexer, e)
        BY <3>2, <3>4, <4>1 DEF Waiting, p
      <4> QED BY <1>1, <1>2, <2>2, <3>1, <3>3, <4>2 DEF n, Lexemes
    <3>6. ASSUME NEW e, NEW m, ClosesBlocks(t, s, n, e, m)
          PROVE  Waiting(n.lexer, IF n.token.kind = "comment" THEN d ELSE n.token)
      <4>1. /\ e.kind = "dedent" /\ m \in 0 .. Len(q)
            /\ \A i \in 1 .. Len(q) : IF i <= Len(q) - m THEN q[i].kind = "comment"
                                      ELSE q[i] = e
        BY <3>6 DEF ClosesBlocks, Stack, p, q
      <4>2. CASE m = 0
        <5>1. \A i \in 1 .. Len(p) : p[i].kind = "comment"
          BY <3>2, <4>1, <4>2
        <5> QED BY <3>2, <3>4, <5>1 DEF Waiting, p
      <4>3. CASE m > 0
        <5>1. n.token = e
          BY <3>2, <4>1, <4>3
        <5>2. \A i \in 1 .. Len(p) : p[i].kind = "comment" \/ p[i] = e
          BY <3>2, <4>1
        <5> QED BY <3>2, <3>4, <4>1, <5>1, <5>2 DEF Waiting, p
      <4> QED BY <3>2, <4>1, <4>2, <4>3
    <3> QED BY <1>1, <1>2, <2>2, <3>1, <3>3, <3>5, <3>6 DEF n, Lexemes
  <2> QED BY <2>1, <2>3, <2>4 DEF Called
<1> QED BY <1>3, <1>4
-------------------------------------------------------------------------------
(***************************************************************************)
(* The types of the rest, and the numbers of nodes on the stack.           *)
(***************************************************************************)
Branches ==
  [kind : Words \cup {"module"}, start : Nat, end : Nat, first : Nat]

TreeOK ==
  /\ phase \in {"start", "module", "statement", "sync", "dedented", "parsed",
                "failed"}
  /\ errors \in Nat /\ value \in Branches /\ nodes \in Seq(Branches)
  /\ before \in [start : Nat, nodes : Nat] /\ before.nodes <= Len(nodes)

StackOK ==
  /\ stack \in Seq(Instr)
  /\ phase \notin {"statement", "failed"} => stack = <<>>
  /\ FirstsFall(stack, before.nodes, Len(nodes))
  /\ OperandsReady(stack, before.nodes, Len(nodes), value.first)

LEMMA EmptyStack ==
  /\ <<>> \in Seq(Instr)
  /\ \A b, n : FirstsFall(<<>>, b, n)
  /\ \A b, n, v : OperandsReady(<<>>, b, n, v)
BY DEF FirstsFall, OperandsReady

LEMMA StatementStack ==
  /\ <<Parse("stmt")>> \in Seq(Instr)
  /\ \A b, n : FirstsFall(<<Parse("stmt")>>, b, n)
  /\ \A b, n, v : OperandsReady(<<Parse("stmt")>>, b, n, v)
<1> DEFINE p == Parse("stmt")
<1>1. "stmt" \in RuleNames \ (Direct \cup Joining)
  BY DEF RuleNames, Direct, Joining
<1>2. p \in Instr /\ p.op = "parse"
  BY <1>1, ParseIs
<1> HIDE DEF p
<1> DEFINE s == <<p>>
<1>3. s \in Seq(Instr) /\ Len(s) = 1 /\ s[1] = p
  BY <1>2
<1> HIDE DEF s
<1>4. \A i \in 1 .. Len(s) : ~ NodeLike(s[i]) /\ ~ GoesOn(s[i])
  BY <1>2, <1>3 DEF NodeLike, GoesOn
<1>5. \A b, n : FirstsFall(s, b, n)
  BY <1>4 DEF FirstsFall
<1>6. \A b, n, v : OperandsReady(s, b, n, v)
  BY <1>4 DEF OperandsReady
<1> QED BY <1>3, <1>5, <1>6 DEF s, p

\* A rule f takes the place of the instruction, and its nodes start at a, with
\* those inside from n.
Replaced(f, a, n) ==
  /\ phase = "statement" /\ ~ reading /\ stack # <<>>
  /\ stack[1].op \notin {"advance", "fail", "node", "join"}
  /\ stack[1].op = "complain" => f = <<>>
  /\ Right(current.kind, stack[1], f) /\ stack' = f \o Tail(stack)
  /\ a \in Nat /\ n \in Nat
  /\ \A k \in 1 .. Len(f) :
       /\ HasStart(f[k]) => f[k].at = a /\ f[k].first = n
       /\ f[k].op = "missing" => f[k].first = Len(nodes)
  /\ \/ /\ stack[1].op \in {"within", "keyword"}
        /\ a = stack[1].at /\ n = stack[1].first
     \/ GoesOn(stack[1]) /\ a = value.start /\ n = value.first
     \/ /\ ~ GoesOn(stack[1]) /\ stack[1].op \notin {"within", "keyword"}
        /\ a = current.start /\ n = Len(nodes)

LEMMA EnterReplaces ==
  ASSUME TokensOK, TreeOK, StackOK, Enter
  PROVE  \E f, a, n : Replaced(f, a, n)
<1> DEFINE top == stack[1]
           rule == Expansion(top, current.kind)
<1>1. /\ phase = "statement" /\ ~ reading /\ stack # <<>>
      /\ Head(stack) = top /\ top \in Instr
  BY TailIsCut DEF Enter, StackOK
<1>2. top.op \in {"parse", "within", "rest", "opt", "list", "more", "binop",
                  "restBinop", "spec", "keyword"}
  BY <1>1 DEF Enter, Top
<1>3. current.kind \in Kinds /\ current.start \in Nat
  BY <1>1 DEF TokensOK, Lexemes
<1>4. Right(current.kind, top, rule)
  BY <1>1, <1>2, <1>3, ExpansionIsRight
<1>5. /\ top.at \in Nat /\ top.first \in Nat
      /\ value.start \in Nat /\ value.first \in Nat
      /\ Len(nodes) \in Nat
  BY <1>1, LenProperties DEF Instr, TreeOK, Branches
<1> DEFINE filled == CASE Top.op \in {"within", "keyword"} ->
                            Filled(Expansion(Top, current.kind), Top.at, Top.first)
                       [] GoesOn(Top) ->
                            Filled(Expansion(Top, current.kind), value.start,
                                   value.first)
                       [] OTHER -> Filled(Expansion(Top, current.kind),
                                          current.start, Len(nodes))
<1>6. stack' = filled \o Tail(stack) /\ Top = top
  BY <1>1 DEF Enter, Top
<1>7. GoesOn(top) <=> top.op \in {"rest", "restBinop"}
  BY DEF GoesOn
<1> HIDE DEF rule
<1>8. ASSUME NEW a \in Nat, NEW n \in Nat,
             filled = Filled(rule, a, n),
             \/ top.op \in {"within", "keyword"} /\ a = top.at /\ n = top.first
             \/ GoesOn(top) /\ a = value.start /\ n = value.first
             \/ /\ ~ GoesOn(top) /\ top.op \notin {"within", "keyword"}
                /\ a = current.start /\ n = Len(nodes)
      PROVE  \E g : Replaced(g, a, n)
  <2> DEFINE f == Filled(rule, a, n)
  <2>1. /\ Right(current.kind, top, f)
        /\ \A k \in 1 .. Len(f) :
             /\ HasStart(f[k]) => f[k].at = a /\ f[k].first = n
             /\ f[k].op = "missing" => f[k].first = Len(nodes)
    BY <1>4, <1>5, FilledIs
  <2>2. stack' = f \o Tail(stack)
    BY <1>6, <1>8
  <2> HIDE DEF f, filled
  <2>3. Replaced(f, a, n)
    BY <1>1, <1>2, <1>8, <2>1, <2>2 DEF Replaced
  <2> QED BY <2>3
<1>9. /\ top.op \in {"within", "keyword"} => filled = Filled(rule, top.at, top.first)
      /\ GoesOn(top) => filled = Filled(rule, value.start, value.first)
      /\ top.op \notin {"within", "keyword"} /\ ~ GoesOn(top)
           => filled = Filled(rule, current.start, Len(nodes))
  BY <1>6, <1>7 DEF rule
<1> HIDE DEF filled
<1>10. CASE top.op \in {"within", "keyword"}
  BY <1>5, <1>8, <1>9, <1>10
<1>11. CASE GoesOn(top)
  BY <1>5, <1>8, <1>9, <1>11
<1>12. CASE top.op \notin {"within", "keyword"} /\ ~ GoesOn(top)
  BY <1>3, <1>5, <1>8, <1>9, <1>12
<1> QED BY <1>10, <1>11, <1>12

\* Instructions that are done without a token.
PassOver ==
  \/ NewlineImplied \/ RecoverMissing \/ CloseMissing \/ ComplainAndGoOn
  \/ NotMissing

LEMMA PassOverReplaces ==
  ASSUME TokensOK, TreeOK, StackOK, PassOver
  PROVE  Replaced(<<>>, current.start, Len(nodes))
<1>1. /\ phase = "statement" /\ ~ reading /\ stack # <<>>
      /\ Top.op \in {"newline", "recover", "close", "complain", "missing"}
      /\ stack' = Tail(stack)
  BY DEF PassOver, NewlineImplied, RecoverMissing, CloseMissing,
         ComplainAndGoOn, NotMissing, Executing
<1>2. /\ Top = stack[1] /\ stack[1] \in Instr
      /\ Tail(stack) = <<>> \o Tail(stack)
  BY <1>1, TailIsCut DEF StackOK, Top
<1>3. current.start \in Nat /\ Len(nodes) \in Nat
  BY LenProperties DEF TokensOK, Lexemes, TreeOK
<1>4. Right(current.kind, stack[1], <<>>)
  BY <1>1, <1>2, NothingIsRight
<1> DEFINE s == <<>>
<1>5. Len(s) = 0
  OBVIOUS
<1> HIDE DEF s
<1>6. Replaced(s, current.start, Len(nodes))
  BY <1>1, <1>2, <1>3, <1>4, <1>5 DEF Replaced, GoesOn, s
<1> QED BY <1>6 DEF s

LEMMA StackReplaced ==
  ASSUME TokensOK, TreeOK, StackOK, NEW f, NEW a, NEW n, Replaced(f, a, n),
         UNCHANGED <<phase, value, nodes, before>>
  PROVE  StackOK'
<1> DEFINE b == before.nodes
           l == Len(nodes)
<1>1. /\ stack \in Seq(Instr) /\ f \in Seq(Instr) /\ stack # <<>>
      /\ b \in Nat /\ l \in Nat /\ b <= l /\ n \in Nat
      /\ value.first \in Nat /\ 1 \in 1 .. Len(stack)
      /\ Len(f) \in Nat /\ DOMAIN f = 1 .. Len(f) /\ Len(stack) \in Nat
  BY LenProperties, EmptySeq
     DEF StackOK, TreeOK, Replaced, Right, Branches
<1>2. GoesOnRight(stack[1], f) /\ MissingRight(stack[1], f)
  BY DEF Replaced, Right, Rightly
<1>3. Starts(f, n, l)
  BY <1>1, <1>2 DEF Starts, Replaced, MissingRight
<1>4. /\ n \in b .. l
      /\ \A j \in 2 .. Len(stack) : NodeLike(stack[j]) => stack[j].first <= n
  <2>1. CASE stack[1].op \in {"within", "keyword"} /\ n = stack[1].first
    BY <1>1, <2>1 DEF StackOK, FirstsFall, NodeLike
  <2>2. CASE GoesOn(stack[1]) /\ n = value.first
    BY <1>1, <2>2 DEF StackOK, OperandsReady
  <2>3. CASE n = l
    <3>1. \A j \in 2 .. Len(stack) : NodeLike(stack[j]) => stack[j].first <= l
      BY <1>1 DEF StackOK, FirstsFall
    <3> QED BY <1>1, <2>3, <3>1
  <2> QED BY <2>1, <2>2, <2>3 DEF Replaced
<1> DEFINE st == f \o Tail(stack)
<1>5. stack' = st /\ st \in Seq(Instr)
  BY <1>1, InsteadIs DEF Replaced
<1>6. FirstsFall(st, b, l)
  BY <1>1, <1>3, <1>4, FirstsFallInstead DEF StackOK
<1>7. OperandsReady(st, b, l, value.first)
  BY <1>1, <1>2, OperandsReadyInstead DEF StackOK
<1>8. phase = "statement"
  BY DEF Replaced
<1> QED BY <1>5, <1>6, <1>7, <1>8 DEF StackOK

\* An instruction that passes a token is done, and leaves nothing to do.
LEMMA ConsumeDone ==
  ASSUME StackOK, Consume
  PROVE  /\ phase = "statement" /\ ~ reading /\ stack # <<>>
         /\ stack[1] \in Instr /\ Head(stack) = stack[1]
         /\ stack[1].op \in {"advance", "expect", "recover", "close", "newline"}
         /\ stack[1].op \in {"expect", "recover", "close"} =>
              current.kind = stack[1].arg
         /\ stack[1].op = "newline" => current.kind = "newline"
         /\ stack' = SubSeq(stack, 2, Len(stack))
         /\ stack' = <<>> \o Tail(stack)
         /\ Advances
<1>1. /\ phase = "statement" /\ ~ reading /\ stack # <<>>
      /\ stack' = Tail(stack) /\ Advances
  BY DEF Consume, Executing
<1>2. /\ Top = stack[1] /\ stack[1] \in Instr /\ Head(stack) = stack[1]
      /\ Tail(stack) = <<>> \o Tail(stack)
      /\ Tail(stack) = SubSeq(stack, 2, Len(stack))
  BY <1>1, TailIsCut DEF StackOK, Top
<1> QED BY <1>1, <1>2 DEF Consume, Executing

LEMMA StackConsumed ==
  ASSUME TreeOK, StackOK, Consume
  PROVE  StackOK'
<1> DEFINE s == <<>>
           b == before.nodes
           l == Len(nodes)
<1>1. s \in Seq(Instr) /\ Len(s) = 0 /\ DOMAIN s = {}
  OBVIOUS
<1> HIDE DEF s
<1>2. /\ stack' = s \o Tail(stack) /\ stack # <<>> /\ phase = "statement"
      /\ stack[1].op \in {"advance", "expect", "recover", "close", "newline"}
      /\ UNCHANGED <<nodes, value, before, phase>>
  BY ConsumeDone DEF s, Consume
<1>3. GoesOnRight(stack[1], s)
  BY <1>1, <1>2 DEF GoesOnRight, Yields, Calls
<1>4. /\ b \in Nat /\ l \in Nat /\ b <= l /\ stack \in Seq(Instr)
      /\ Len(stack) \in Nat
  BY LenProperties DEF TreeOK, StackOK
<1>5. Starts(s, l, l)
  BY <1>1 DEF Starts
<1>6. \A j \in 2 .. Len(stack) : NodeLike(stack[j]) => stack[j].first <= l
  BY <1>4 DEF StackOK, FirstsFall
<1> DEFINE st == s \o Tail(stack)
<1>7. st \in Seq(Instr)
  BY <1>1, <1>2, <1>4, InsteadIs
<1>8. FirstsFall(st, b, l)
  <2>1. FirstsFall(stack, b, l) /\ l \in b .. l
    BY <1>4 DEF StackOK
  <2> HIDE DEF b, l
  <2> QED BY <1>1, <1>2, <1>4, <1>5, <1>6, <2>1, FirstsFallInstead
<1>9. OperandsReady(st, b, l, value.first)
  BY <1>1, <1>2, <1>3, <1>4, OperandsReadyInstead DEF StackOK
<1> QED BY <1>2, <1>7, <1>8, <1>9 DEF StackOK

\* The stack is cut behind an instruction that allocates a node, o being the
\* number of nodes then.
LEMMA StackCut ==
  ASSUME TreeOK, StackOK, NEW h \in 1 .. Len(stack), NodeLike(stack[h]),
         stack' = SubSeq(stack, h + 1, Len(stack)), NEW o \in Nat,
         phase = "statement",
         o > stack[h].first, Len(nodes') = o, value'.first = stack[h].first,
         UNCHANGED <<before, phase>>
  PROVE  StackOK' /\ before.nodes < o
<1> DEFINE b == before.nodes
           l == Len(nodes)
           v == stack[h].first
<1>1. /\ b \in Nat /\ l \in Nat /\ stack \in Seq(Instr) /\ Len(stack) \in Nat
      /\ h \in 0 .. Len(stack)
  BY LenProperties DEF TreeOK, StackOK
<1>2. /\ v \in b .. l
      /\ \A i \in h + 1 .. Len(stack) : NodeLike(stack[i]) => stack[i].first <= v
  BY DEF StackOK, FirstsFall
<1>3. v \in b .. o /\ b < o /\ v <= o
  BY <1>1, <1>2
<1> HIDE DEF v, l, b
<1>4. ASSUME NEW i \in h + 1 .. Len(stack), NodeLike(stack[i])
      PROVE  stack[i].first <= o
  <2>1. stack[i].first \in b .. l
    BY <1>1, <1>4 DEF StackOK, FirstsFall, b, l
  <2> QED BY <1>1, <1>2, <1>3, <1>4, <2>1
<1> DEFINE st == SubSeq(stack, h + 1, Len(stack))
<1>5. st \in Seq(Instr)
  BY <1>1, CutIs
<1>6. FirstsFall(st, b, o)
  BY <1>1, <1>4, FirstsFallCut DEF StackOK, b, l
<1>7. OperandsReady(st, b, o, v)
  BY <1>1, <1>2, <1>3, OperandsReadyCut
<1> QED BY <1>3, <1>5, <1>6, <1>7 DEF StackOK, b, v

LEMMA Allocated ==
  ASSUME TokensOK, TreeOK, StackOK, Allocate
  PROVE  /\ phase = "statement" /\ ~ reading /\ stack # <<>>
         /\ stack[1] \in Instr /\ stack[1].op \in {"node", "join"}
         /\ stack' = SubSeq(stack, 2, Len(stack))
         /\ \E k \in Words :
              /\ value' = TheNode(k, stack[1].at,
                                  IF stack[1].op = "join" THEN value.end
                                  ELSE previous.end, stack[1].first)
              /\ nodes' = Append(nodes, value')
         /\ Len(nodes) \in Nat /\ Len(nodes') = Len(nodes) + 1
         /\ value' \in Branches /\ nodes' \in Seq(Branches)
         /\ value'.start = stack[1].at /\ value'.first = stack[1].first
         /\ value'.end = IF stack[1].op = "join" THEN value.end ELSE previous.end
         /\ \A m \in 1 .. Len(nodes) : nodes'[m] = nodes[m]
         /\ nodes'[Len(nodes) + 1] = value'
<1>1. /\ phase = "statement" /\ ~ reading /\ stack # <<>>
      /\ Top.op \in {"node", "join"} /\ stack' = Tail(stack)
  BY DEF Allocate, Executing
<1>2. /\ Top = stack[1] /\ stack[1] \in Instr
      /\ Tail(stack) = SubSeq(stack, 2, Len(stack))
  BY <1>1, TailIsCut DEF StackOK, Top
<1> DEFINE k == IF Top.op = "join" THEN "other" ELSE Top.arg
<1>3. /\ stack[1].at \in Nat /\ stack[1].first \in Nat
      /\ stack[1].op # "join" => stack[1].arg \in Words
      /\ value.end \in Nat /\ previous.end \in Nat
  BY <1>1, <1>2 DEF Instr, MayCall, TreeOK, Branches, TokensOK, Lexemes
<1>4. k \in Words
  BY <1>1, <1>2, <1>3 DEF Words
<1>5. /\ value' = TheNode(k, Top.at, EndOf(Top), Top.first)
      /\ nodes' = Append(nodes, value')
  BY DEF Allocate
<1> HIDE DEF k
<1>6. EndOf(Top) = IF stack[1].op = "join" THEN value.end ELSE previous.end
  BY <1>2 DEF EndOf
<1>7. /\ value' \in Branches
      /\ value'.start = stack[1].at /\ value'.first = stack[1].first
      /\ value'.end = IF stack[1].op = "join" THEN value.end ELSE previous.end
  BY <1>2, <1>3, <1>4, <1>5, <1>6 DEF TheNode, Branches
<1>8. /\ nodes' \in Seq(Branches) /\ Len(nodes) \in Nat
      /\ Len(nodes') = Len(nodes) + 1
      /\ \A m \in 1 .. Len(nodes) : nodes'[m] = nodes[m]
      /\ nodes'[Len(nodes) + 1] = value'
  BY <1>5, <1>7, AppendProperties, LenProperties DEF TreeOK
<1> QED BY <1>1, <1>2, <1>4, <1>5, <1>6, <1>7, <1>8

LEMMA HandlerIs ==
  ASSUME StackOK, Handlers # {}
  PROVE  LET h == Min(Handlers)
         IN  /\ h \in 1 .. Len(stack) /\ stack[h] \in Instr
             /\ stack[h].op = "missing"
             /\ \A i \in 1 .. h - 1 : stack[i].op # "missing"
<1>1. stack \in Seq(Instr) /\ Len(stack) \in Nat /\ DOMAIN stack = 1 .. Len(stack)
  BY LenProperties DEF StackOK
<1>2. /\ Handlers \subseteq Nat
      /\ \A i : i \in Handlers <=> i \in 1 .. Len(stack) /\ stack[i].op = "missing"
  BY <1>1 DEF Handlers
<1> HIDE DEF Handlers
<1>3. \E x \in Handlers : \A y \in Handlers : x <= y
  BY <1>2, LeastNumber
<1> DEFINE h == Min(Handlers)
<1>4. h \in Handlers /\ \A y \in Handlers : h <= y
  BY <1>3 DEF Min
<1> HIDE DEF h
<1>5. \A i \in 1 .. h - 1 : stack[i].op # "missing"
  BY <1>1, <1>2, <1>4
<1>6. stack[h] \in Instr
  BY <1>1, <1>2, <1>4, ElementOfSeq
<1> QED BY <1>2, <1>4, <1>5, <1>6 DEF h

LEMMA FailingIs ==
  ASSUME Failing
  PROVE  phase = "statement" /\ ~ reading /\ stack # <<>>
BY DEF Failing, Executing

LEMMA MissingPut ==
  ASSUME TokensOK, TreeOK, StackOK, PutMissing
  PROVE  LET h == Min(Handlers)
             v == stack[h].first
         IN  /\ phase = "statement" /\ ~ reading /\ stack # <<>>
             /\ h \in 1 .. Len(stack) /\ stack[h] \in Instr
             /\ stack[h].op = "missing"
             /\ v \in before.nodes .. Len(nodes) /\ v \in Nat
             /\ stack' = SubSeq(stack, h + 1, Len(stack))
             /\ nodes' \in Seq(Branches) /\ Len(nodes') = v + 1
             /\ \A m \in 1 .. v : nodes'[m] = nodes[m]
             /\ nodes'[v + 1] = value' /\ value' \in Branches
             /\ value'.start = current.start /\ value'.end = current.start
             /\ value'.first = v
<1> DEFINE h == Min(Handlers)
           v == stack[h].first
           short == SubSeq(nodes, 1, v)
<1>1. /\ h \in 1 .. Len(stack) /\ stack[h] \in Instr
      /\ stack[h].op = "missing"
  BY HandlerIs DEF PutMissing
<1>2. phase = "statement" /\ ~ reading /\ stack # <<>>
  BY FailingIs DEF PutMissing
<1>3. /\ value' = TheNode("name", current.start, current.start, v)
      /\ nodes' = Append(short, value')
      /\ stack' = SubSeq(stack, h + 1, Len(stack))
  BY DEF PutMissing
<1> HIDE DEF h
<1>4. v \in before.nodes .. Len(nodes) /\ v \in Nat
  BY <1>1 DEF StackOK, TreeOK, FirstsFall, NodeLike
<1>5. /\ value' \in Branches /\ value'.start = current.start
      /\ value'.end = current.start /\ value'.first = v
  BY <1>3, <1>4 DEF TheNode, Branches, TokensOK, Lexemes, Words
<1>6. /\ short \in Seq(Branches) /\ Len(short) = v
      /\ \A m \in 1 .. v : short[m] = nodes[m]
  <2>1. nodes \in Seq(Branches) /\ Len(nodes) \in Nat
    BY LenProperties DEF TreeOK
  <2>2. \A i \in 1 .. v : nodes[i] \in Branches
    BY <1>4, <2>1, ElementOfSeq
  <2>3. /\ short \in Seq(Branches)
        /\ Len(short) = IF 1 <= v THEN v - 1 + 1 ELSE 0
        /\ \A i \in 1 .. v - 1 + 1 : short[i] = nodes[1 + i - 1]
    BY <1>4, <2>1, <2>2, SubSeqProperties
  <2> HIDE DEF v, short
  <2> QED BY <1>4, <2>3
<1>7. /\ nodes' \in Seq(Branches) /\ Len(nodes') = v + 1
      /\ \A m \in 1 .. v : nodes'[m] = nodes[m]
      /\ nodes'[v + 1] = value'
  BY <1>3, <1>5, <1>6, AppendProperties
<1> QED BY <1>1, <1>2, <1>3, <1>4, <1>5, <1>7 DEF h

LEMMA StackInductive ==
  ASSUME TokensOK, TreeOK, StackOK, [Next]_vars
  PROVE  StackOK'
<1>1. CASE Enter
  <2>1. \E f, a, n : Replaced(f, a, n)
    BY <1>1, EnterReplaces
  <2>2. UNCHANGED <<phase, value, nodes, before>>
    BY <1>1 DEF Enter
  <2> QED BY <2>1, <2>2, StackReplaced
<1>2. CASE PassOver
  <2>1. \E f, a, n : Replaced(f, a, n)
    BY <1>2, PassOverReplaces
  <2>2. UNCHANGED <<phase, value, nodes, before>>
    BY <1>2 DEF PassOver, NewlineImplied, RecoverMissing, CloseMissing,
                ComplainAndGoOn, NotMissing
  <2> QED BY <2>1, <2>2, StackReplaced
<1>3. CASE Consume
  BY <1>3, StackConsumed
<1>4. CASE Allocate
  <2>1. /\ phase = "statement" /\ 1 \in 1 .. Len(stack) /\ NodeLike(stack[1])
        /\ stack' = SubSeq(stack, 1 + 1, Len(stack))
        /\ Len(nodes) \in Nat /\ Len(nodes') = Len(nodes) + 1
        /\ value'.first = stack[1].first
    BY <1>4, Allocated, LenProperties, EmptySeq DEF StackOK, NodeLike
  <2>2. stack[1].first <= Len(nodes) /\ stack[1].first \in Nat
    BY <2>1 DEF StackOK, FirstsFall, TreeOK
  <2>3. UNCHANGED <<before, phase>>
    BY <1>4 DEF Allocate
  <2>4. Len(nodes) + 1 > stack[1].first /\ Len(nodes) + 1 \in Nat
    BY <2>1, <2>2
  <2> QED BY <2>1, <2>3, <2>4, StackCut
<1>5. CASE PutMissing
  <2> DEFINE h == Min(Handlers)
             v == stack[h].first
  <2>1. /\ phase = "statement" /\ h \in 1 .. Len(stack) /\ NodeLike(stack[h])
        /\ stack' = SubSeq(stack, h + 1, Len(stack))
        /\ v \in Nat /\ Len(nodes') = v + 1 /\ value'.first = v
    BY <1>5, MissingPut DEF NodeLike
  <2>2. UNCHANGED <<before, phase>>
    BY <1>5 DEF PutMissing
  <2> HIDE DEF h
  <2>3. v + 1 > v /\ v + 1 \in Nat
    BY <2>1
  <2> QED BY <2>1, <2>2, <2>3, StackCut
<1>6. CASE DropStatement
  BY <1>6, EmptyStack DEF DropStatement, StackOK
<1>7. CASE NextStatement
  <2>1. CASE current.kind = "newline"
    BY <1>7, <2>1 DEF NextStatement, StackOK
  <2>2. CASE current.kind # "newline"
    <3>1. stack' = <<Parse("stmt")>> /\ phase' = "statement"
      BY <1>7, <2>2 DEF NextStatement
    <3> QED BY <3>1, StatementStack DEF StackOK
  <2> QED BY <2>1, <2>2
<1>8. CASE Start \/ StatementDone \/ ModuleDone \/ Synchronize \/ SyncAfterDedent
  <2>1. stack = <<>> /\ stack' = <<>>
    BY <1>8 DEF Start, StatementDone, ModuleDone, Synchronize, SyncAfterDedent,
                StackOK
  <2> QED BY <2>1, EmptyStack DEF StackOK
<1>9. CASE GiveUp \/ Read \/ UNCHANGED vars
  <2>1. /\ UNCHANGED <<stack, nodes, value, before>>
        /\ phase' = phase \/ phase' = "failed"
    BY <1>9 DEF GiveUp, Read, vars
  <2> QED BY <2>1 DEF StackOK
<1> QED BY <1>1, <1>2, <1>3, <1>4, <1>5, <1>6, <1>7, <1>8, <1>9
        DEF Next, Step, PassOver

LEMMA TreeInductive ==
  ASSUME TokensOK, TreeOK, StackOK, MaxErrors \in Nat, [Next]_vars
  PROVE  TreeOK'
<1>1. Len(nodes) \in Nat /\ before.nodes \in Nat
  BY LenProperties DEF TreeOK
<1>2. Report => errors' \in Nat
  BY DEF Report, Least, TreeOK
<1>3. CASE Enter \/ PassOver \/ Consume \/ GiveUp \/ Read \/ UNCHANGED vars
           \/ Start \/ StatementDone \/ Synchronize \/ SyncAfterDedent
  <2>1. UNCHANGED <<nodes, value, before>>
    BY <1>3 DEF Enter, PassOver, NewlineImplied, RecoverMissing, CloseMissing,
                ComplainAndGoOn, NotMissing, Consume, GiveUp, Read, vars, Start,
                StatementDone, Synchronize, SyncAfterDedent
  <2>2. errors' = errors \/ Report
    BY <1>3 DEF Enter, PassOver, NewlineImplied, RecoverMissing, CloseMissing,
                ComplainAndGoOn, NotMissing, Consume, GiveUp, Read, vars, Start,
                StatementDone, Synchronize, SyncAfterDedent
  <2>3. phase' = phase \/ phase' \in {"module", "statement", "dedented", "sync",
                                      "failed"}
    BY <1>3 DEF Enter, PassOver, NewlineImplied, RecoverMissing, CloseMissing,
                ComplainAndGoOn, NotMissing, Consume, GiveUp, Read, vars, Start,
                StatementDone, Synchronize, SyncAfterDedent
  <2> QED BY <1>2, <2>1, <2>2, <2>3 DEF TreeOK
<1>4. CASE Allocate
  <2>1. /\ value' \in Branches /\ nodes' \in Seq(Branches)
        /\ Len(nodes') = Len(nodes) + 1
    BY <1>4, Allocated
  <2>2. UNCHANGED <<phase, errors, before>>
    BY <1>4 DEF Allocate
  <2> QED BY <1>1, <2>1, <2>2 DEF TreeOK
<1>5. CASE PutMissing
  <2>1. /\ value' \in Branches /\ nodes' \in Seq(Branches)
        /\ \E v \in Nat : before.nodes <= v /\ Len(nodes') = v + 1
    BY <1>1, <1>5, MissingPut
  <2>2. UNCHANGED <<phase, before>> /\ Report
    BY <1>5 DEF PutMissing
  <2> QED BY <1>1, <1>2, <2>1, <2>2 DEF TreeOK
<1>6. CASE DropStatement
  <2>1. /\ nodes' = SubSeq(nodes, 1, before.nodes) /\ phase' = "sync" /\ Report
        /\ UNCHANGED <<value, before>>
    BY <1>6 DEF DropStatement
  <2>2. nodes' \in Seq(Branches) /\ Len(nodes') = before.nodes
    <3>1. \A i \in 1 .. before.nodes : nodes[i] \in Branches
      BY <1>1, ElementOfSeq DEF TreeOK
    <3>2. /\ nodes' \in Seq(Branches)
          /\ Len(nodes') = IF 1 <= before.nodes THEN before.nodes - 1 + 1 ELSE 0
      BY <1>1, <2>1, <3>1, SubSeqProperties
    <3> QED BY <1>1, <3>2
  <2> QED BY <1>1, <1>2, <2>1, <2>2 DEF TreeOK
<1>7. CASE NextStatement
  <2>1. /\ UNCHANGED <<nodes, value, errors>>
        /\ \/ UNCHANGED <<phase, before>>
           \/ /\ phase' = "statement"
              /\ before' = [start |-> current.start, nodes |-> Len(nodes)]
    BY <1>7 DEF NextStatement
  <2> QED BY <1>1, <2>1 DEF TreeOK, TokensOK, Lexemes
<1>8. CASE ModuleDone
  <2> DEFINE m == TheNode("module", origin, previous.end, 0)
  <2>1. nodes' = Append(nodes, m) /\ UNCHANGED <<value, errors, before>>
        /\ phase' = "parsed"
    BY <1>8 DEF ModuleDone
  <2>2. m \in Branches
    BY DEF TheNode, Branches, TokensOK, Lexemes
  <2> HIDE DEF m
  <2>3. nodes' \in Seq(Branches) /\ Len(nodes') = Len(nodes) + 1
    BY <2>1, <2>2, AppendProperties DEF TreeOK
  <2> QED BY <1>1, <2>1, <2>3 DEF TreeOK
<1> QED BY <1>3, <1>4, <1>5, <1>6, <1>7, <1>8 DEF Next, Step, PassOver

LEMMA TokensInductive ==
  ASSUME TokensOK, [Next]_vars
  PROVE  TokensOK'
<1>1. CASE Read
  <2> DEFINE n == NextToken(source, lexer)
  <2>1. /\ reading /\ lexer' = n.lexer /\ current' = n.token
        /\ reading' = (n.token.kind = "comment")
        /\ UNCHANGED <<source, previous, origin>>
    BY <1>1 DEF Read, input
  <2>2. /\ LexerOK(source, n.lexer) /\ n.token \in Lexemes
        /\ n.token.kind \in Kinds /\ n.token.kind # "none"
        /\ lexer.pos <= n.lexer.pos
        /\ n.token.start <= n.token.end /\ n.token.end <= n.lexer.pos
        /\ \/ previous.end <= n.token.start \/ n.token = previous
           \/ n.token.kind = "comment"
        /\ Waiting(n.lexer, IF n.token.kind = "comment" THEN previous ELSE n.token)
    BY <2>1, TokenIsRead DEF TokensOK
  <2> HIDE DEF n
  <2>3. /\ lexer.pos \in Nat /\ n.lexer.pos \in Nat /\ previous.end \in Nat
    BY <2>2 DEF LexerOK, LexerState, TokensOK, Lexemes
  <2>4. previous.end <= n.lexer.pos
    BY <2>2, <2>3 DEF TokensOK
  <2>5. Waiting(lexer', IF reading' THEN previous' ELSE current')
    BY <2>1, <2>2
  <2> QED BY <2>1, <2>2, <2>4, <2>5 DEF TokensOK
<1>2. CASE ~ reading /\ Advances /\ UNCHANGED <<source, origin>>
  <2>1. /\ previous' = current /\ reading' = TRUE
        /\ UNCHANGED <<lexer, current, source, origin>>
    BY <1>2 DEF Advances
  <2>2. origin <= current.start
    BY <1>2 DEF TokensOK, Lexemes
  <2> QED BY <1>2, <2>1, <2>2 DEF TokensOK
<1>3. CASE Start
  <2>1. /\ ~ reading /\ previous' = current /\ origin' = current.start
        /\ UNCHANGED <<lexer, reading, current, source>>
    BY <1>3 DEF Start, input
  <2> QED BY <2>1 DEF TokensOK, Lexemes
<1>4. CASE UNCHANGED <<source, tokens, origin>>
  BY <1>4 DEF TokensOK, tokens
<1>5. CASE CloseMissing
  <2>1. /\ lexer' = DecrementBracketDepth(lexer)
        /\ UNCHANGED <<source, reading, current, previous, origin>>
    BY <1>5 DEF CloseMissing, input
  <2>2. lexer \in LexerState
    BY DEF TokensOK, LexerOK
  <2>3. /\ lexer' \in LexerState /\ lexer'.pos = lexer.pos
        /\ lexer'.pending = lexer.pending /\ lexer'.indents = lexer.indents
        /\ lexer'.done = lexer.done
    <3> DEFINE d == Lower(lexer.depth)
    <3>1. d \in Nat
      BY <2>2 DEF Lower, LexerState
    <3>2. lexer' = [lexer EXCEPT !.depth = d]
      BY <2>1 DEF DecrementBracketDepth
    <3> HIDE DEF d
    <3> QED BY <2>2, <3>1, <3>2 DEF LexerState
  <2>4. LexerOK(source, lexer')
    BY <2>3 DEF TokensOK, LexerOK
  <2>5. Waiting(lexer', IF reading THEN previous ELSE current)
    BY <2>3 DEF TokensOK, Waiting
  <2> QED BY <2>1, <2>3, <2>4, <2>5 DEF TokensOK
<1>6. ASSUME Next
      PROVE  \/ Read \/ Start \/ CloseMissing
             \/ UNCHANGED <<source, tokens, origin>>
             \/ ~ reading /\ Advances /\ UNCHANGED <<source, origin>>
  <2>1. CASE NextStatement \/ StatementDone \/ Synchronize
    BY <2>1 DEF NextStatement, StatementDone, PassStuckToken, Synchronize, input
  <2>2. CASE Consume
    BY <2>2 DEF Consume, Executing, input
  <2>3. CASE \/ ModuleDone \/ SyncAfterDedent \/ Enter \/ Allocate
             \/ NewlineImplied \/ RecoverMissing \/ ComplainAndGoOn
             \/ NotMissing \/ PutMissing \/ DropStatement \/ GiveUp
    BY <2>3 DEF ModuleDone, SyncAfterDedent, Enter, Allocate, NewlineImplied,
                RecoverMissing, ComplainAndGoOn, NotMissing, PutMissing,
                DropStatement, GiveUp, input
  <2> QED BY <1>6, <2>1, <2>2, <2>3 DEF Next, Step
<1>7. CASE UNCHANGED vars
  BY <1>4, <1>7 DEF vars, tokens
<1> QED BY <1>1, <1>2, <1>3, <1>4, <1>5, <1>6, <1>7

LEMMA TypesInit ==
  ASSUME Init
  PROVE  TokensOK /\ TreeOK /\ StackOK
<1>1. TokensOK
  <2>1. source \in Seq(STRING)
    BY ParserAssumption DEF Init
  <2>2. NewLexer \in LexerState /\ Rising(NewLexer.indents)
    <3>1. <<0>> \in Seq(Nat) /\ <<>> \in Seq(Tok) /\ <<>> \in Seq(FString)
      OBVIOUS
    <3>2. NewLexer \in LexerState /\ NewLexer.indents = <<0>>
      BY <3>1 DEF NewLexer, LexerState
    <3> QED BY <3>2 DEF Rising
  <2>3. /\ lexer \in LexerState /\ Rising(lexer.indents) /\ lexer.pos = 0
        /\ lexer.pending = <<>> /\ lexer.done = FALSE
    BY <2>2 DEF Init, NewLexer
  <2>4. LexerOK(source, lexer)
    BY <2>1, <2>3, LenProperties DEF LexerOK
  <2>5. NoToken \in Lexemes /\ NoToken.start = 0 /\ NoToken.end = 0
    BY DEF NoToken, Token, Lexemes
  <2>6. Waiting(lexer, previous)
    BY <2>3 DEF Waiting
  <2>7. reading = TRUE /\ current = NoToken /\ previous = NoToken /\ origin = 0
    BY DEF Init
  <2> QED BY <2>1, <2>3, <2>4, <2>5, <2>6, <2>7 DEF TokensOK
<1>2. value \in Branches /\ value.first = 0
  BY DEF Init, TheNode, Branches, Words
<1>3. /\ nodes = <<>> /\ stack = <<>> /\ phase = "start" /\ errors = 0
      /\ before = [start |-> 0, nodes |-> 0]
  BY DEF Init
<1>4. <<>> \in Seq(Branches) /\ Len(nodes) = 0
  BY <1>3
<1>5. TreeOK
  BY <1>2, <1>3, <1>4 DEF TreeOK
<1>6. StackOK
  BY <1>3, EmptyStack DEF StackOK
<1> QED BY <1>1, <1>5, <1>6

\* The phases, the kinds of the tokens and the numbers filled in are what they
\* should be, for any texts: an instruction that allocates a node, or calls a
\* rule that does, counts among the nodes inside it none from before its
\* statement and none that are not there.
THEOREM TypeCorrect == Spec => []TypeOK
<1> DEFINE I == TokensOK /\ TreeOK /\ StackOK
<1>1. Init => I
  BY TypesInit
<1>2. I /\ [Next]_vars => I'
  <2> SUFFICES ASSUME I, [Next]_vars PROVE I'
    OBVIOUS
  <2>1. TokensOK'
    BY TokensInductive
  <2>2. TreeOK'
    BY TreeInductive, ParserAssumption
  <2>3. StackOK'
    BY StackInductive
  <2> QED BY <2>1, <2>2, <2>3
<1>3. I => TypeOK
  <2> SUFFICES ASSUME I PROVE TypeOK
    OBVIOUS
  <2>1. /\ reading \in BOOLEAN /\ current.kind \in Kinds \cup {"none"}
    BY DEF TokensOK, Lexemes
  <2>2. /\ errors \in Nat /\ before.nodes <= Len(nodes)
        /\ phase \in {"start", "module", "statement", "sync", "dedented",
                      "parsed", "failed"}
    BY DEF TreeOK
  <2>3. \A i \in DOMAIN stack :
          stack[i].op \in {"node", "join", "within", "keyword", "missing"}
            => stack[i].first \in before.nodes .. Len(nodes)
    BY LenProperties DEF StackOK, FirstsFall, NodeLike
  <2> QED BY <2>1, <2>2, <2>3 DEF TypeOK
<1> HIDE DEF I
<1> QED BY <1>1, <1>2, <1>3, PTL DEF Spec
-------------------------------------------------------------------------------
(***************************************************************************)
(* What is left to do, through the steps.                                  *)
(***************************************************************************)
Here == IF reading THEN "none" ELSE current.kind

\* A Dedent was passed, and none but Dedents is known to follow.
InDedent == previous.kind = "dedent" /\ (reading \/ current.kind = "dedent")

LeftOK ==
  /\ TokenBehind(stack) /\ TrailsBehind(stack)
  /\ GuardedFirst(stack, Here) /\ AdvancesFirst(stack, Here)
  /\ phase = "statement" /\ InDedent => AtDedent(stack, Here)

LEMMA NothingLeft ==
  /\ TokenBehind(<<>>) /\ TrailsBehind(<<>>)
  /\ \A c : /\ GuardedFirst(<<>>, c) /\ AdvancesFirst(<<>>, c)
            /\ AtDedent(<<>>, c)
BY DEF TokenBehind, TrailsBehind, GuardedFirst, AdvancesFirst, AtDedent

LEMMA StatementLeft ==
  LET s == <<Parse("stmt")>>
  IN  /\ TokenBehind(s) /\ TrailsBehind(s)
      /\ \A c : GuardedFirst(s, c) /\ AdvancesFirst(s, c)
      /\ AtDedent(s, "dedent") /\ s # <<>>
<1> DEFINE p == Parse("stmt")
           s == <<p>>
<1>1. /\ "stmt" \in RuleNames \ (Direct \cup Joining)
      /\ "stmt" \notin Guarded /\ "stmt" \in Chain
  BY DEF RuleNames, Direct, Joining, Guarded, Chain
<1>2. p \in Instr /\ p.op = "parse" /\ p.arg = "stmt"
  BY <1>1, ParseIs
<1> HIDE DEF p
<1>3. Len(s) = 1 /\ s[1] = p /\ s # <<>>
  OBVIOUS
<1> HIDE DEF s
<1>4. \A i \in 1 .. Len(s) : i = 1 /\ s[i] = p
  BY <1>3
<1>5. TokenBehind(s)
  BY <1>2, <1>4 DEF TokenBehind, Awaits, Calls
<1>6. TrailsBehind(s)
  BY <1>3 DEF TrailsBehind
<1>7. \A c : GuardedFirst(s, c) /\ AdvancesFirst(s, c)
  BY <1>1, <1>2, <1>4 DEF GuardedFirst, AdvancesFirst, Calls
<1>8. FailsAtDedent(s[1]) /\ \A i \in 1 .. Len(s) : s[i].op # "missing"
  BY <1>1, <1>2, <1>3, <1>4 DEF FailsAtDedent, Calls
<1>9. AtDedent(s, "dedent")
  BY <1>3, <1>8 DEF AtDedent, Doomed
<1> QED BY <1>3, <1>5, <1>6, <1>7, <1>9 DEF s, p

\* Whatever replaces the first instruction.
LEMMA LeftReplaced ==
  ASSUME TokensOK, TreeOK, StackOK, LeftOK, NEW f, NEW a, NEW n,
         Replaced(f, a, n), stack[1].op # "complain",
         UNCHANGED <<reading, current, previous, phase>>
  PROVE  LeftOK'
<1> DEFINE st == f \o Tail(stack)
           c == current.kind
<1>1. /\ stack \in Seq(Instr) /\ stack # <<>> /\ f \in Seq(Instr)
      /\ Rightly(c, stack[1], f) /\ stack' = st /\ ~ reading
      /\ phase = "statement"
  BY DEF StackOK, Replaced, Right
<1>2. c \in Kinds /\ c # "none" /\ Here = c /\ Here' = c /\ InDedent' = InDedent
  BY <1>1 DEF TokensOK, Here, InDedent
<1>3. /\ MissingRight(stack[1], f) /\ TrailsRight(stack[1], f)
      /\ AdvancesRight(c, stack[1], f)
  BY <1>1 DEF Rightly
<1> HIDE DEF c
<1>4. TokenBehind(st)
  BY <1>1, <1>3, TokenBehindInstead DEF LeftOK
<1>5. TrailsBehind(st)
  BY <1>1, <1>3, TrailsBehindInstead DEF LeftOK
<1>6. GuardedFirst(st, c)
  <2>1. GuardedFirst(stack, c)
    BY <1>2 DEF LeftOK
  <2> QED BY <1>1, <1>2, <1>3, <2>1, GuardedFirstInstead
<1>7. AdvancesFirst(st, c)
  <2>1. GuardedFirst(stack, c) /\ TrailsBehind(stack) /\ AdvancesFirst(stack, c)
    BY <1>2 DEF LeftOK
  <2> QED BY <1>1, <1>2, <1>3, <2>1, AdvancesFirstInstead
<1>8. ASSUME InDedent PROVE AtDedent(st, c)
  <2>1. c = "dedent" /\ AtDedent(stack, "dedent") /\ Rightly("dedent", stack[1], f)
    BY <1>1, <1>2, <1>8 DEF LeftOK, InDedent, c
  <2>2. stack[1].op \notin {"advance", "complain", "fail", "node"}
    BY DEF Replaced
  <2> QED BY <1>1, <2>1, <2>2, AtDedentInstead
<1> HIDE DEF st
<1> QED BY <1>1, <1>2, <1>4, <1>5, <1>6, <1>7, <1>8 DEF LeftOK

\* An instruction that is done, or those before the handler of an error.
LEMMA LeftCut ==
  ASSUME TokensOK, TreeOK, StackOK, LeftOK, NEW h \in 1 .. Len(stack),
         stack' = SubSeq(stack, h + 1, Len(stack)), ~ reading,
         UNCHANGED <<reading, current, previous, phase>>,
         InDedent => AtDedent(stack', "dedent")
  PROVE  LeftOK'
<1> DEFINE st == SubSeq(stack, h + 1, Len(stack))
           c == current.kind
<1>1. stack \in Seq(Instr) /\ h \in 0 .. Len(stack) /\ h > 0
  BY LenProperties DEF StackOK
<1>2. c # "none" /\ Here = c /\ Here' = c /\ InDedent' = InDedent
  BY DEF TokensOK, Here, InDedent
<1>3. InDedent => c = "dedent"
  BY DEF InDedent
<1> HIDE DEF c
<1>4. TokenBehind(st)
  BY <1>1, TokenBehindCut DEF LeftOK
<1>5. TrailsBehind(st)
  BY <1>1, TrailsBehindCut DEF LeftOK
<1>6. GuardedFirst(st, c)
  <2>1. GuardedFirst(stack, c)
    BY <1>2 DEF LeftOK
  <2> QED BY <1>1, <2>1, GuardedFirstCut
<1>7. AdvancesFirst(st, c)
  <2>1. AdvancesFirst(stack, c)
    BY <1>2 DEF LeftOK
  <2> QED BY <1>1, <1>2, <2>1, AdvancesFirstCut
<1>8. stack' = st
  OBVIOUS
<1> HIDE DEF st
<1> QED BY <1>2, <1>3, <1>4, <1>5, <1>6, <1>7, <1>8 DEF LeftOK

\* A token is passed.
LEMMA LeftConsumed ==
  ASSUME TokensOK, StackOK, LeftOK, Consume
  PROVE  LeftOK'
<1> DEFINE st == SubSeq(stack, 2, Len(stack))
           c == current.kind
<1>1. /\ phase = "statement" /\ ~ reading /\ stack # <<>>
      /\ stack[1] \in Instr /\ stack \in Seq(Instr)
      /\ stack[1].op \in {"advance", "expect", "recover", "close", "newline"}
      /\ stack[1].op \in {"expect", "recover", "close"} => c = stack[1].arg
      /\ stack[1].op = "newline" => c = "newline"
      /\ stack' = SubSeq(stack, 2, Len(stack)) /\ Advances
  BY ConsumeDone DEF StackOK
<1>2. /\ Here = c /\ Here' = "none" /\ (InDedent' => c = "dedent")
  BY <1>1 DEF Advances, Here, InDedent
<1> HIDE DEF c
<1>3. /\ 1 \in 0 .. Len(stack) /\ 1 \in 1 .. Len(stack)
      /\ Len(stack) \in Nat /\ Len(stack) > 0
      /\ st = SubSeq(stack, 1 + 1, Len(stack))
  BY <1>1, LenProperties, EmptySeq
<1>4. TokenBehind(st)
  BY <1>1, <1>3, TokenBehindCut DEF LeftOK
<1>5. TrailsBehind(st)
  BY <1>1, <1>3, TrailsBehindCut DEF LeftOK
<1>6. GuardedFirst(st, "none")
  <2>1. GuardedFirst(stack, c)
    BY <1>2 DEF LeftOK
  <2> QED BY <1>1, <1>3, <2>1, GuardedFirstCut
<1>7. AdvancesFirst(stack, c)
  BY <1>2 DEF LeftOK
<1>8. AdvancesFirst(st, "none")
  BY <1>1, <1>3, <1>7, AdvancesFirstCut
<1>9. ASSUME InDedent' PROVE AtDedent(st, "none")
  <2>1. c = "dedent"
    BY <1>2, <1>9
  <2>2. stack[1].op = "advance"
    <3>1. stack[1].op \in {"expect", "recover", "close"} => stack[1].arg \in Words
      BY <1>1 DEF Instr, MayCall
    <3> QED BY <1>1, <2>1, <3>1, ItemsAre
  <2>3. \/ \A j \in 2 .. Len(stack) : Trails(stack[j])
        \/ Len(stack) > 1 /\ Loops(stack[2])
    BY <1>3, <1>7, <2>1, <2>2 DEF AdvancesFirst
  <2> HIDE DEF st
  <2>4. /\ Len(st) = Len(stack) - 1
        /\ \A i \in 1 .. Len(stack) - 1 :
             i + 1 \in 1 + 1 .. Len(stack) /\ st[i] = stack[i + 1]
    <3> DEFINE one == 1
    <3>1. one \in 0 .. Len(stack) /\ st = SubSeq(stack, one + 1, Len(stack))
      BY <1>3
    <3> HIDE DEF one
    <3>2. /\ Len(st) = Len(stack) - one
          /\ \A i \in 1 .. Len(stack) - one :
               i + one \in one + 1 .. Len(stack) /\ st[i] = stack[i + one]
      BY <1>1, <3>1, CutIs
    <3> QED BY <3>2 DEF one
  <2>5. CASE \A j \in 2 .. Len(stack) : Trails(stack[j])
    <3>1. \A i \in 1 .. Len(st) : Trails(st[i])
      BY <1>3, <2>4, <2>5
    <3> QED BY <3>1 DEF AtDedent
  <2>6. CASE Len(stack) > 1 /\ Loops(stack[2])
    <3>1. Len(st) > 0 /\ Loops(st[1])
      BY <1>3, <2>4, <2>6
    <3> QED BY <3>1 DEF AtDedent
  <2> QED BY <2>3, <2>5, <2>6
<1>10. stack' = st
  BY <1>1
<1> HIDE DEF st
<1> QED BY <1>2, <1>4, <1>5, <1>6, <1>8, <1>9, <1>10 DEF LeftOK

\* A token is read.
LEMMA LeftRead ==
  ASSUME LeftOK, Read
  PROVE  LeftOK'
<1>1. reading /\ UNCHANGED <<stack, phase, previous>>
  BY DEF Read
<1>2. Here = "none"
  BY <1>1 DEF Here
<1>3. GuardedFirst(stack', Here')
  BY <1>1, <1>2 DEF LeftOK, GuardedFirst
<1>4. AdvancesFirst(stack', Here')
  BY <1>1, <1>2 DEF LeftOK, AdvancesFirst
<1>5. ASSUME phase = "statement", InDedent'
      PROVE  AtDedent(stack', Here')
  <2>1. InDedent
    BY <1>1, <1>5 DEF InDedent
  <2>2. AtDedent(stack, "none") /\ ~ Doomed(stack, "none")
    BY <1>2, <1>5, <2>1 DEF LeftOK, Doomed
  <2> QED BY <1>1, <2>2 DEF AtDedent
<1> QED BY <1>1, <1>3, <1>4, <1>5 DEF LeftOK

\* At a Dedent that follows another no node takes the place of a missing one.
LEMMA NothingPutAtDedent ==
  ASSUME TokensOK, TreeOK, StackOK, LeftOK, PutMissing
  PROVE  ~ InDedent
<1> SUFFICES ASSUME InDedent PROVE FALSE
  OBVIOUS
<1>1. phase = "statement" /\ ~ reading /\ stack # <<>> /\ stack \in Seq(Instr)
  BY MissingPut DEF StackOK
<1>2. /\ Handlers # {} /\ Recovering
      /\ Top.op \in {"fail", "expect", "close", "newline"}
  BY DEF PutMissing, Failing, Executing
<1>3. Top = stack[1]
  BY <1>1, TailIsCut DEF Top
<1>4. AtDedent(stack, "dedent")
  BY <1>1 DEF LeftOK, InDedent, Here
<1>5. Doomed(stack, "dedent")
  BY <1>1, <1>2, <1>3, <1>4, FirstAtDedent
<1> QED BY <1>2, <1>5, HandlerIs DEF Doomed

LEMMA LeftInductive ==
  ASSUME TokensOK, TreeOK, StackOK, LeftOK, [Next]_vars
  PROVE  LeftOK'
<1>1. CASE Enter
  <2>1. \E f, a, n : Replaced(f, a, n)
    BY <1>1, EnterReplaces
  <2>2. UNCHANGED <<reading, current, previous, phase>>
    BY <1>1 DEF Enter, tokens
  <2>3. stack[1].op # "complain"
    BY <1>1, TailIsCut DEF Enter, Top, StackOK
  <2> QED BY <2>1, <2>2, <2>3, LeftReplaced
<1>2. CASE NewlineImplied \/ RecoverMissing \/ CloseMissing \/ NotMissing
  <2>1. Replaced(<<>>, current.start, Len(nodes))
    BY <1>2, PassOverReplaces DEF PassOver
  <2>2. UNCHANGED <<reading, current, previous, phase>>
    BY <1>2 DEF NewlineImplied, RecoverMissing, CloseMissing, NotMissing, tokens
  <2>3. Top.op # "complain" /\ stack # <<>>
    BY <1>2 DEF NewlineImplied, RecoverMissing, CloseMissing, NotMissing,
                Executing
  <2>4. stack[1].op # "complain"
    BY <2>3, TailIsCut DEF Top, StackOK
  <2> QED BY <2>1, <2>2, <2>4, LeftReplaced
<1>3. CASE ComplainAndGoOn
  <2>1. /\ stack # <<>> /\ Top.op = "complain" /\ stack' = Tail(stack)
        /\ ~ reading /\ phase = "statement"
        /\ UNCHANGED <<reading, current, previous, phase>>
    BY <1>3 DEF ComplainAndGoOn, Executing, tokens
  <2>2. /\ Top = stack[1] /\ stack' = SubSeq(stack, 1 + 1, Len(stack))
        /\ 1 \in 1 .. Len(stack) /\ stack \in Seq(Instr) /\ Len(stack) \in Nat
    BY <2>1, TailIsCut, LenProperties, EmptySeq DEF Top, StackOK
  <2>3. ASSUME InDedent PROVE AtDedent(stack', "dedent")
    <3>1. AtDedent(stack, "dedent")
      BY <2>1, <2>3 DEF LeftOK, InDedent, Here
    <3>2. Len(stack) > 2 /\ stack[2].op = "advance" /\ Loops(stack[3])
      BY <2>1, <2>2, <3>1, FirstAtDedent
    <3>3. /\ Len(stack') = Len(stack) - 1
          /\ \A i \in 1 .. Len(stack) - 1 : stack'[i] = stack[i + 1]
      <4> DEFINE g == SubSeq(stack, 1 + 1, Len(stack))
      <4>1. 1 \in 0 .. Len(stack)
        BY <2>2
      <4>2. /\ Len(g) = Len(stack) - 1
            /\ \A i \in 1 .. Len(stack) - 1 : g[i] = stack[i + 1]
        BY <2>2, <4>1, CutIs
      <4> HIDE DEF g
      <4>3. stack' = g
        BY <2>2 DEF g
      <4> QED BY <4>2, <4>3
    <3>4. /\ Len(stack') > 1 /\ stack'[1].op = "advance" /\ Loops(stack'[2])
      BY <2>2, <3>2, <3>3
    <3> QED BY <3>4 DEF AtDedent
  <2> QED BY <2>1, <2>2, <2>3, LeftCut
<1>4. CASE Consume
  BY <1>4, LeftConsumed
<1>5. CASE Allocate
  <2>1. /\ stack # <<>> /\ stack' = SubSeq(stack, 1 + 1, Len(stack))
        /\ ~ reading /\ phase = "statement"
        /\ stack[1].op \in {"node", "join"}
    BY <1>5, Allocated
  <2>2. UNCHANGED <<reading, current, previous, phase>>
    BY <1>5 DEF Allocate, tokens
  <2>3. 1 \in 1 .. Len(stack) /\ stack \in Seq(Instr) /\ Len(stack) \in Nat
    BY <2>1, LenProperties, EmptySeq DEF StackOK
  <2>4. ASSUME InDedent PROVE AtDedent(stack', "dedent")
    <3>1. AtDedent(stack, "dedent")
      BY <2>1, <2>4 DEF LeftOK, InDedent, Here
    <3>2. \A j \in 1 .. Len(stack) : Trails(stack[j])
      BY <2>1, <2>3, <3>1, FirstAtDedent
    <3>3. /\ Len(stack') = Len(stack) - 1
          /\ \A i \in 1 .. Len(stack) - 1 : stack'[i] = stack[i + 1]
      <4> DEFINE g == SubSeq(stack, 1 + 1, Len(stack))
      <4>1. 1 \in 0 .. Len(stack)
        BY <2>3
      <4>2. /\ Len(g) = Len(stack) - 1
            /\ \A i \in 1 .. Len(stack) - 1 : g[i] = stack[i + 1]
        BY <2>3, <4>1, CutIs
      <4> HIDE DEF g
      <4>3. stack' = g
        BY <2>1 DEF g
      <4> QED BY <4>2, <4>3
    <3>4. \A j \in 1 .. Len(stack') : Trails(stack'[j])
      BY <2>3, <3>2, <3>3
    <3> QED BY <3>4 DEF AtDedent
  <2> QED BY <2>1, <2>2, <2>3, <2>4, LeftCut
<1>6. CASE PutMissing
  <2> DEFINE h == Min(Handlers)
  <2>1. /\ h \in 1 .. Len(stack) /\ ~ reading
        /\ stack' = SubSeq(stack, h + 1, Len(stack))
    BY <1>6, MissingPut
  <2>2. UNCHANGED <<reading, current, previous, phase>>
    BY <1>6 DEF PutMissing, tokens
  <2>3. ~ InDedent
    BY <1>6, NothingPutAtDedent
  <2> HIDE DEF h
  <2> QED BY <2>1, <2>2, <2>3, LeftCut
<1>7. CASE DropStatement
  <2>1. stack' = <<>>
    BY <1>7 DEF DropStatement
  <2> QED BY <2>1, NothingLeft DEF LeftOK
<1>8. CASE NextStatement
  <2>1. CASE current.kind = "newline"
    <3>1. stack' = <<>>
      BY <1>8, <2>1 DEF NextStatement, StackOK
    <3> QED BY <3>1, NothingLeft DEF LeftOK
  <2>2. CASE current.kind # "newline"
    <3>1. /\ stack' = <<Parse("stmt")>> /\ ~ reading
          /\ UNCHANGED <<reading, current, previous>>
      BY <1>8, <2>2 DEF NextStatement, tokens
    <3>2. InDedent' => Here' = "dedent"
      BY <3>1 DEF InDedent, Here
    <3> QED BY <3>1, <3>2, StatementLeft DEF LeftOK
  <2> QED BY <2>1, <2>2
<1>9. CASE Start \/ StatementDone \/ ModuleDone \/ Synchronize \/ SyncAfterDedent
  <2>1. stack' = <<>>
    BY <1>9 DEF Start, StatementDone, ModuleDone, Synchronize, SyncAfterDedent,
                StackOK
  <2> QED BY <2>1, NothingLeft DEF LeftOK
<1>10. CASE Read
  BY <1>10, LeftRead
<1>11. CASE GiveUp \/ UNCHANGED vars
  <2>1. /\ UNCHANGED <<stack, reading, current, previous>>
        /\ phase' = "statement" => phase = "statement"
    BY <1>11 DEF GiveUp, vars, tokens
  <2> QED BY <2>1 DEF LeftOK, Here, InDedent
<1> QED BY <1>1, <1>2, <1>3, <1>4, <1>5, <1>6, <1>7, <1>8, <1>9, <1>10, <1>11
        DEF Next, Step
-------------------------------------------------------------------------------
(***************************************************************************)
(* Ranges.  The nodes of the tree are ns, which start behind o and end     *)
(* before b.                                                               *)
(***************************************************************************)
Nested(ns, o, b) ==
  \A j \in 1 .. Len(ns) :
    /\ ns[j].start <= ns[j].end /\ ns[j].first < j
    /\ o <= ns[j].start /\ ns[j].end <= b
    /\ \A i \in 1 .. j - 1 :
         /\ ns[i].end <= ns[j].end
         /\ IF i > ns[j].first THEN ns[j].start <= ns[i].start
            ELSE ns[i].end <= ns[j].start

Ended(ns, e) == \A m \in 1 .. Len(ns) : ns[m].end <= e

\* A node may start at a, with the nodes from number n + 1 inside it.
Fits(a, n, ns, o, b) ==
  /\ o <= a /\ a <= b
  /\ \A m \in 1 .. Len(ns) : IF m > n THEN a <= ns[m].start ELSE ns[m].end <= a

StartsFit(st, ns, o, b) ==
  \A i \in 1 .. Len(st) : HasStart(st[i]) =>
    /\ Fits(st[i].at, st[i].first, ns, o, b)
    /\ \A j \in i + 1 .. Len(st) : HasStart(st[j]) => st[j].at <= st[i].at
    /\ st[i].op = "join" => st[i].first < Len(ns)

\* A node that is allocated at the token that ends at e holds the nodes that
\* are inside it, or a token is passed before; c is the kind of the token
\* behind, and "none" while the lexer reads.
NodesSettle(st, ns, c, e, b) ==
  \A i \in 1 .. Len(st) : Settles(st[i]) =>
    \/ e <= b /\ Ended(ns, e) /\ st[i].at <= e
    \/ \E k \in 1 .. i - 1 : Consumes(st[k])
    \/ i > 1 /\ c # "none" /\ ConsumesAt(st[1], c)

SomeConsumes(st) == \E k \in 1 .. Len(st) : Consumes(st[k])

LEMMA BranchIs ==
  ASSUME NEW ns \in Seq(Branches)
  PROVE  /\ Len(ns) \in Nat
         /\ \A m \in 1 .. Len(ns) : /\ ns[m] \in Branches
                                    /\ ns[m].start \in Nat /\ ns[m].end \in Nat
                                    /\ ns[m].first \in Nat
<1>1. Len(ns) \in Nat /\ \A m \in 1 .. Len(ns) : ns[m] \in Branches
  BY LenProperties, ElementOfSeq
<1> QED BY <1>1 DEF Branches

LEMMA InstrIs ==
  ASSUME NEW i \in Instr
  PROVE  /\ i.at \in Nat /\ i.first \in Nat
         /\ Settles(i) => HasStart(i)
         /\ Settles(i) => ~ Consumes(i)
         /\ Settles(i) => i.op = "node" \/ i.op = "within"
<1>1. i.at \in Nat /\ i.first \in Nat /\ MayCall(i.op, i.arg, i.then)
  BY DEF Instr
<1>2. Settles(i) => i.op = "node" \/ (i.op = "within" /\ i.arg \in Direct)
  BY <1>1 DEF Settles, Calls, MayCall
<1>3. \A r \in Direct : r \notin Consuming
  BY DEF Direct, Consuming
<1>4. Settles(i) => ~ Consumes(i)
  BY <1>2, <1>3 DEF Consumes, Calls
<1> QED BY <1>1, <1>2, <1>4 DEF HasStart

LEMMA NestedFurther ==
  ASSUME NEW ns \in Seq(Branches), NEW o \in Nat, NEW b \in Nat, NEW d \in Nat,
         b <= d, Nested(ns, o, b)
  PROVE  Nested(ns, o, d)
<1>1. \A m \in 1 .. Len(ns) : ns[m].end \in Nat
  BY BranchIs
<1>2. \A m \in 1 .. Len(ns) : ns[m].end <= d
  BY <1>1 DEF Nested
<1> QED BY <1>2 DEF Nested

\* The nodes up to n stay, and one comes behind them.
LEMMA NestedAdd ==
  ASSUME NEW ns \in Seq(Branches), NEW o \in Nat, NEW b \in Nat,
         Nested(ns, o, b), NEW n \in 0 .. Len(ns),
         NEW r \in Seq(Branches), Len(r) = n + 1,
         \A m \in 1 .. n : r[m] = ns[m],
         r[n + 1].start <= r[n + 1].end, r[n + 1].first <= n,
         o <= r[n + 1].start, r[n + 1].end <= b,
         \A i \in 1 .. n :
           /\ ns[i].end <= r[n + 1].end
           /\ IF i > r[n + 1].first THEN r[n + 1].start <= ns[i].start
              ELSE ns[i].end <= r[n + 1].start
  PROVE  Nested(r, o, b)
<1>1. n \in Nat /\ n + 1 \in 1 .. Len(r) /\ Len(ns) \in Nat /\ n <= Len(ns)
  BY BranchIs
<1>2. r[n + 1].first \in Nat
  BY <1>1, BranchIs
<1> SUFFICES ASSUME NEW j \in 1 .. n + 1
             PROVE  /\ r[j].start <= r[j].end /\ r[j].first < j
                    /\ o <= r[j].start /\ r[j].end <= b
                    /\ \A i \in 1 .. j - 1 :
                         /\ r[i].end <= r[j].end
                         /\ IF i > r[j].first THEN r[j].start <= r[i].start
                            ELSE r[i].end <= r[j].start
  BY DEF Nested
<1>3. CASE j \in 1 .. n
  <2>1. r[j] = ns[j] /\ j \in 1 .. Len(ns)
    BY <1>1, <1>3
  <2>2. \A i \in 1 .. j - 1 : r[i] = ns[i] /\ i \in 1 .. Len(ns)
    BY <1>1, <1>3
  <2> QED BY <2>1, <2>2 DEF Nested
<1>4. CASE j = n + 1
  <2>1. \A i \in 1 .. j - 1 : i \in 1 .. n /\ r[i] = ns[i]
    BY <1>1, <1>4
  <2>2. r[j].first < j
    BY <1>1, <1>2, <1>4
  <2> QED BY <1>4, <2>1, <2>2
<1> QED BY <1>1, <1>3, <1>4

LEMMA NestedPrefix ==
  ASSUME NEW ns \in Seq(Branches), NEW o, NEW b, Nested(ns, o, b),
         NEW n \in 0 .. Len(ns), NEW r, Len(r) = n,
         \A m \in 1 .. n : r[m] = ns[m]
  PROVE  Nested(r, o, b)
<1>1. n \in Nat /\ Len(ns) \in Nat /\ n <= Len(ns)
  BY BranchIs
<1> SUFFICES ASSUME NEW j \in 1 .. n
             PROVE  /\ r[j].start <= r[j].end /\ r[j].first < j
                    /\ o <= r[j].start /\ r[j].end <= b
                    /\ \A i \in 1 .. j - 1 :
                         /\ r[i].end <= r[j].end
                         /\ IF i > r[j].first THEN r[j].start <= r[i].start
                            ELSE r[i].end <= r[j].start
  BY DEF Nested
<1>2. r[j] = ns[j] /\ j \in 1 .. Len(ns)
  BY <1>1
<1>3. \A i \in 1 .. j - 1 : r[i] = ns[i] /\ i \in 1 .. Len(ns)
  BY <1>1
<1> QED BY <1>2, <1>3 DEF Nested
-------------------------------------------------------------------------------
LEMMA StartsFitInstead ==
  ASSUME NEW f \in Seq(Instr), NEW st \in Seq(Instr), st # <<>>,
         NEW ns, NEW o, NEW b, StartsFit(st, ns, o, b), NEW a \in Nat, NEW n,
         \A k \in 1 .. Len(f) : HasStart(f[k]) =>
           /\ f[k].at = a /\ f[k].first = n /\ Fits(a, n, ns, o, b)
           /\ \A j \in 2 .. Len(st) : HasStart(st[j]) => st[j].at <= a
           /\ f[k].op = "join" => n < Len(ns)
  PROVE  StartsFit(f \o Tail(st), ns, o, b)
<1> DEFINE g == f \o Tail(st)
           m == Len(f)
           l == Len(st)
<1>1. /\ g \in Seq(Instr) /\ m \in Nat /\ l \in Nat /\ l > 0
      /\ Len(g) = m + l - 1
      /\ \A i \in 1 .. m : g[i] = f[i]
      /\ \A i \in m + 1 .. m + l - 1 :
           i - m + 1 \in 2 .. l /\ g[i] = st[i - m + 1]
      /\ \A i \in 1 .. m + l - 1 : i \in 1 .. m \/ i \in m + 1 .. m + l - 1
  BY InsteadIs
<1> HIDE DEF g
<1>2. \A k \in 1 .. m : HasStart(f[k]) =>
        /\ f[k].at = a /\ f[k].first = n /\ Fits(a, n, ns, o, b)
        /\ \A j \in 2 .. l : HasStart(st[j]) => st[j].at <= a
        /\ f[k].op = "join" => n < Len(ns)
  OBVIOUS
<1>3. \A i \in 1 .. l : HasStart(st[i]) =>
        /\ Fits(st[i].at, st[i].first, ns, o, b)
        /\ \A j \in i + 1 .. l : HasStart(st[j]) => st[j].at <= st[i].at
        /\ st[i].op = "join" => st[i].first < Len(ns)
  BY DEF StartsFit
<1> HIDE DEF m, l
<1> SUFFICES ASSUME NEW i \in 1 .. m + l - 1, HasStart(g[i])
             PROVE  /\ Fits(g[i].at, g[i].first, ns, o, b)
                    /\ \A j \in i + 1 .. m + l - 1 :
                         HasStart(g[j]) => g[j].at <= g[i].at
                    /\ g[i].op = "join" => g[i].first < Len(ns)
  BY <1>1 DEF StartsFit, g
<1>4. CASE i \in 1 .. m
  <2>1. /\ HasStart(f[i]) /\ g[i].at = a /\ g[i].first = n
        /\ Fits(a, n, ns, o, b) /\ (g[i].op = "join" => n < Len(ns))
        /\ \A j \in 2 .. l : HasStart(st[j]) => st[j].at <= a
    BY <1>1, <1>2, <1>4
  <2>2. ASSUME NEW j \in i + 1 .. m + l - 1, HasStart(g[j])
        PROVE  g[j].at <= a
    <3>1. CASE j \in 1 .. m
      <4>1. g[j] = f[j] /\ HasStart(f[j])
        BY <1>1, <2>2, <3>1
      <4> QED BY <1>2, <2>1, <3>1, <4>1
    <3>2. CASE j \in m + 1 .. m + l - 1
      <4>1. j - m + 1 \in 2 .. l /\ g[j] = st[j - m + 1]
        BY <1>1, <3>2
      <4> QED BY <2>1, <2>2, <4>1
    <3> QED BY <1>1, <1>4, <3>1, <3>2
  <2> QED BY <2>1, <2>2
<1>5. CASE i \in m + 1 .. m + l - 1
  <2> DEFINE p == i - m + 1
  <2>1. p \in 2 .. l /\ p \in 1 .. l /\ g[i] = st[p] /\ i = p + m - 1
    <3>1. p \in 2 .. l /\ g[i] = st[p]
      BY <1>1, <1>5
    <3>2. p \in 1 .. l /\ i = p + m - 1
      BY <1>1, <1>5
    <3> QED BY <3>1, <3>2
  <2> HIDE DEF p
  <2>2. ASSUME NEW j \in i + 1 .. m + l - 1, HasStart(g[j])
        PROVE  g[j].at <= g[i].at
    <3>1. j \in m + 1 .. m + l - 1 /\ j - m + 1 \in p + 1 .. l
      BY <1>1, <1>5, <2>1
    <3>2. g[j] = st[j - m + 1]
      BY <1>1, <3>1
    <3> QED BY <1>3, <2>1, <2>2, <3>1, <3>2
  <2>3. HasStart(st[p])
    BY <2>1
  <2> QED BY <1>3, <2>1, <2>2, <2>3
<1> QED BY <1>1, <1>4, <1>5

LEMMA StartsFitCut ==
  ASSUME NEW st \in Seq(Instr), NEW h \in 0 .. Len(st), NEW ns, NEW o,
         NEW b \in Nat, NEW d \in Nat, b <= d, StartsFit(st, ns, o, b)
  PROVE  StartsFit(SubSeq(st, h + 1, Len(st)), ns, o, d)
<1> DEFINE g == SubSeq(st, h + 1, Len(st))
           l == Len(st)
<1>1. /\ g \in Seq(Instr) /\ l \in Nat /\ Len(g) = l - h /\ h \in Nat
      /\ \A i \in 1 .. l - h : i + h \in h + 1 .. l /\ g[i] = st[i + h]
  BY CutIs
<1>2. \A i \in 1 .. l : st[i].at \in Nat
  BY <1>1, ElementOfSeq, InstrIs
<1>3. \A i \in 1 .. l : HasStart(st[i]) =>
        /\ Fits(st[i].at, st[i].first, ns, o, b)
        /\ \A j \in i + 1 .. l : HasStart(st[j]) => st[j].at <= st[i].at
        /\ st[i].op = "join" => st[i].first < Len(ns)
  BY DEF StartsFit
<1> HIDE DEF g, l
<1> SUFFICES ASSUME NEW i \in 1 .. l - h, HasStart(g[i])
             PROVE  /\ Fits(g[i].at, g[i].first, ns, o, d)
                    /\ \A j \in i + 1 .. l - h :
                         HasStart(g[j]) => g[j].at <= g[i].at
                    /\ g[i].op = "join" => g[i].first < Len(ns)
  BY <1>1 DEF StartsFit, g
<1>4. i + h \in 1 .. l /\ g[i] = st[i + h]
  BY <1>1
<1>5. Fits(g[i].at, g[i].first, ns, o, d)
  <2>1. Fits(g[i].at, g[i].first, ns, o, b) /\ g[i].at \in Nat
    BY <1>2, <1>3, <1>4
  <2> QED BY <2>1 DEF Fits
<1>6. ASSUME NEW j \in i + 1 .. l - h, HasStart(g[j])
      PROVE  g[j].at <= g[i].at
  <2>1. j + h \in (i + h) + 1 .. l /\ g[j] = st[j + h]
    BY <1>1
  <2> QED BY <1>3, <1>4, <1>6, <2>1
<1>7. g[i].op = "join" => g[i].first < Len(ns)
  BY <1>3, <1>4
<1> QED BY <1>5, <1>6, <1>7

\* The nodes behind number n give way to one that starts behind what is begun.
LEMMA StartsFitAdd ==
  ASSUME NEW st \in Seq(Instr), NEW ns \in Seq(Branches), NEW o, NEW b,
         StartsFit(st, ns, o, b), NEW n \in 0 .. Len(ns),
         NEW r, Len(r) = n + 1, \A m \in 1 .. n : r[m] = ns[m],
         \A i \in 1 .. Len(st) :
           HasStart(st[i]) => st[i].first <= n /\ st[i].at <= r[n + 1].start
  PROVE  StartsFit(st, r, o, b)
<1>1. n \in Nat /\ Len(ns) \in Nat /\ n <= Len(ns)
  BY BranchIs
<1>2. \A i \in 1 .. Len(st) : st[i].first \in Nat
  BY ElementOfSeq, InstrIs
<1> SUFFICES ASSUME NEW i \in 1 .. Len(st), HasStart(st[i])
             PROVE  /\ Fits(st[i].at, st[i].first, r, o, b)
                    /\ \A j \in i + 1 .. Len(st) :
                         HasStart(st[j]) => st[j].at <= st[i].at
                    /\ st[i].op = "join" => st[i].first < Len(r)
  BY DEF StartsFit
<1>3. /\ Fits(st[i].at, st[i].first, ns, o, b)
      /\ \A j \in i + 1 .. Len(st) : HasStart(st[j]) => st[j].at <= st[i].at
  BY DEF StartsFit
<1>4. st[i].first <= n /\ st[i].at <= r[n + 1].start /\ st[i].first < Len(r)
  BY <1>1, <1>2
<1>5. ASSUME NEW m \in 1 .. n + 1
      PROVE  IF m > st[i].first THEN st[i].at <= r[m].start
             ELSE r[m].end <= st[i].at
  <2>1. CASE m \in 1 .. n
    BY <1>1, <1>3, <2>1, SMTT(30) DEF Fits
  <2>2. CASE m = n + 1
    BY <1>1, <1>2, <1>4, <2>2
  <2> QED BY <1>1, <2>1, <2>2
<1>6. Fits(st[i].at, st[i].first, r, o, b)
  BY <1>3, <1>5 DEF Fits
<1> QED BY <1>3, <1>4, <1>6
-------------------------------------------------------------------------------
LEMMA NodesSettleInstead ==
  ASSUME NEW f \in Seq(Instr), NEW st \in Seq(Instr), st # <<>>,
         NEW ns, NEW e, NEW b, NEW c, c # "none",
         NodesSettle(st, ns, c, e, b), SettlesRight(c, st[1], f),
         Settles(st[1]) => \A k \in 1 .. Len(f) : HasStart(f[k]) => f[k].at = st[1].at
  PROVE  NodesSettle(f \o Tail(st), ns, c, e, b)
<1> DEFINE g == f \o Tail(st)
           m == Len(f)
           l == Len(st)
<1>1. /\ g \in Seq(Instr) /\ m \in Nat /\ l \in Nat /\ l > 0
      /\ Len(g) = m + l - 1
      /\ \A i \in 1 .. m : g[i] = f[i]
      /\ \A i \in m + 1 .. m + l - 1 :
           i - m + 1 \in 2 .. l /\ g[i] = st[i - m + 1]
      /\ \A i \in 2 .. l : g[i + m - 1] = st[i]
      /\ \A i \in 1 .. m + l - 1 : i \in 1 .. m \/ i \in m + 1 .. m + l - 1
  BY InsteadIs
<1>2. DOMAIN f = 1 .. m /\ \A k \in 1 .. m : f[k] \in Instr
  BY LenProperties, ElementOfSeq
<1> HIDE DEF g
<1>3. \A i \in 1 .. l : Settles(st[i]) =>
        \/ e <= b /\ Ended(ns, e) /\ st[i].at <= e
        \/ \E k \in 1 .. i - 1 : Consumes(st[k])
        \/ i > 1 /\ c # "none" /\ ConsumesAt(st[1], c)
  BY DEF NodesSettle
<1>4. Settles(st[1]) => \A k \in 1 .. m : HasStart(f[k]) => f[k].at = st[1].at
  OBVIOUS
<1> HIDE DEF m, l
<1> SUFFICES ASSUME NEW i \in 1 .. m + l - 1, Settles(g[i])
             PROVE  \/ e <= b /\ Ended(ns, e) /\ g[i].at <= e
                    \/ \E k \in 1 .. i - 1 : Consumes(g[k])
                    \/ i > 1 /\ c # "none" /\ ConsumesAt(g[1], c)
  BY <1>1 DEF NodesSettle, g
<1>5. CASE i \in 1 .. m
  <2>1. Settles(f[i]) /\ g[i] = f[i]
    BY <1>1, <1>5
  <2>2. CASE Settles(st[1])
    <3>1. e <= b /\ Ended(ns, e) /\ st[1].at <= e
      BY <1>1, <1>3, <2>2
    <3>2. f[i].at = st[1].at
      BY <1>2, <1>4, <1>5, <2>1, <2>2, InstrIs
    <3> QED BY <2>1, <3>1, <3>2
  <2>3. CASE ~ Settles(st[1])
    <3>1. \/ \E k \in 1 .. i - 1 : Consumes(f[k])
          \/ i > 1 /\ ConsumesAt(f[1], c)
      BY <1>2, <1>5, <2>1, <2>3 DEF SettlesRight
    <3>2. \A k \in 1 .. i - 1 : g[k] = f[k]
      <4>1. \A k \in 1 .. i - 1 : k \in 1 .. m
        BY <1>1, <1>5
      <4>2. \A k \in 1 .. m : g[k] = f[k]
        BY <1>1
      <4> QED BY <4>1, <4>2, Zenon
    <3>3. g[1] = f[1]
      <4>1. 1 \in 1 .. m
        BY <1>1, <1>5
      <4> QED BY <1>1, <4>1
    <3> QED BY <3>1, <3>2, <3>3
  <2> QED BY <2>2, <2>3
<1>6. CASE i \in m + 1 .. m + l - 1
  <2> DEFINE p == i - m + 1
  <2>1. p \in 2 .. l /\ p \in 1 .. l /\ g[i] = st[p] /\ i = p + m - 1
    <3>1. p \in 2 .. l /\ g[i] = st[p]
      BY <1>1, <1>6
    <3>2. p \in 1 .. l /\ i = p + m - 1
      BY <1>1, <1>6
    <3> QED BY <3>1, <3>2
  <2> HIDE DEF p
  <2>2. \/ e <= b /\ Ended(ns, e) /\ st[p].at <= e
        \/ \E k \in 1 .. p - 1 : Consumes(st[k])
        \/ ConsumesAt(st[1], c)
    BY <1>3, <2>1
  <2>3. CASE \E k \in 2 .. p - 1 : Consumes(st[k])
    <3>1. PICK k \in 2 .. p - 1 : Consumes(st[k])
      BY <2>3
    <3>2. k \in 2 .. l /\ k + m - 1 \in 1 .. i - 1
      BY <1>1, <2>1
    <3> QED BY <1>1, <3>1, <3>2
  <2>4. CASE ConsumesAt(st[1], c) \/ Consumes(st[1])
    <3>1. ConsumesAt(st[1], c)
      BY <2>4 DEF ConsumesAt
    <3>2. PICK k \in 1 .. m : Consumes(f[k])
      BY <1>2, <3>1 DEF SettlesRight
    <3>3. k \in 1 .. i - 1 /\ g[k] = f[k]
      BY <1>1, <1>6
    <3> QED BY <3>2, <3>3
  <2>5. (\E k \in 1 .. p - 1 : Consumes(st[k])) =>
          Consumes(st[1]) \/ \E k \in 2 .. p - 1 : Consumes(st[k])
    <3> SUFFICES ASSUME NEW k \in 1 .. p - 1, Consumes(st[k]), ~ Consumes(st[1])
                 PROVE  \E q \in 2 .. p - 1 : Consumes(st[q])
      OBVIOUS
    <3>1. k # 1
      OBVIOUS
    <3>2. k \in 2 .. p - 1
      BY <2>1, <3>1
    <3> QED BY <3>2
  <2> QED BY <2>1, <2>2, <2>3, <2>4, <2>5
<1> QED BY <1>1, <1>5, <1>6

\* Where all that is begun fits in before e, the end of the nodes.
LEMMA NodesSettleAll ==
  ASSUME NEW st \in Seq(Instr), NEW ns, NEW o, NEW c, NEW e \in Nat,
         StartsFit(st, ns, o, e), Ended(ns, e)
  PROVE  NodesSettle(st, ns, c, e, e)
<1> SUFFICES ASSUME NEW i \in 1 .. Len(st), Settles(st[i])
             PROVE  st[i].at <= e
  BY DEF NodesSettle
<1>1. HasStart(st[i])
  BY ElementOfSeq, InstrIs
<1> QED BY <1>1 DEF StartsFit, Fits

LEMMA NodesSettleRead ==
  ASSUME NEW st, NEW ns, NEW c, NEW e \in Nat, NEW b \in Nat, NEW d \in Nat,
         b <= d, NodesSettle(st, ns, "none", e, b)
  PROVE  NodesSettle(st, ns, c, e, d)
BY DEF NodesSettle

\* The node that is allocated ends no later than those before.
LEMMA NodesSettleDone ==
  ASSUME NEW st \in Seq(Instr), st # <<>>, NEW ns, NEW r, NEW c, NEW e, NEW b,
         NodesSettle(st, ns, c, e, b), ~ ConsumesAt(st[1], c),
         Ended(ns, e) => Ended(r, e)
  PROVE  NodesSettle(SubSeq(st, 2, Len(st)), r, c, e, b)
<1> DEFINE g == SubSeq(st, 1 + 1, Len(st))
           l == Len(st)
<1>1. l \in Nat /\ l > 0 /\ 1 \in 0 .. l
  BY LenProperties, EmptySeq
<1>2. /\ g \in Seq(Instr) /\ Len(g) = l - 1
      /\ \A i \in 1 .. l - 1 : i + 1 \in 1 + 1 .. l /\ g[i] = st[i + 1]
  BY <1>1, CutIs
<1>3. ~ Consumes(st[1])
  BY DEF ConsumesAt
<1>4. \A i \in 1 .. l : Settles(st[i]) =>
        \/ e <= b /\ Ended(ns, e) /\ st[i].at <= e
        \/ \E k \in 1 .. i - 1 : Consumes(st[k])
        \/ i > 1 /\ c # "none" /\ ConsumesAt(st[1], c)
  BY DEF NodesSettle
<1> HIDE DEF g, l
<1> SUFFICES ASSUME NEW i \in 1 .. l - 1, Settles(g[i])
             PROVE  \/ e <= b /\ Ended(r, e) /\ g[i].at <= e
                    \/ \E k \in 1 .. i - 1 : Consumes(g[k])
  BY <1>1, <1>2 DEF NodesSettle, g, l
<1>5. i + 1 \in 1 .. l /\ g[i] = st[i + 1]
  BY <1>1, <1>2
<1>6. \/ e <= b /\ Ended(ns, e) /\ st[i + 1].at <= e
      \/ \E k \in 1 .. (i + 1) - 1 : Consumes(st[k])
  BY <1>4, <1>5
<1>7. ASSUME NEW k \in 1 .. (i + 1) - 1, Consumes(st[k])
      PROVE  \E q \in 1 .. i - 1 : Consumes(g[q])
  <2>1. k # 1
    BY <1>3, <1>7
  <2>2. k - 1 \in 1 .. i - 1 /\ k - 1 \in 1 .. l - 1 /\ (k - 1) + 1 = k
    BY <1>1, <2>1
  <2>3. g[k - 1] = st[k]
    BY <1>2, <2>2
  <2> QED BY <1>7, <2>2, <2>3
<1> QED BY <1>5, <1>6, <1>7

\* What may be missing is followed by a token.
LEMMA NodesSettleMissing ==
  ASSUME NEW st \in Seq(Instr), TokenBehind(st), NEW h \in 1 .. Len(st),
         st[h].op = "missing"
  PROVE  LET g == SubSeq(st, h + 1, Len(st))
         IN  /\ SomeConsumes(g)
             /\ \A ns, c, e, b : NodesSettle(g, ns, c, e, b)
<1> DEFINE g == SubSeq(st, h + 1, Len(st))
           l == Len(st)
<1>1. h \in 0 .. l /\ l \in Nat
  BY LenProperties
<1>2. /\ g \in Seq(Instr) /\ Len(g) = l - h
      /\ \A i \in 1 .. l - h : i + h \in h + 1 .. l /\ g[i] = st[i + h]
  BY <1>1, CutIs
<1> HIDE DEF g
<1>3. PICK k \in h + 1 .. l : /\ Consumes(st[k])
                              /\ \A j \in h + 1 .. k - 1 : ~ Settles(st[j])
  BY DEF TokenBehind, Awaits
<1>4. \A j \in 1 .. l : st[j] \in Instr
  BY ElementOfSeq
<1> HIDE DEF l
<1>5. k - h \in 1 .. l - h /\ g[k - h] = st[k]
  <2>1. k - h \in 1 .. l - h /\ (k - h) + h = k
    BY <1>1
  <2> QED BY <1>2, <2>1
<1>6. SomeConsumes(g)
  BY <1>2, <1>3, <1>5 DEF SomeConsumes
<1>7. ASSUME NEW i \in 1 .. l - h, Settles(g[i])
      PROVE  \E q \in 1 .. i - 1 : Consumes(g[q])
  <2>1. i + h \in h + 1 .. l /\ Settles(st[i + h]) /\ i + h \in 1 .. l
    BY <1>1, <1>2, <1>7
  <2>2. i + h # k
    BY <1>3, <1>4, <2>1, InstrIs
  <2>3. i + h \notin h + 1 .. k - 1
    BY <1>3, <2>1
  <2>4. k - h \in 1 .. i - 1
    BY <1>1, <2>1, <2>2, <2>3
  <2> QED BY <1>3, <1>5, <2>4
<1>8. \A ns, c, e, b : NodesSettle(g, ns, c, e, b)
  BY <1>2, <1>7 DEF NodesSettle
<1> QED BY <1>6, <1>8 DEF g, l

LEMMA SomeConsumesInstead ==
  ASSUME NEW f \in Seq(Instr), NEW st \in Seq(Instr), st # <<>>, NEW c,
         SettlesRight(c, st[1], f), SomeConsumes(st)
  PROVE  SomeConsumes(f \o Tail(st))
<1> DEFINE g == f \o Tail(st)
           m == Len(f)
           l == Len(st)
<1>1. /\ g \in Seq(Instr) /\ m \in Nat /\ l \in Nat /\ l > 0
      /\ Len(g) = m + l - 1
      /\ \A i \in 1 .. m : g[i] = f[i]
      /\ \A i \in 2 .. l : g[i + m - 1] = st[i]
  BY InsteadIs
<1>2. DOMAIN f = 1 .. m
  BY LenProperties
<1> HIDE DEF g
<1>3. PICK k \in 1 .. l : Consumes(st[k])
  BY DEF SomeConsumes
<1> HIDE DEF m, l
<1>4. CASE k = 1
  <2>1. ConsumesAt(st[1], c)
    BY <1>3, <1>4 DEF ConsumesAt
  <2>2. PICK q \in 1 .. m : Consumes(f[q])
    BY <1>2, <2>1 DEF SettlesRight
  <2>3. q \in 1 .. m + l - 1 /\ g[q] = f[q]
    BY <1>1
  <2> QED BY <1>1, <2>2, <2>3 DEF SomeConsumes, g
<1>5. CASE k # 1
  <2>1. k \in 2 .. l /\ k + m - 1 \in 1 .. m + l - 1
    BY <1>1, <1>5
  <2> QED BY <1>1, <1>3, <2>1 DEF SomeConsumes, g
<1> QED BY <1>4, <1>5

LEMMA SomeConsumesDone ==
  ASSUME NEW st \in Seq(Instr), st # <<>>, ~ Consumes(st[1]), SomeConsumes(st)
  PROVE  SomeConsumes(SubSeq(st, 2, Len(st)))
<1> DEFINE g == SubSeq(st, 1 + 1, Len(st))
           l == Len(st)
<1>1. l \in Nat /\ l > 0 /\ 1 \in 0 .. l
  BY LenProperties, EmptySeq
<1>2. /\ g \in Seq(Instr) /\ Len(g) = l - 1
      /\ \A i \in 1 .. l - 1 : i + 1 \in 1 + 1 .. l /\ g[i] = st[i + 1]
  BY <1>1, CutIs
<1>3. PICK k \in 1 .. l : Consumes(st[k])
  BY DEF SomeConsumes
<1> HIDE DEF g, l
<1>4. k - 1 \in 1 .. l - 1 /\ (k - 1) + 1 = k
  <2>1. k # 1
    BY <1>3
  <2> QED BY <1>1, <2>1
<1>5. Consumes(g[k - 1])
  BY <1>2, <1>3, <1>4
<1> QED BY <1>1, <1>2, <1>4, <1>5 DEF SomeConsumes, g, l
-------------------------------------------------------------------------------
(***************************************************************************)
(* The ranges, through the steps.                                          *)
(***************************************************************************)
\* How far the nodes may reach.
Bound == IF reading \/ InDedent THEN previous.end ELSE current.start

TreeNests == phase # "parsed" => Nested(nodes, origin, Bound)

ValueLast ==
  phase \in {"statement", "sync", "dedented"} /\ before.nodes < Len(nodes)
    => value = nodes[Len(nodes)]

BegunFits ==
  phase = "statement" =>
    \/ Doomed(stack, Here)
    \/ /\ StartsFit(stack, nodes, origin, Bound)
       /\ NodesSettle(stack, nodes, Here, previous.end, Bound)

AllEnded ==
  \/ phase = "failed" \/ Ended(nodes, previous.end)
  \/ phase = "statement" /\ SomeConsumes(stack)

BeforeEnded ==
  phase = "statement" => \A m \in 1 .. before.nodes : nodes[m].end <= previous.end

RangesOK ==
  /\ TreeNests /\ RangesNest /\ ValueLast /\ BegunFits /\ AllEnded /\ BeforeEnded
  /\ phase = "start" => nodes = <<>>

LEMMA BoundIs ==
  ASSUME TokensOK
  PROVE  /\ Bound \in Nat /\ origin \in Nat /\ origin <= Bound
         /\ previous.start \in Nat /\ previous.end \in Nat
         /\ current.start \in Nat /\ current.end \in Nat
         /\ reading => Bound = previous.end
         /\ ~ reading => Bound <= current.end /\ origin <= current.start
         /\ ~ reading /\ ~ InDedent => Bound = current.start
BY DEF TokensOK, Lexemes, Bound

LEMMA NothingBegun ==
  /\ \A ns, o, b : StartsFit(<<>>, ns, o, b)
  /\ \A ns, c, e, b : NodesSettle(<<>>, ns, c, e, b)
BY DEF StartsFit, NodesSettle

\* A token is passed.
LEMMA RangesAdvanced ==
  ASSUME TokensOK, TreeOK, StackOK, RangesOK, ~ reading, Advances,
         UNCHANGED <<nodes, value, before, origin>>,
         phase \notin {"start", "parsed"}, phase' \notin {"start", "parsed"},
         phase' \in {"statement", "sync", "dedented"} =>
           phase \in {"statement", "sync", "dedented"},
         stack' \in Seq(Instr), StartsFit(stack', nodes, origin, current.end)
  PROVE  RangesOK'
<1> DEFINE e == current.end
<1>1. /\ previous' = current /\ reading' = TRUE /\ nodes' = nodes
      /\ origin' = origin /\ value' = value /\ before' = before
      /\ previous'.end = e
  BY DEF Advances
<1>2. Bound' = e /\ Here' = "none"
  BY <1>1 DEF Bound, Here
<1>3. /\ e \in Nat /\ Bound \in Nat /\ origin \in Nat /\ Bound <= e
      /\ nodes \in Seq(Branches)
  BY BoundIs DEF TreeOK
<1> HIDE DEF e
<1>4. Nested(nodes, origin, e)
  BY <1>3, NestedFurther DEF RangesOK, TreeNests
<1>5. Ended(nodes, e)
  BY <1>4 DEF Nested, Ended
<1>6. TreeNests'
  BY <1>1, <1>2, <1>4 DEF TreeNests
<1>7. ValueLast'
  BY <1>1 DEF RangesOK, ValueLast
<1>8. NodesSettle(stack', nodes, "none", e, e)
  BY <1>3, <1>5, NodesSettleAll DEF e
<1>9. BegunFits'
  BY <1>1, <1>2, <1>8 DEF BegunFits, e
<1>10. AllEnded'
  BY <1>1, <1>5 DEF AllEnded
<1>11. BeforeEnded'
  <2>1. before.nodes <= Len(nodes) /\ before.nodes \in Nat /\ Len(nodes) \in Nat
    BY LenProperties DEF TreeOK
  <2> QED BY <1>1, <1>5, <2>1 DEF BeforeEnded, Ended
<1>12. RangesNest'
  BY DEF RangesNest
<1> QED BY <1>6, <1>7, <1>9, <1>10, <1>11, <1>12 DEF RangesOK

LEMMA RangesConsumed ==
  ASSUME TokensOK, TreeOK, StackOK, RangesOK, Consume
  PROVE  RangesOK'
<1>1. /\ phase = "statement" /\ ~ reading /\ stack # <<>>
      /\ stack[1].op \in {"advance", "expect", "recover", "close", "newline"}
      /\ stack' = SubSeq(stack, 1 + 1, Len(stack)) /\ Advances
  BY ConsumeDone
<1>2. UNCHANGED <<nodes, value, before, origin, phase>>
  BY DEF Consume
<1>3. ~ Doomed(stack, Here)
  BY <1>1 DEF Doomed, FailsAtDedent, Calls
<1>4. StartsFit(stack, nodes, origin, Bound)
  BY <1>1, <1>3 DEF RangesOK, BegunFits
<1>5. /\ stack \in Seq(Instr) /\ 1 \in 0 .. Len(stack)
      /\ Bound \in Nat /\ current.end \in Nat /\ Bound <= current.end
  BY <1>1, BoundIs, TailIsCut DEF StackOK
<1> HIDE DEF Bound
<1>6. StartsFit(SubSeq(stack, 1 + 1, Len(stack)), nodes, origin, current.end)
  BY <1>4, <1>5, StartsFitCut
<1>7. SubSeq(stack, 1 + 1, Len(stack)) \in Seq(Instr)
  BY <1>5, CutIs
<1> QED BY <1>1, <1>2, <1>6, <1>7, RangesAdvanced

\* A token is read.
LEMMA RangesRead ==
  ASSUME TokensOK, TreeOK, StackOK, LeftOK, RangesOK, Read
  PROVE  RangesOK'
<1>1. /\ reading
      /\ UNCHANGED <<previous, phase, stack, value, nodes, before, origin>>
  BY DEF Read
<1> DEFINE n == NextToken(source, lexer)
<1>2. current' = n.token /\ reading' = (n.token.kind = "comment")
  BY DEF Read
<1>3. /\ n.token \in Lexemes
      /\ \/ previous.end <= n.token.start \/ n.token.kind = "comment"
         \/ n.token = previous /\ previous.kind = "dedent"
  BY <1>1, TokenIsRead DEF TokensOK
<1> HIDE DEF n
<1>4. /\ Bound = previous.end /\ Bound' \in Nat /\ Bound <= Bound'
      /\ Here = "none"
  <2>1. Bound = previous.end /\ Here = "none"
    BY <1>1 DEF Bound, Here
  <2>2. Bound' = IF reading' \/ InDedent' THEN previous.end ELSE n.token.start
    BY <1>1, <1>2 DEF Bound
  <2>3. n.token = previous /\ previous.kind = "dedent" => InDedent'
    BY <1>1, <1>2 DEF InDedent
  <2>4. previous.end \in Nat /\ n.token.start \in Nat
    BY <1>3 DEF TokensOK, Lexemes
  <2>5. Bound' = previous.end \/ (Bound' = n.token.start /\ previous.end <= Bound')
    BY <1>2, <1>3, <2>2, <2>3
  <2> HIDE DEF Bound, Here
  <2> QED BY <2>1, <2>4, <2>5
<1>5. Bound \in Nat /\ origin \in Nat /\ previous.end \in Nat
  BY BoundIs
<1>6. TreeNests'
  <2>1. nodes \in Seq(Branches)
    BY DEF TreeOK
  <2>2. phase # "parsed" => Nested(nodes, origin, Bound)
    BY DEF RangesOK, TreeNests
  <2> HIDE DEF Bound
  <2>3. phase # "parsed" => Nested(nodes, origin, Bound')
    BY <1>4, <1>5, <2>1, <2>2, NestedFurther
  <2> QED BY <1>1, <2>3 DEF TreeNests
<1>7. BegunFits'
  <2> SUFFICES ASSUME phase = "statement"
               PROVE  /\ StartsFit(stack, nodes, origin, Bound')
                      /\ NodesSettle(stack, nodes, Here', previous.end, Bound')
    BY <1>1 DEF BegunFits
  <2>1. ~ Doomed(stack, Here)
    BY <1>4 DEF Doomed
  <2>2. /\ StartsFit(stack, nodes, origin, Bound)
        /\ NodesSettle(stack, nodes, "none", previous.end, Bound)
    BY <1>4, <2>1 DEF RangesOK, BegunFits
  <2> HIDE DEF Bound, Here
  <2>3. NodesSettle(stack, nodes, Here', previous.end, Bound')
    BY <1>4, <1>5, <2>2, NodesSettleRead
  <2>4. stack \in Seq(Instr) /\ \A i \in 1 .. Len(stack) : stack[i].at \in Nat
    BY ElementOfSeq, InstrIs DEF StackOK
  <2>5. StartsFit(stack, nodes, origin, Bound')
    BY <1>4, <1>5, <2>2, <2>4 DEF StartsFit, Fits
  <2> QED BY <2>3, <2>5
<1>8. ValueLast' /\ AllEnded' /\ BeforeEnded' /\ RangesNest'
  BY <1>1 DEF RangesOK, ValueLast, AllEnded, BeforeEnded, RangesNest
<1> QED BY <1>1, <1>6, <1>7, <1>8 DEF RangesOK

\* Where the nodes of a rule start they fit in, unless it has none: a Dedent
\* that was passed is behind what comes next, though it starts there.
LEMMA ReplacedFits ==
  ASSUME TokensOK, TreeOK, StackOK, LeftOK, RangesOK, NEW f, NEW a, NEW n,
         Replaced(f, a, n), ~ Doomed(stack, current.kind)
  PROVE  \A k \in 1 .. Len(f) : HasStart(f[k]) =>
           /\ f[k].at = a /\ f[k].first = n /\ Fits(a, n, nodes, origin, Bound)
           /\ \A j \in 2 .. Len(stack) : HasStart(stack[j]) => stack[j].at <= a
           /\ f[k].op = "join" => n < Len(nodes)
<1> DEFINE c == current.kind
           l == Len(nodes)
<1>1. /\ phase = "statement" /\ ~ reading /\ stack # <<>> /\ Here = c
      /\ stack[1].op \notin {"advance", "fail", "node", "join"}
      /\ f \in Seq(Instr) /\ Rightly(c, stack[1], f)
      /\ stack \in Seq(Instr) /\ nodes \in Seq(Branches)
      /\ a \in Nat /\ n \in Nat
  BY DEF Replaced, Right, Here, StackOK, TreeOK
<1>2. /\ Len(stack) \in Nat /\ 1 \in 1 .. Len(stack) /\ l \in Nat
      /\ DOMAIN f = 1 .. Len(f)
      /\ \A j \in 1 .. Len(stack) :
           /\ stack[j] \in Instr /\ stack[j].at \in Nat /\ stack[j].first \in Nat
  BY <1>1, LenProperties, EmptySeq, ElementOfSeq, InstrIs
<1>3. /\ StartsFit(stack, nodes, origin, Bound)
      /\ Nested(nodes, origin, Bound)
  BY <1>1 DEF RangesOK, BegunFits, TreeNests
<1>4. \A m \in 1 .. l : /\ nodes[m].start \in Nat /\ nodes[m].end \in Nat
                        /\ nodes[m].first \in Nat
  BY <1>1, BranchIs
<1>5. /\ Bound \in Nat /\ origin \in Nat /\ current.start \in Nat
      /\ origin <= current.start
      /\ ~ InDedent => Bound = current.start
  BY <1>1, BoundIs
<1>6. \A k \in 1 .. Len(f) : HasStart(f[k]) => f[k].at = a /\ f[k].first = n
  BY DEF Replaced
<1>7. (\E k \in 1 .. Len(f) : f[k].op = "join") => GoesOn(stack[1])
  BY <1>1, <1>2 DEF Rightly, GoesOnRight
<1>8. \A j \in 1 .. Len(stack) : HasStart(stack[j]) =>
        /\ Fits(stack[j].at, stack[j].first, nodes, origin, Bound)
        /\ \A i \in j + 1 .. Len(stack) :
             HasStart(stack[i]) => stack[i].at <= stack[j].at
  BY <1>3 DEF StartsFit
<1>9. CASE /\ stack[1].op \in {"within", "keyword"}
           /\ a = stack[1].at /\ n = stack[1].first
  <2>1. HasStart(stack[1])
    BY <1>9 DEF HasStart
  <2>2. /\ Fits(a, n, nodes, origin, Bound)
        /\ \A j \in 2 .. Len(stack) : HasStart(stack[j]) => stack[j].at <= a
    BY <1>2, <1>8, <1>9, <2>1
  <2>3. ~ GoesOn(stack[1])
    BY <1>9 DEF GoesOn
  <2> QED BY <1>6, <1>7, <2>2, <2>3
<1>10. CASE GoesOn(stack[1]) /\ a = value.start /\ n = value.first
  <2>1. /\ before.nodes < l /\ n \in before.nodes .. l
        /\ \A j \in 2 .. Len(stack) : NodeLike(stack[j]) => stack[j].first <= n
    BY <1>2, <1>10 DEF StackOK, OperandsReady
  <2>2. value = nodes[l]
    BY <1>1, <2>1 DEF RangesOK, ValueLast
  <2>3. l \in 1 .. l
    BY <1>2, <2>1 DEF TreeOK
  <2>4. /\ a <= nodes[l].end /\ n < l /\ origin <= a /\ nodes[l].end <= Bound
        /\ \A i \in 1 .. l - 1 : IF i > n THEN a <= nodes[i].start
                                 ELSE nodes[i].end <= a
    BY <1>3, <1>10, <2>2, <2>3 DEF Nested
  <2> HIDE DEF l
  <2>5. Fits(a, n, nodes, origin, Bound)
    <3>1. a <= Bound
      BY <1>1, <1>4, <1>5, <2>3, <2>4
    <3>2. ASSUME NEW m \in 1 .. l
          PROVE  IF m > n THEN a <= nodes[m].start ELSE nodes[m].end <= a
      <4>1. CASE m = l
        BY <1>1, <1>2, <1>10, <2>2, <2>4, <4>1
      <4>2. CASE m # l
        BY <1>2, <2>4, <4>2
      <4> QED BY <4>1, <4>2
    <3> QED BY <2>4, <3>1, <3>2 DEF Fits, l
  <2>6. ASSUME NEW j \in 2 .. Len(stack), HasStart(stack[j])
        PROVE  stack[j].at <= a
    <3>1. stack[j].first <= n
      BY <2>1, <2>6 DEF NodeLike, HasStart
    <3>2. l > stack[j].first /\ j \in 1 .. Len(stack)
      BY <1>1, <1>2, <2>4, <3>1
    <3>3. stack[j].at <= nodes[l].start
      BY <1>8, <2>3, <2>6, <3>2 DEF Fits, l
    <3> QED BY <1>10, <2>2, <3>3
  <2> QED BY <1>6, <2>4, <2>5, <2>6 DEF l
<1>11. CASE /\ ~ GoesOn(stack[1]) /\ stack[1].op \notin {"within", "keyword"}
            /\ a = current.start /\ n = Len(nodes)
  <2>1. CASE ~ InDedent
    <3>1. a = Bound
      BY <1>5, <1>11, <2>1
    <3>2. \A m \in 1 .. l : nodes[m].end <= a
      BY <1>3, <3>1 DEF Nested
    <3>3. Fits(a, n, nodes, origin, Bound)
      BY <1>2, <1>5, <1>11, <3>1, <3>2 DEF Fits
    <3>4. \A j \in 2 .. Len(stack) : HasStart(stack[j]) => stack[j].at <= a
      BY <1>2, <1>8, <3>1 DEF Fits
    <3> QED BY <1>6, <1>7, <1>11, <3>3, <3>4
  <2>2. CASE InDedent
    <3>1. c = "dedent" /\ AtDedent(stack, "dedent") /\ ~ Doomed(stack, "dedent")
      BY <1>1, <2>2 DEF LeftOK, InDedent
    <3>2. CASE stack[1].op = "complain"
      <4>1. f = <<>>
        BY <3>2 DEF Replaced
      <4> QED BY <4>1
    <3>3. CASE stack[1].op # "complain"
      <4>1. Trails(stack[1]) \/ Loops(stack[1])
        BY <1>1, <3>1, <3>3, FirstAtDedent DEF Loops
      <4>2. \A k \in 1 .. Len(f) : ~ NodeLike(f[k])
        BY <1>1, <1>2, <3>1, <4>1 DEF Rightly, DedentRight
      <4> QED BY <4>2 DEF NodeLike, HasStart
    <3> QED BY <3>2, <3>3
  <2> QED BY <2>1, <2>2
<1> QED BY <1>9, <1>10, <1>11 DEF Replaced

LEMMA RangesReplaced ==
  ASSUME TokensOK, TreeOK, StackOK, LeftOK, RangesOK, NEW f, NEW a, NEW n,
         Replaced(f, a, n),
         UNCHANGED <<reading, current, previous, phase, value, nodes, before,
                     origin>>
  PROVE  RangesOK'
<1> DEFINE st == f \o Tail(stack)
           c == current.kind
<1>1. /\ phase = "statement" /\ ~ reading /\ stack # <<>>
      /\ f \in Seq(Instr) /\ Rightly(c, stack[1], f)
      /\ stack[1].op \notin {"advance", "fail", "node", "join"}
      /\ stack \in Seq(Instr) /\ stack' = st /\ a \in Nat
  BY DEF Replaced, Right, StackOK
<1>2. /\ Here = c /\ Here' = c /\ Bound' = Bound /\ c # "none"
  BY <1>1 DEF Here, Bound, InDedent, TokensOK
<1>3. SettlesRight(c, stack[1], f)
  BY <1>1 DEF Rightly
<1>4. DOMAIN f = 1 .. Len(f) /\ Len(f) \in Nat /\ 1 \in 1 .. Len(stack)
      /\ stack[1] \in Instr
  BY <1>1, LenProperties, EmptySeq, ElementOfSeq
<1> HIDE DEF c, Bound, Here
<1>5. ASSUME Doomed(stack, c) PROVE Doomed(st, c)
  <2>1. /\ c = "dedent" /\ FailsAtDedent(stack[1])
        /\ \A i \in 1 .. Len(stack) : stack[i].op # "missing"
    BY <1>5 DEF Doomed
  <2>2. Calls(stack[1], Chain) \/ stack[1].op = "binop"
    BY <1>1, <2>1 DEF FailsAtDedent
  <2>3. /\ Len(f) > 0 /\ FailsAtDedent(f[1])
        /\ \A i \in 1 .. Len(f) : f[i].op # "missing"
    BY <1>1, <1>4, <2>1, <2>2 DEF Rightly, DedentRight
  <2>4. /\ Len(st) = Len(f) + Len(stack) - 1 /\ Len(stack) \in Nat
        /\ Len(stack) > 0
        /\ \A i \in 1 .. Len(f) : st[i] = f[i]
        /\ \A i \in Len(f) + 1 .. Len(f) + Len(stack) - 1 :
             i - Len(f) + 1 \in 2 .. Len(stack) /\ st[i] = stack[i - Len(f) + 1]
        /\ \A i \in 1 .. Len(f) + Len(stack) - 1 :
             i \in 1 .. Len(f) \/ i \in Len(f) + 1 .. Len(f) + Len(stack) - 1
    BY <1>1, InsteadIs
  <2> HIDE DEF st
  <2>5. ASSUME NEW i \in 1 .. Len(st) PROVE st[i].op # "missing"
    <3>1. CASE i \in 1 .. Len(f)
      BY <2>3, <2>4, <3>1
    <3>2. CASE i \in Len(f) + 1 .. Len(f) + Len(stack) - 1
      <4>1. i - Len(f) + 1 \in 1 .. Len(stack) /\ st[i] = stack[i - Len(f) + 1]
        BY <1>4, <2>4, <3>2
      <4> QED BY <2>1, <4>1
    <3> QED BY <2>4, <3>1, <3>2
  <2>6. Len(st) > 0 /\ FailsAtDedent(st[1])
    BY <1>4, <2>3, <2>4
  <2> QED BY <2>1, <2>5, <2>6 DEF Doomed
<1>6. ASSUME ~ Doomed(stack, c)
      PROVE  /\ StartsFit(st, nodes, origin, Bound)
             /\ NodesSettle(st, nodes, c, previous.end, Bound)
  <2>1. /\ StartsFit(stack, nodes, origin, Bound)
        /\ NodesSettle(stack, nodes, c, previous.end, Bound)
    BY <1>1, <1>2, <1>6 DEF RangesOK, BegunFits
  <2>2. \A k \in 1 .. Len(f) : HasStart(f[k]) =>
          /\ f[k].at = a /\ f[k].first = n /\ Fits(a, n, nodes, origin, Bound)
          /\ \A j \in 2 .. Len(stack) : HasStart(stack[j]) => stack[j].at <= a
          /\ f[k].op = "join" => n < Len(nodes)
    BY <1>6, ReplacedFits DEF c
  <2>3. StartsFit(st, nodes, origin, Bound)
    BY <1>1, <2>1, <2>2, StartsFitInstead
  <2>4. Settles(stack[1]) =>
          \A k \in 1 .. Len(f) : HasStart(f[k]) => f[k].at = stack[1].at
    <3>1. Settles(stack[1]) => a = stack[1].at
      <4>1. Settles(stack[1]) => stack[1].op = "within"
        BY <1>1, <1>4, InstrIs
      <4>2. stack[1].op = "within" => a = stack[1].at
        BY DEF Replaced, GoesOn
      <4> QED BY <4>1, <4>2
    <3> QED BY <2>2, <3>1
  <2>5. NodesSettle(st, nodes, c, previous.end, Bound)
    BY <1>1, <1>2, <1>3, <2>1, <2>4, NodesSettleInstead
  <2> QED BY <2>3, <2>5
<1>7. SomeConsumes(stack) => SomeConsumes(st)
  BY <1>1, <1>3, SomeConsumesInstead
<1> HIDE DEF st
<1>8. BegunFits'
  BY <1>1, <1>2, <1>5, <1>6 DEF BegunFits
<1>9. AllEnded'
  BY <1>1, <1>7 DEF AllEnded, RangesOK
<1>10. TreeNests' /\ ValueLast' /\ BeforeEnded' /\ RangesNest'
  BY <1>2 DEF RangesOK, TreeNests, ValueLast, BeforeEnded, RangesNest
<1> QED BY <1>1, <1>8, <1>9, <1>10 DEF RangesOK

\* A node is allocated.
LEMMA RangesAllocated ==
  ASSUME TokensOK, TreeOK, StackOK, RangesOK, Allocate
  PROVE  RangesOK'
<1> DEFINE l == Len(nodes)
           e == stack[1]
           st == SubSeq(stack, 2, Len(stack))
           c == current.kind
           p == previous.end
           r == nodes'
           v == value'
<1>1. /\ phase = "statement" /\ ~ reading /\ stack # <<>>
      /\ e \in Instr /\ e.op \in {"node", "join"} /\ stack' = st
      /\ l \in Nat /\ Len(r) = l + 1 /\ r \in Seq(Branches)
      /\ v.start = e.at /\ v.first = e.first
      /\ v.end = IF e.op = "join" THEN value.end ELSE p
      /\ \A m \in 1 .. l : r[m] = nodes[m]
      /\ r[l + 1] = v
  BY Allocated
<1>2. UNCHANGED <<phase, reading, current, previous, before, origin>>
  BY DEF Allocate, tokens
<1>3. /\ stack \in Seq(Instr) /\ nodes \in Seq(Branches)
      /\ 1 \in 1 .. Len(stack) /\ 1 \in 0 .. Len(stack) /\ Len(stack) \in Nat
      /\ e.at \in Nat /\ e.first \in Nat
  BY <1>1, TailIsCut, LenProperties, EmptySeq, InstrIs DEF StackOK, TreeOK
<1>4. /\ Here = c /\ Here' = c /\ Bound' = Bound /\ Bound \in Nat
      /\ p \in Nat /\ origin \in Nat
  BY <1>1, <1>2, BoundIs DEF Here, Bound, InDedent
<1>5. ~ Doomed(stack, c)
  BY <1>1 DEF Doomed, FailsAtDedent, Calls
<1>6. /\ StartsFit(stack, nodes, origin, Bound)
      /\ NodesSettle(stack, nodes, c, p, Bound)
      /\ Nested(nodes, origin, Bound)
  BY <1>1, <1>4, <1>5 DEF RangesOK, BegunFits, TreeNests
<1> HIDE DEF c, Bound, Here, r, v
<1>7. \A m \in 1 .. l : /\ nodes[m].start \in Nat /\ nodes[m].end \in Nat
                        /\ nodes[m].first \in Nat
  BY <1>3, BranchIs
<1>8. /\ origin <= e.at /\ e.at <= Bound /\ e.first <= l
      /\ \A m \in 1 .. l : IF m > e.first THEN e.at <= nodes[m].start
                           ELSE nodes[m].end <= e.at
      /\ e.op = "join" => e.first < l
  <2>1. HasStart(e)
    BY <1>1 DEF HasStart
  <2>2. Fits(e.at, e.first, nodes, origin, Bound) /\ (e.op = "join" => e.first < l)
    BY <1>3, <1>6, <2>1 DEF StartsFit
  <2>3. e.first <= l
    BY <1>1, <1>3 DEF StackOK, FirstsFall, NodeLike
  <2> QED BY <2>2, <2>3 DEF Fits
<1>9. e.op = "node" => p <= Bound /\ Ended(nodes, p) /\ e.at <= p
  <2>1. e.op = "node" => Settles(e)
    BY DEF Settles
  <2> QED BY <1>3, <1>6, <2>1 DEF NodesSettle
<1>10. e.op = "join" => l \in 1 .. l /\ value = nodes[l]
  <2> SUFFICES ASSUME e.op = "join" PROVE l \in 1 .. l /\ value = nodes[l]
    OBVIOUS
  <2>1. e.first \in before.nodes .. l /\ e.first < l
    BY <1>1, <1>3, <1>8 DEF StackOK, FirstsFall, NodeLike
  <2>2. before.nodes < l /\ l > 0
    BY <1>1, <1>3, <2>1 DEF TreeOK
  <2> QED BY <1>1, <2>2 DEF RangesOK, ValueLast
\* It ends behind all others, and where the last of them does if it joins it.
<1>11. /\ v.start <= v.end /\ v.end <= Bound
       /\ \A m \in 1 .. l : nodes[m].end <= v.end
       /\ Ended(nodes, p) => v.end <= p
  <2>1. CASE e.op = "node"
    BY <1>1, <1>9, <1>4, <2>1 DEF Ended
  <2>2. CASE e.op = "join"
    <3>1. v.end = nodes[l].end /\ l \in 1 .. l
      BY <1>1, <1>10, <2>2
    <3>2. e.at <= nodes[l].start
      BY <1>8, <2>2, <3>1
    <3>3. /\ nodes[l].start <= nodes[l].end /\ nodes[l].end <= Bound
          /\ \A i \in 1 .. l - 1 : nodes[i].end <= nodes[l].end
      BY <1>6, <3>1 DEF Nested
    <3> HIDE DEF l, e, p
    <3>4. v.start <= v.end
      BY <1>1, <1>3, <1>7, <3>1, <3>2, <3>3
    <3>5. \A m \in 1 .. l : nodes[m].end <= v.end
      BY <1>1, <1>7, <3>1, <3>3, SMTT(30)
    <3>6. Ended(nodes, p) => v.end <= p
      BY <3>1 DEF Ended, l
    <3> QED BY <3>1, <3>3, <3>4, <3>5, <3>6
  <2> QED BY <1>1, <2>1, <2>2
<1>12. Nested(r, origin, Bound)
  <2>1. l \in 0 .. Len(nodes)
    BY <1>1
  <2>2. \A i \in 1 .. l :
          /\ nodes[i].end <= r[l + 1].end
          /\ IF i > r[l + 1].first THEN r[l + 1].start <= nodes[i].start
             ELSE nodes[i].end <= r[l + 1].start
    BY <1>1, <1>8, <1>11
  <2>3. /\ r[l + 1].start <= r[l + 1].end /\ r[l + 1].first <= l
        /\ origin <= r[l + 1].start /\ r[l + 1].end <= Bound
    BY <1>1, <1>8, <1>11
  <2> HIDE DEF l
  <2> QED BY <1>1, <1>3, <1>4, <1>6, <2>1, <2>2, <2>3, NestedAdd
<1>13. Ended(nodes, p) => Ended(r, p)
  <2> SUFFICES ASSUME Ended(nodes, p), NEW m \in 1 .. l + 1 PROVE r[m].end <= p
    BY <1>1 DEF Ended
  <2>1. CASE m \in 1 .. l
    BY <1>1, <2>1 DEF Ended
  <2>2. CASE m = l + 1
    BY <1>1, <1>11, <2>2
  <2> QED BY <1>1, <2>1, <2>2
<1>14. StartsFit(st, r, origin, Bound)
  <2>1. StartsFit(st, nodes, origin, Bound) /\ st \in Seq(Instr)
    <3> DEFINE s == SubSeq(stack, 1 + 1, Len(stack))
    <3>1. Bound <= Bound
      BY <1>4
    <3>2. StartsFit(s, nodes, origin, Bound)
      BY <1>3, <1>4, <1>6, <3>1, StartsFitCut
    <3>3. s \in Seq(Instr)
      BY <1>3, CutIs
    <3> QED BY <3>2, <3>3
  <2>2. ASSUME NEW i \in 1 .. Len(st), HasStart(st[i])
        PROVE  st[i].first <= l /\ st[i].at <= r[l + 1].start
    <3> DEFINE s == SubSeq(stack, 1 + 1, Len(stack))
    <3>1. /\ Len(s) = Len(stack) - 1
          /\ \A k \in 1 .. Len(stack) - 1 :
               k + 1 \in 1 + 1 .. Len(stack) /\ s[k] = stack[k + 1]
      BY <1>3, CutIs
    <3>2. s = st
      OBVIOUS
    <3> HIDE DEF s, st, e, l
    <3>3. i + 1 \in 2 .. Len(stack) /\ i + 1 \in 1 .. Len(stack) /\ st[i] = stack[i + 1]
      BY <1>3, <3>1, <3>2
    <3>4. st[i].first <= l
      BY <2>2, <3>3 DEF StackOK, FirstsFall, NodeLike, HasStart, l
    <3>5. HasStart(e) /\ \A j \in 1 + 1 .. Len(stack) :
                           HasStart(stack[j]) => stack[j].at <= e.at
      BY <1>1, <1>3, <1>6 DEF StartsFit, HasStart, e
    <3>6. st[i].at <= e.at
      BY <2>2, <3>3, <3>5
    <3> QED BY <1>1, <3>4, <3>6
  <2>3. l \in 0 .. Len(nodes)
    BY <1>1
  <2> HIDE DEF st, l
  <2> QED BY <1>1, <1>3, <2>1, <2>2, <2>3, StartsFitAdd
<1>15. ~ ConsumesAt(e, c)
  BY <1>1 DEF ConsumesAt, Consumes, Calls
<1>16. NodesSettle(st, r, c, p, Bound)
  BY <1>1, <1>3, <1>6, <1>13, <1>15, NodesSettleDone
<1>17. SomeConsumes(stack) => SomeConsumes(st)
  <2>1. ~ Consumes(e)
    BY <1>15 DEF ConsumesAt
  <2> QED BY <1>1, <1>3, <2>1, SomeConsumesDone
<1>18. ValueLast'
  <2>1. value' = nodes'[Len(nodes')]
    BY <1>1 DEF v, r
  <2> QED BY <2>1 DEF ValueLast
<1>19. TreeNests' /\ BegunFits'
  BY <1>1, <1>2, <1>4, <1>12, <1>14, <1>16 DEF TreeNests, BegunFits, r
<1>20. AllEnded'
  BY <1>1, <1>2, <1>13, <1>17 DEF AllEnded, RangesOK, r
<1>21. BeforeEnded'
  <2>1. before.nodes \in Nat /\ before.nodes <= l
    BY DEF TreeOK
  <2>2. \A m \in 1 .. before.nodes : r[m] = nodes[m]
    BY <1>1, <2>1
  <2> QED BY <1>1, <1>2, <2>2 DEF BeforeEnded, RangesOK, r
<1>22. RangesNest'
  BY <1>1, <1>2 DEF RangesNest
<1> QED BY <1>1, <1>2, <1>18, <1>19, <1>20, <1>21, <1>22 DEF RangesOK

\* A name takes the place of what is missing.
LEMMA RangesPut ==
  ASSUME TokensOK, TreeOK, StackOK, LeftOK, RangesOK, PutMissing
  PROVE  RangesOK'
<1> DEFINE h == Min(Handlers)
           n == stack[h].first
           st == SubSeq(stack, h + 1, Len(stack))
           c == current.kind
           r == nodes'
<1>1. /\ phase = "statement" /\ ~ reading /\ stack # <<>>
      /\ h \in 1 .. Len(stack) /\ stack[h] \in Instr
      /\ stack[h].op = "missing"
      /\ n \in before.nodes .. Len(nodes) /\ n \in Nat
      /\ stack' = st
      /\ r \in Seq(Branches) /\ Len(r) = n + 1
      /\ \A m \in 1 .. n : r[m] = nodes[m]
      /\ r[n + 1] = value'
      /\ value'.start = current.start /\ value'.end = current.start
      /\ value'.first = n
  BY MissingPut
<1>2. UNCHANGED <<phase, reading, current, previous, before, origin>>
  BY DEF PutMissing, tokens
<1>3. /\ stack \in Seq(Instr) /\ nodes \in Seq(Branches) /\ Len(nodes) \in Nat
      /\ before.nodes \in Nat
  BY LenProperties DEF StackOK, TreeOK
<1>4. ~ InDedent
  BY NothingPutAtDedent
<1>5. /\ Here = c /\ Here' = c /\ Bound' = Bound /\ Bound \in Nat
      /\ Bound = current.start /\ origin \in Nat /\ origin <= Bound
  BY <1>1, <1>2, <1>4, BoundIs DEF Here, Bound, InDedent
<1>6. ~ Doomed(stack, c)
  BY <1>1 DEF Doomed
<1>7. /\ StartsFit(stack, nodes, origin, Bound)
      /\ Nested(nodes, origin, Bound)
  BY <1>1, <1>5, <1>6 DEF RangesOK, BegunFits, TreeNests
<1> HIDE DEF c, Bound, Here, r, h
<1>8. n \in 0 .. Len(nodes) /\ h \in 0 .. Len(stack) /\ Len(stack) \in Nat
  BY <1>1, <1>3, LenProperties
<1> HIDE DEF n
<1>9. Nested(r, origin, Bound)
  <2>1. /\ r[n + 1].start <= r[n + 1].end /\ r[n + 1].first <= n
        /\ origin <= r[n + 1].start /\ r[n + 1].end <= Bound
    BY <1>1, <1>5
  <2>2. ASSUME NEW i \in 1 .. n
        PROVE  /\ nodes[i].end <= r[n + 1].end
               /\ IF i > r[n + 1].first THEN r[n + 1].start <= nodes[i].start
                  ELSE nodes[i].end <= r[n + 1].start
    <3>1. i \in 1 .. Len(nodes) /\ ~ (i > n)
      BY <1>1, <1>3, <1>8
    <3>2. nodes[i].end <= Bound
      BY <1>7, <3>1 DEF Nested
    <3> QED BY <1>1, <1>5, <3>1, <3>2
  <2> QED BY <1>1, <1>3, <1>5, <1>7, <1>8, <2>1, <2>2, NestedAdd
<1>10. StartsFit(st, r, origin, Bound)
  <2>1. StartsFit(st, nodes, origin, Bound) /\ st \in Seq(Instr)
    <3>1. Bound <= Bound
      BY <1>5
    <3> QED BY <1>3, <1>5, <1>7, <1>8, <3>1, StartsFitCut, CutIs
  <2>2. ASSUME NEW i \in 1 .. Len(st), HasStart(st[i])
        PROVE  st[i].first <= n /\ st[i].at <= r[n + 1].start
    <3>1. /\ Len(st) = Len(stack) - h
          /\ \A k \in 1 .. Len(stack) - h :
               k + h \in h + 1 .. Len(stack) /\ st[k] = stack[k + h]
      BY <1>3, <1>8, CutIs
    <3> HIDE DEF st
    <3>2. i + h \in h + 1 .. Len(stack) /\ i + h \in 1 .. Len(stack)
          /\ st[i] = stack[i + h]
      BY <1>8, <3>1
    <3>3. st[i].first <= n
      <4>1. NodeLike(stack[h]) /\ NodeLike(stack[i + h])
        BY <1>1, <2>2, <3>2 DEF NodeLike, HasStart
      <4> QED BY <1>1, <3>2, <4>1 DEF StackOK, FirstsFall, n
    <3>4. st[i].at <= Bound
      BY <1>7, <2>2, <3>2 DEF StartsFit, Fits
    <3> QED BY <1>1, <1>5, <3>3, <3>4
  <2> HIDE DEF st
  <2> QED BY <1>1, <1>3, <1>8, <2>1, <2>2, StartsFitAdd
<1>11. SomeConsumes(st) /\ NodesSettle(st, r, c, previous.end, Bound)
  BY <1>1, <1>3, NodesSettleMissing DEF LeftOK
<1> HIDE DEF st
<1>12. ValueLast'
  <2>1. value' = nodes'[Len(nodes')]
    BY <1>1 DEF r
  <2> QED BY <2>1 DEF ValueLast
<1>13. TreeNests' /\ BegunFits'
  BY <1>1, <1>2, <1>5, <1>9, <1>10, <1>11 DEF TreeNests, BegunFits, r
<1>14. AllEnded'
  BY <1>1, <1>2, <1>11 DEF AllEnded
<1>15. BeforeEnded'
  <2>1. \A m \in 1 .. before.nodes : r[m] = nodes[m]
    BY <1>1, <1>3
  <2> QED BY <1>1, <1>2, <2>1 DEF BeforeEnded, RangesOK, r
<1>16. RangesNest'
  BY <1>1, <1>2 DEF RangesNest
<1> QED BY <1>1, <1>2, <1>12, <1>13, <1>14, <1>15, <1>16 DEF RangesOK
-------------------------------------------------------------------------------
LEMMA NoneIn ==
  ~ SomeConsumes(<<>>)
BY DEF SomeConsumes

\* From one statement to the next, where no token is passed.
LEMMA RangesBetween ==
  ASSUME TreeOK, RangesOK, stack = <<>>, stack' = <<>>,
         phase \notin {"start", "parsed", "failed"},
         phase' \notin {"start", "parsed", "failed"},
         phase' \in {"statement", "sync", "dedented"} =>
           phase \in {"statement", "sync", "dedented"},
         UNCHANGED <<reading, current, previous, value, nodes, before, origin>>
  PROVE  RangesOK'
<1>1. Ended(nodes, previous.end)
  BY NoneIn DEF RangesOK, AllEnded
<1>2. Bound' = Bound
  BY DEF Bound, InDedent
<1>3. TreeNests'
  BY <1>2 DEF RangesOK, TreeNests
<1>4. ValueLast'
  BY DEF RangesOK, ValueLast
<1>5. BegunFits'
  BY NothingBegun DEF BegunFits
<1>6. AllEnded'
  BY <1>1 DEF AllEnded
<1>7. BeforeEnded'
  <2>1. before.nodes <= Len(nodes) /\ before.nodes \in Nat /\ Len(nodes) \in Nat
    BY LenProperties DEF TreeOK
  <2> QED BY <1>1, <2>1 DEF BeforeEnded, Ended
<1> QED BY <1>3, <1>4, <1>5, <1>6, <1>7 DEF RangesOK, RangesNest

\* A statement begins.
LEMMA RangesBegun ==
  ASSUME TokensOK, TreeOK, StackOK, RangesOK, NextStatement,
         current.kind # "newline"
  PROVE  RangesOK'
<1> DEFINE p == Parse("stmt")
           st == <<p>>
<1>1. /\ phase = "module" /\ phase' = "statement" /\ stack' = st
      /\ before'.nodes = Len(nodes) /\ ~ reading
      /\ UNCHANGED <<reading, current, previous, value, nodes, origin>>
  BY DEF NextStatement, tokens
<1>2. "stmt" \in RuleNames \ (Direct \cup Joining) /\ "stmt" \notin Direct
  BY DEF RuleNames, Direct, Joining
<1>3. p \in Instr /\ p.op = "parse" /\ p.arg = "stmt"
  BY <1>2, ParseIs
<1> HIDE DEF p
<1>4. Len(st) = 1 /\ st[1] = p
  OBVIOUS
<1> HIDE DEF st
<1>5. \A i \in 1 .. Len(st) : ~ HasStart(st[i]) /\ ~ Settles(st[i])
  BY <1>2, <1>3, <1>4, InstrIs DEF HasStart
<1>6. \A ns, o, b : StartsFit(st, ns, o, b)
  BY <1>5 DEF StartsFit
<1>7. \A ns, c, e, b : NodesSettle(st, ns, c, e, b)
  BY <1>5 DEF NodesSettle
<1>8. Ended(nodes, previous.end)
  BY <1>1 DEF RangesOK, AllEnded
<1>9. Bound' = Bound
  BY <1>1 DEF Bound, InDedent
<1>10. TreeNests'
  BY <1>1, <1>9 DEF RangesOK, TreeNests
<1>11. ValueLast'
  <2>1. Len(nodes) \in Nat
    BY LenProperties DEF TreeOK
  <2> QED BY <1>1, <2>1 DEF ValueLast
<1>12. BegunFits'
  BY <1>1, <1>6, <1>7 DEF BegunFits
<1>13. AllEnded'
  BY <1>1, <1>8 DEF AllEnded
<1>14. BeforeEnded'
  BY <1>1, <1>8 DEF BeforeEnded, Ended
<1> QED BY <1>1, <1>10, <1>11, <1>12, <1>13, <1>14 DEF RangesOK, RangesNest

\* A statement is dropped.
LEMMA RangesDropped ==
  ASSUME TokensOK, TreeOK, StackOK, RangesOK, DropStatement
  PROVE  RangesOK'
<1> DEFINE n == before.nodes
           r == SubSeq(nodes, 1, n)
<1>1. /\ nodes' = r /\ stack' = <<>> /\ phase' = "sync"
      /\ UNCHANGED <<reading, current, previous, value, before, origin>>
  BY DEF DropStatement, tokens
<1>2. phase = "statement" /\ ~ reading
  BY FailingIs DEF DropStatement
<1>3. /\ nodes \in Seq(Branches) /\ Len(nodes) \in Nat
      /\ n \in Nat /\ n <= Len(nodes)
  BY LenProperties DEF TreeOK
<1>4. Len(r) = n /\ \A m \in 1 .. n : r[m] = nodes[m]
  <2>1. \A i \in 1 .. n : nodes[i] \in Branches
    BY <1>3, ElementOfSeq
  <2>2. /\ Len(r) = IF 1 <= n THEN n - 1 + 1 ELSE 0
        /\ \A i \in 1 .. n - 1 + 1 : r[i] = nodes[1 + i - 1]
    BY <1>3, <2>1, SubSeqProperties
  <2> HIDE DEF r, n
  <2> QED BY <1>3, <2>2
<1>5. Nested(nodes, origin, Bound)
  BY <1>2 DEF RangesOK, TreeNests
<1>6. \A m \in 1 .. n : nodes[m].end <= previous.end
  BY <1>2 DEF RangesOK, BeforeEnded
<1>7. Bound' = Bound /\ before'.nodes = n
  BY <1>1 DEF Bound, InDedent
<1> HIDE DEF r, n, Bound
<1>8. Nested(r, origin, Bound)
  BY <1>3, <1>4, <1>5, NestedPrefix
<1>9. TreeNests'
  BY <1>1, <1>7, <1>8 DEF TreeNests
<1>10. ValueLast'
  BY <1>1, <1>3, <1>4, <1>7 DEF ValueLast
<1>11. Ended(r, previous.end)
  BY <1>4, <1>6 DEF Ended
<1>12. AllEnded'
  BY <1>1, <1>11 DEF AllEnded
<1> QED BY <1>1, <1>9, <1>10, <1>12 DEF RangesOK, RangesNest, BegunFits, BeforeEnded

\* The module holds the statements.
LEMMA RangesDone ==
  ASSUME TokensOK, TreeOK, StackOK, RangesOK, ModuleDone
  PROVE  RangesOK'
<1> DEFINE l == Len(nodes)
           m == TheNode("module", origin, previous.end, 0)
           r == Append(nodes, m)
<1>1. phase = "module" /\ phase' = "parsed" /\ nodes' = r /\ UNCHANGED previous
  BY DEF ModuleDone, tokens
<1>2. m.start = origin /\ m.end = previous.end /\ m.first = 0
  BY DEF TheNode
<1> HIDE DEF m
<1>3. nodes \in Seq(Branches) /\ l \in Nat
  BY LenProperties DEF TreeOK
<1>4. Len(r) = l + 1 /\ r[l + 1] = m /\ \A i \in 1 .. l : r[i] = nodes[i]
  BY <1>3, AppendProperties
<1>5. DOMAIN r = 1 .. l + 1
  BY <1>3
<1>6. /\ Nested(nodes, origin, Bound) /\ Ended(nodes, previous.end)
  BY <1>1 DEF RangesOK, TreeNests, AllEnded
<1>7. /\ origin <= previous.end /\ origin \in Nat /\ previous.end \in Nat
  BY DEF TokensOK, Lexemes
<1>8. \A j \in 1 .. l : nodes[j].first \in Nat
  BY <1>3, BranchIs
<1> HIDE DEF r, l, Bound
<1>9. ASSUME NEW j \in 1 .. l + 1
      PROVE  /\ r[j].start <= r[j].end
             /\ \A i \in 1 .. j - 1 :
                  \/ i > r[j].first /\ r[j].start <= r[i].start
                                    /\ r[i].end <= r[j].end
                  \/ i <= r[j].first /\ r[i].end <= r[j].start
  <2>1. CASE j \in 1 .. l
    <3>1. r[j] = nodes[j] /\ \A i \in 1 .. j - 1 : i \in 1 .. l /\ r[i] = nodes[i]
      BY <1>3, <1>4, <2>1
    <3>2. /\ nodes[j].start <= nodes[j].end
          /\ \A i \in 1 .. j - 1 :
               /\ nodes[i].end <= nodes[j].end
               /\ IF i > nodes[j].first THEN nodes[j].start <= nodes[i].start
                  ELSE nodes[i].end <= nodes[j].start
      BY <1>6, <2>1 DEF Nested, l
    <3>3. nodes[j].first \in Nat
      BY <1>8, <2>1
    <3> QED BY <2>1, <3>1, <3>2, <3>3
  <2>2. CASE j = l + 1
    <3>1. r[j] = m /\ \A i \in 1 .. j - 1 : i \in 1 .. l /\ r[i] = nodes[i]
      BY <1>3, <1>4, <2>2
    <3>2. \A i \in 1 .. l : origin <= nodes[i].start /\ nodes[i].end <= previous.end
      BY <1>6 DEF Nested, Ended, l
    <3> QED BY <1>2, <1>7, <3>1, <3>2
  <2> QED BY <1>3, <2>1, <2>2
<1>10. RangesNest'
  BY <1>1, <1>5, <1>9 DEF RangesNest
<1>11. Ended(r, previous.end)
  <2> SUFFICES ASSUME NEW j \in 1 .. l + 1 PROVE r[j].end <= previous.end
    BY <1>4 DEF Ended
  <2>1. CASE j \in 1 .. l
    BY <1>4, <1>6, <2>1 DEF Ended, l
  <2>2. CASE j = l + 1
    BY <1>2, <1>4, <1>7, <2>2
  <2> QED BY <1>3, <2>1, <2>2
<1>12. AllEnded'
  BY <1>1, <1>11 DEF AllEnded
<1> QED BY <1>1, <1>10, <1>12
        DEF RangesOK, TreeNests, ValueLast, BegunFits, BeforeEnded

LEMMA RangesInductive ==
  ASSUME TokensOK, TreeOK, StackOK, LeftOK, RangesOK, [Next]_vars
  PROVE  RangesOK'
<1>1. CASE Enter
  <2>1. \E f, a, n : Replaced(f, a, n)
    BY <1>1, EnterReplaces
  <2>2. UNCHANGED <<reading, current, previous, phase, value, nodes, before,
                    origin>>
    BY <1>1 DEF Enter, tokens
  <2> QED BY <2>1, <2>2, RangesReplaced
<1>2. CASE PassOver
  <2>1. Replaced(<<>>, current.start, Len(nodes))
    BY <1>2, PassOverReplaces
  <2>2. UNCHANGED <<reading, current, previous, phase, value, nodes, before,
                    origin>>
    BY <1>2 DEF PassOver, NewlineImplied, RecoverMissing, CloseMissing,
                ComplainAndGoOn, NotMissing, tokens
  <2> QED BY <2>1, <2>2, RangesReplaced
<1>3. CASE Consume
  BY <1>3, RangesConsumed
<1>4. CASE Allocate
  BY <1>4, RangesAllocated
<1>5. CASE PutMissing
  BY <1>5, RangesPut
<1>6. CASE DropStatement
  BY <1>6, RangesDropped
<1>7. CASE ModuleDone
  BY <1>7, RangesDone
<1>8. CASE Read
  BY <1>8, RangesRead
<1>9. CASE NextStatement
  <2>1. CASE current.kind = "newline"
    <3>1. /\ ~ reading /\ Advances /\ phase = "module" /\ phase' = "module"
          /\ stack' = <<>>
          /\ UNCHANGED <<nodes, value, before, origin>>
      BY <1>9, <2>1 DEF NextStatement, StackOK
    <3> QED BY <3>1, NothingBegun, EmptyStack, RangesAdvanced
  <2> QED BY <1>9, <2>1, RangesBegun
<1>10. CASE StatementDone
  <2>1. /\ ~ reading /\ phase = "statement" /\ phase' = "module"
        /\ stack = <<>> /\ stack' = <<>>
        /\ UNCHANGED <<nodes, value, before, origin>>
        /\ Advances \/ UNCHANGED <<reading, current, previous>>
    BY <1>10 DEF StatementDone, PassStuckToken, tokens
  <2>2. CASE Advances
    BY <2>1, <2>2, NothingBegun, EmptyStack, RangesAdvanced
  <2>3. CASE UNCHANGED <<reading, current, previous>>
    BY <2>1, <2>3, RangesBetween
  <2> QED BY <2>1, <2>2, <2>3
<1>11. CASE Synchronize \/ SyncAfterDedent
  <2>1. /\ ~ reading /\ phase \in {"sync", "dedented"}
        /\ phase' \in {"statement", "sync", "dedented"}
        /\ stack = <<>> /\ stack' = <<>>
        /\ UNCHANGED <<nodes, value, before, origin>>
        /\ Advances \/ UNCHANGED <<reading, current, previous>>
    BY <1>11 DEF Synchronize, SyncAfterDedent, tokens, StackOK
  <2>2. CASE Advances
    BY <2>1, <2>2, NothingBegun, EmptyStack, RangesAdvanced
  <2>3. CASE UNCHANGED <<reading, current, previous>>
    BY <2>1, <2>3, RangesBetween
  <2> QED BY <2>1, <2>2, <2>3
<1>12. CASE Start
  <2>1. /\ phase = "start" /\ phase' = "module" /\ nodes = <<>> /\ nodes' = <<>>
    BY <1>12 DEF Start, RangesOK
  <2>2. \A o, b : Nested(<<>>, o, b)
    BY DEF Nested
  <2>3. \A e : Ended(<<>>, e)
    BY DEF Ended
  <2> QED BY <2>1, <2>2, <2>3
          DEF RangesOK, TreeNests, RangesNest, ValueLast, BegunFits, AllEnded,
              BeforeEnded
<1>13. CASE GiveUp \/ UNCHANGED vars
  <2>1. /\ UNCHANGED <<reading, current, previous, stack, value, nodes, before,
                       origin>>
        /\ phase' = phase \/ (phase' = "failed" /\ phase = "statement")
    BY <1>13, FailingIs DEF GiveUp, vars, tokens
  <2>2. Bound' = Bound /\ Here' = Here
    BY <2>1 DEF Bound, InDedent, Here
  <2>3. TreeNests' /\ ValueLast'
    BY <2>1, <2>2 DEF RangesOK, TreeNests, ValueLast
  <2>4. BegunFits'
    BY <2>1, <2>2 DEF RangesOK, BegunFits
  <2>5. AllEnded' /\ BeforeEnded' /\ RangesNest'
    BY <2>1 DEF RangesOK, AllEnded, BeforeEnded, RangesNest
  <2> QED BY <2>1, <2>3, <2>4, <2>5 DEF RangesOK
<1> QED BY <1>1, <1>2, <1>3, <1>4, <1>5, <1>6, <1>7, <1>8, <1>9, <1>10, <1>11,
           <1>12, <1>13
        DEF Next, Step, PassOver

LEMMA RangesInit ==
  ASSUME Init
  PROVE  LeftOK /\ RangesOK
<1>1. nodes = <<>> /\ stack = <<>> /\ phase = "start"
  BY DEF Init
<1>2. LeftOK
  BY <1>1, NothingLeft DEF LeftOK
<1>3. (\A o, b : Nested(<<>>, o, b)) /\ (\A e : Ended(<<>>, e))
  BY DEF Nested, Ended
<1> QED BY <1>1, <1>2, <1>3
        DEF RangesOK, TreeNests, RangesNest, ValueLast, BegunFits, AllEnded,
            BeforeEnded

\* The ranges of the tree nest, for any text and in either mode: whatever is
\* missing, dropped or taken as closed, a node that is parsed lies behind the
\* nodes before it that are not inside it and encloses those that are.
THEOREM RangesAreNested == Spec => []RangesNest
<1> DEFINE I == TokensOK /\ TreeOK /\ StackOK /\ LeftOK /\ RangesOK
<1>1. Init => I
  BY TypesInit, RangesInit
<1>2. I /\ [Next]_vars => I'
  <2> SUFFICES ASSUME I, [Next]_vars PROVE I'
    OBVIOUS
  <2>1. TokensOK'
    BY TokensInductive
  <2>2. TreeOK'
    BY TreeInductive, ParserAssumption
  <2>3. StackOK'
    BY StackInductive
  <2>4. LeftOK'
    BY LeftInductive
  <2>5. RangesOK'
    BY RangesInductive
  <2> QED BY <2>1, <2>2, <2>3, <2>4, <2>5
<1>3. I => RangesNest
  BY DEF RangesOK
<1> HIDE DEF I
<1> QED BY <1>1, <1>2, <1>3, PTL DEF Spec
===============================================================================
