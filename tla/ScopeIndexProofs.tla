--------------------------- MODULE ScopeIndexProofs ---------------------------
(***************************************************************************)
(* What the Indexer collects of a module, for any names, expressions and   *)
(* functions, and however long the module is.                              *)
(***************************************************************************)
EXTENDS ScopeIndex, SequenceTheorems, FunctionTheorems, FiniteSetTheorems,
        WellFoundedInduction, TLAPS

(***************************************************************************)
(* Numbers, and sequences that grow.                                       *)
(***************************************************************************)
LEMMA LeastNumber ==
  ASSUME NEW T, T \subseteq Nat, T # {}
  PROVE  \E x \in T : \A y \in T : x <= y
<1>1. PICK x \in T : \A y \in T : ~ (<<y, x>> \in OpToRel(<, Nat))
  BY NatLessThanWellFounded, WFMin
<1>2. ASSUME NEW y \in T PROVE x <= y
  <2>1. x \in Nat /\ y \in Nat /\ ~ (<<y, x>> \in OpToRel(<, Nat))
    BY <1>1
  <2> QED BY <2>1 DEF OpToRel
<1> QED BY <1>2

LEMMA LeastOf ==
  ASSUME NEW T, T \subseteq Nat, T # {}
  PROVE  Min(T) \in T /\ \A y \in T : Min(T) <= y
<1>1. \E x \in T : \A y \in T : x <= y
  BY LeastNumber
<1> QED BY <1>1 DEF Min

LEMMA Upwards ==
  ASSUME NEW n \in Nat, NEW S, 0 \in S,
         \A k \in 0 .. n - 1 : k \in S => k + 1 \in S
  PROVE  \A k \in 0 .. n : k \in S
<1> DEFINE T == {k \in 0 .. n : k \notin S}
<1> SUFFICES ASSUME T # {} PROVE FALSE
  OBVIOUS
<1>1. T \subseteq Nat
  OBVIOUS
<1>2. PICK x \in T : \A y \in T : x <= y
  <2> HIDE DEF T
  <2> QED BY <1>1, LeastNumber
<1>3. x \in 1 .. n /\ x - 1 \notin T
  BY <1>2
<1> QED BY <1>3

LEMMA Appended ==
  ASSUME NEW S, NEW q \in Seq(S), NEW c \in S
  PROVE  LET r == Append(q, c)
         IN  /\ r \in Seq(S) /\ Len(q) \in Nat /\ Len(r) = Len(q) + 1
             /\ DOMAIN q = 1 .. Len(q) /\ DOMAIN r = 1 .. Len(q) + 1
             /\ r[Len(q) + 1] = c /\ \A i \in 1 .. Len(q) : r[i] = q[i]
<1>1. Len(q) \in Nat /\ DOMAIN q = 1 .. Len(q)
  BY LenProperties
<1>2. /\ Append(q, c) \in Seq(S) /\ Len(Append(q, c)) = Len(q) + 1
      /\ Append(q, c)[Len(q) + 1] = c
      /\ \A i \in 1 .. Len(q) : Append(q, c)[i] = q[i]
  BY AppendProperties
<1>3. DOMAIN Append(q, c) = 1 .. Len(q) + 1
  BY <1>2, LenProperties
<1> QED BY <1>1, <1>2, <1>3
-------------------------------------------------------------------------------
(***************************************************************************)
(* An index: its parts have their types, the parents of its scopes lead to *)
(* the module, and its references are resolved by what was there.          *)
(***************************************************************************)
Ends == [start : Nat, end : Nat]
Selected == [start : Nat, end : Nat, half : 0 .. 2]
ScopeKinds == {"Module", "Function", "Class", "Lambda", "Comprehension"}
SymbolKinds == {"Variable", "Parameter", "Function", "Method", "Class", "Import",
                "ImportedSymbol"}
Scope == [kind : ScopeKinds, parent : Nat, range : Ends]
Symbol == [name : Names, kind : SymbolKinds, range : Ends, selection : Selected,
           scope : Nat]
Reference == [name : Names, range : Ends, resolved : Nat, scope : Nat, seen : Nat,
              entered : Nat]
Index == [scopes : Seq(Scope), symbols : Seq(Symbol), references : Seq(Reference),
          current : Nat]

Rooted(ix) ==
  \A s \in DOMAIN ix.scopes : Parent(ix, s) < s /\ (Parent(ix, s) = 0 <=> s = ROOT)

\* The symbols of a name that a reference could see when it was resolved.
Seen(ix, ref) ==
  [s \in DOMAIN ix.scopes |->
     IF ix.scopes[s].kind = "Class" /\ s # ref.scope THEN {}
     ELSE {i \in Named(ix, ref.name, s) : i <= ref.seen}]

ReferenceOK(ix, ref) ==
  /\ ref.scope \in DOMAIN ix.scopes
  /\ ref.seen <= Len(ix.symbols) /\ ref.resolved \in 0 .. ref.seen
  /\ ref.resolved = Climb(ix, ref.scope, Seen(ix, ref))
  /\ ref.resolved # 0 => ix.symbols[ref.resolved].name = ref.name

IndexOK(ix) ==
  /\ ix \in Index /\ ix.current \in DOMAIN ix.scopes /\ Rooted(ix)
  /\ \A i \in DOMAIN ix.symbols : ix.symbols[i].scope \in DOMAIN ix.scopes
  /\ \A r \in DOMAIN ix.references : ReferenceOK(ix, ix.references[r])

\* What an index has in common with those it becomes.
Grows(ix, jx) ==
  /\ Len(ix.scopes) <= Len(jx.scopes) /\ Len(ix.symbols) <= Len(jx.symbols)
  /\ \A s \in DOMAIN ix.scopes : /\ jx.scopes[s].kind = ix.scopes[s].kind
                                 /\ jx.scopes[s].parent = ix.scopes[s].parent
  /\ \A i \in DOMAIN ix.symbols : /\ jx.symbols[i].scope = ix.symbols[i].scope
                                  /\ jx.symbols[i].name = ix.symbols[i].name

LEMMA IndexParts ==
  ASSUME NEW ix \in Index
  PROVE  /\ ix.scopes \in Seq(Scope) /\ ix.symbols \in Seq(Symbol)
         /\ ix.references \in Seq(Reference) /\ ix.current \in Nat
         /\ Len(ix.scopes) \in Nat /\ DOMAIN ix.scopes = 1 .. Len(ix.scopes)
         /\ Len(ix.symbols) \in Nat /\ DOMAIN ix.symbols = 1 .. Len(ix.symbols)
         /\ Len(ix.references) \in Nat
         /\ DOMAIN ix.references = 1 .. Len(ix.references)
         /\ \A s \in DOMAIN ix.scopes : ix.scopes[s] \in Scope
         /\ \A i \in DOMAIN ix.symbols : ix.symbols[i] \in Symbol
         /\ \A r \in DOMAIN ix.references : ix.references[r] \in Reference
<1>1. /\ ix.scopes \in Seq(Scope) /\ ix.symbols \in Seq(Symbol)
      /\ ix.references \in Seq(Reference) /\ ix.current \in Nat
  BY DEF Index
<1>2. /\ Len(ix.scopes) \in Nat /\ DOMAIN ix.scopes = 1 .. Len(ix.scopes)
      /\ \A s \in DOMAIN ix.scopes : ix.scopes[s] \in Scope
  BY <1>1, LenProperties, ElementOfSeq
<1>3. /\ Len(ix.symbols) \in Nat /\ DOMAIN ix.symbols = 1 .. Len(ix.symbols)
      /\ \A i \in DOMAIN ix.symbols : ix.symbols[i] \in Symbol
  BY <1>1, LenProperties, ElementOfSeq
<1>4. /\ Len(ix.references) \in Nat
      /\ DOMAIN ix.references = 1 .. Len(ix.references)
      /\ \A r \in DOMAIN ix.references : ix.references[r] \in Reference
  BY <1>1, LenProperties, ElementOfSeq
<1> QED BY <1>1, <1>2, <1>3, <1>4
-------------------------------------------------------------------------------
(***************************************************************************)
(* resolve_name.                                                           *)
(***************************************************************************)
LEMMA ParentAbove ==
  ASSUME NEW ix \in Index, Rooted(ix), NEW s \in DOMAIN ix.scopes, s # ROOT
  PROVE  Parent(ix, s) \in 1 .. s - 1 /\ Parent(ix, s) \in DOMAIN ix.scopes
<1>1. Len(ix.scopes) \in Nat /\ s \in 1 .. Len(ix.scopes) /\ ix.scopes[s] \in Scope
  BY IndexParts
<1>2. Parent(ix, s) \in Nat
  BY <1>1 DEF Scope, Parent
<1>3. Parent(ix, s) < s /\ Parent(ix, s) # 0
  BY DEF Rooted
<1>4. Parent(ix, s) \in 1 .. Len(ix.scopes)
  BY <1>1, <1>2, <1>3
<1> QED BY <1>1, <1>2, <1>3, <1>4, IndexParts

LEMMA ClimbDef ==
  ASSUME NEW ix \in Index, Rooted(ix), NEW found,
         DOMAIN found = DOMAIN ix.scopes, NEW from \in DOMAIN ix.scopes
  PROVE  Climb(ix, from, found)
           = IF found[from] # {} THEN Min(found[from])
             ELSE IF from = ROOT THEN 0 ELSE Climb(ix, Parent(ix, from), found)
<1> DEFINE n == Len(ix.scopes)
           Value(g, s) == IF found[s] # {} THEN Min(found[s])
                          ELSE IF s = ROOT THEN 0 ELSE g[Parent(ix, s)]
           Solves(g, k) == \A s \in 1 .. k : g[s] = Value(g, s)
           S == {k \in 0 .. n : \E g : Solves(g, k)}
<1>1. n \in Nat /\ DOMAIN ix.scopes = 1 .. n
  BY IndexParts
<1>2. \A s \in 1 .. n : s # ROOT => Parent(ix, s) \in 1 .. s - 1
  BY <1>1, ParentAbove
<1> HIDE DEF n
<1>3. 0 \in S
  <2>1. Solves(<<>>, 0)
    OBVIOUS
  <2> QED BY <1>1, <2>1
<1>4. ASSUME NEW k \in 0 .. n - 1, k \in S PROVE k + 1 \in S
  <2>1. PICK g : Solves(g, k)
    BY <1>4
  <2> DEFINE h == [s \in 1 .. n |-> IF s = k + 1 THEN Value(g, s) ELSE g[s]]
  <2>2. /\ h[k + 1] = Value(g, k + 1)
        /\ \A s \in 1 .. k : h[s] = g[s]
    BY <1>1
  <2> HIDE DEF h
  <2>3. ASSUME NEW s \in 1 .. k + 1 PROVE h[s] = Value(h, s)
    <3>1. s # ROOT => h[Parent(ix, s)] = g[Parent(ix, s)]
      BY <1>1, <1>2, <2>2
    <3>2. h[s] = Value(g, s)
      BY <2>1, <2>2
    <3> QED BY <3>1, <3>2
  <2>4. Solves(h, k + 1)
    BY <2>3
  <2> HIDE DEF Solves
  <2> QED BY <1>1, <2>4
<1>5. PICK g : Solves(g, n)
  <2>1. n \in S
    <3> HIDE DEF S
    <3>1. \A k \in 0 .. n : k \in S
      BY <1>1, <1>3, <1>4, Upwards
    <3> QED BY <1>1, <3>1
  <2> QED BY <2>1
<1> DEFINE f == [s \in 1 .. n |-> g[s]]
           at == CHOOSE h : h = [s \in DOMAIN found |-> Value(h, s)]
<1>6. f = [s \in DOMAIN found |-> Value(f, s)]
  <2>1. ASSUME NEW s \in 1 .. n PROVE g[s] = Value(f, s)
    <3>1. s # ROOT => f[Parent(ix, s)] = g[Parent(ix, s)]
      BY <1>1, <1>2
    <3> HIDE DEF f
    <3> QED BY <1>5, <3>1
  <2> QED BY <1>1, <2>1
<1>7. at = [s \in DOMAIN found |-> Value(at, s)]
  <2> HIDE DEF f
  <2> QED BY <1>6
<1>8. \A s : Climb(ix, s, found) = at[s]
  BY DEF Climb
<1> HIDE DEF at
<1> QED BY <1>7, <1>8

\* The symbol that is found is one of those in the scopes on the way.
LEMMA ClimbFinds ==
  ASSUME NEW ix \in Index, Rooted(ix), NEW found,
         DOMAIN found = DOMAIN ix.scopes,
         \A s \in DOMAIN ix.scopes : found[s] \subseteq Nat,
         NEW from \in DOMAIN ix.scopes
  PROVE  \/ Climb(ix, from, found) = 0
         \/ \E s \in DOMAIN ix.scopes : Climb(ix, from, found) \in found[s]
<1> DEFINE n == Len(ix.scopes)
           Good(s) == \/ Climb(ix, s, found) = 0
                      \/ \E t \in DOMAIN ix.scopes : Climb(ix, s, found) \in found[t]
           S == {k \in 0 .. n : \A s \in 1 .. k : Good(s)}
<1>1. n \in Nat /\ DOMAIN ix.scopes = 1 .. n
  BY IndexParts
<1>2. \A s \in 1 .. n : s # ROOT => Parent(ix, s) \in 1 .. s - 1
  BY <1>1, ParentAbove
<1> HIDE DEF n
<1>3. ASSUME NEW s \in 1 .. n, s # ROOT => Good(Parent(ix, s)) PROVE Good(s)
  <2>1. Climb(ix, s, found)
          = IF found[s] # {} THEN Min(found[s])
            ELSE IF s = ROOT THEN 0 ELSE Climb(ix, Parent(ix, s), found)
    BY <1>1, ClimbDef
  <2>2. found[s] # {} => Min(found[s]) \in found[s]
    BY <1>1, LeastOf
  <2> QED BY <1>1, <1>3, <2>1, <2>2
<1>4. \A k \in 0 .. n : k \in S
  <2> HIDE DEF Good
  <2>1. 0 \in S
    BY <1>1
  <2>2. \A k \in 0 .. n - 1 : k \in S => k + 1 \in S
    BY <1>1, <1>2, <1>3
  <2> HIDE DEF S
  <2> QED BY <1>1, <2>1, <2>2, Upwards
<1> HIDE DEF Good
<1>5. Good(from)
  BY <1>1, <1>4
<1> QED BY <1>5 DEF Good

\* It is found alike in an index that has the same scopes and symbols there.
LEMMA ClimbSame ==
  ASSUME NEW ix \in Index, Rooted(ix), NEW jx \in Index, Rooted(jx), Grows(ix, jx),
         NEW found, DOMAIN found = DOMAIN ix.scopes,
         NEW again, DOMAIN again = DOMAIN jx.scopes,
         \A s \in DOMAIN ix.scopes : found[s] = again[s],
         NEW from \in DOMAIN ix.scopes
  PROVE  Climb(jx, from, again) = Climb(ix, from, found)
<1> DEFINE n == Len(ix.scopes)
           Good(s) == Climb(jx, s, again) = Climb(ix, s, found)
           S == {k \in 0 .. n : \A s \in 1 .. k : Good(s)}
<1>1. /\ n \in Nat /\ DOMAIN ix.scopes = 1 .. n
      /\ \A s \in 1 .. n : s \in DOMAIN jx.scopes
  BY IndexParts DEF Grows
<1>2. \A s \in 1 .. n : s # ROOT => Parent(ix, s) \in 1 .. s - 1
  BY <1>1, ParentAbove
<1>3. \A s \in 1 .. n : Parent(jx, s) = Parent(ix, s)
  BY <1>1 DEF Grows, Parent
<1> HIDE DEF n
<1>4. ASSUME NEW s \in 1 .. n, s # ROOT => Good(Parent(ix, s)) PROVE Good(s)
  <2>1. Climb(ix, s, found)
          = IF found[s] # {} THEN Min(found[s])
            ELSE IF s = ROOT THEN 0 ELSE Climb(ix, Parent(ix, s), found)
    BY <1>1, ClimbDef
  <2>2. Climb(jx, s, again)
          = IF again[s] # {} THEN Min(again[s])
            ELSE IF s = ROOT THEN 0 ELSE Climb(jx, Parent(jx, s), again)
    BY <1>1, ClimbDef
  <2> QED BY <1>1, <1>3, <1>4, <2>1, <2>2
<1>5. \A k \in 0 .. n : k \in S
  <2> HIDE DEF Good
  <2>1. 0 \in S
    BY <1>1
  <2>2. \A k \in 0 .. n - 1 : k \in S => k + 1 \in S
    BY <1>1, <1>2, <1>4
  <2> HIDE DEF S
  <2> QED BY <1>1, <2>1, <2>2, Upwards
<1> HIDE DEF Good
<1>6. Good(from)
  BY <1>1, <1>5
<1> QED BY <1>6 DEF Good

\* A reference stays resolved when symbols and scopes are added.
LEMMA ReferenceKept ==
  ASSUME NEW ix \in Index, Rooted(ix), NEW jx \in Index, Rooted(jx), Grows(ix, jx),
         NEW ref \in Reference, ReferenceOK(ix, ref)
  PROVE  ReferenceOK(jx, ref)
<1>1. /\ Len(ix.scopes) \in Nat /\ DOMAIN ix.scopes = 1 .. Len(ix.scopes)
      /\ Len(jx.scopes) \in Nat /\ DOMAIN jx.scopes = 1 .. Len(jx.scopes)
      /\ Len(ix.symbols) \in Nat /\ DOMAIN ix.symbols = 1 .. Len(ix.symbols)
      /\ Len(jx.symbols) \in Nat /\ DOMAIN jx.symbols = 1 .. Len(jx.symbols)
  BY IndexParts
<1>2. /\ Len(ix.scopes) <= Len(jx.scopes) /\ Len(ix.symbols) <= Len(jx.symbols)
      /\ ref.scope \in DOMAIN ix.scopes /\ ref.seen \in Nat /\ ref.resolved \in Nat
      /\ ref.seen <= Len(ix.symbols) /\ ref.resolved \in 0 .. ref.seen
  BY DEF Grows, ReferenceOK, Reference
<1>3. ASSUME NEW s \in DOMAIN ix.scopes
      PROVE  Seen(ix, ref)[s] = Seen(jx, ref)[s]
  <2>1. {i \in Named(ix, ref.name, s) : i <= ref.seen}
          = {i \in 1 .. ref.seen : ix.symbols[i].scope = s /\ ix.symbols[i].name = ref.name}
    BY <1>1, <1>2 DEF Named, SymbolsOf, Symbols
  <2>2. {i \in Named(jx, ref.name, s) : i <= ref.seen}
          = {i \in 1 .. ref.seen : jx.symbols[i].scope = s /\ jx.symbols[i].name = ref.name}
    BY <1>1, <1>2 DEF Named, SymbolsOf, Symbols
  <2>3. \A i \in 1 .. ref.seen : /\ jx.symbols[i].scope = ix.symbols[i].scope
                                 /\ jx.symbols[i].name = ix.symbols[i].name
    <3>1. \A i \in 1 .. ref.seen : i \in DOMAIN ix.symbols
      BY <1>1, <1>2
    <3>2. \A i \in DOMAIN ix.symbols : /\ jx.symbols[i].scope = ix.symbols[i].scope
                                      /\ jx.symbols[i].name = ix.symbols[i].name
      BY DEF Grows
    <3> QED BY <3>1, <3>2
  <2>4. {i \in Named(ix, ref.name, s) : i <= ref.seen}
          = {i \in Named(jx, ref.name, s) : i <= ref.seen}
    BY <2>1, <2>2, <2>3
  <2>5. s \in DOMAIN jx.scopes /\ jx.scopes[s].kind = ix.scopes[s].kind
    BY <1>1, <1>2 DEF Grows
  <2> QED BY <2>4, <2>5 DEF Seen
<1>4. Climb(jx, ref.scope, Seen(jx, ref)) = Climb(ix, ref.scope, Seen(ix, ref))
  <2>1. DOMAIN Seen(ix, ref) = DOMAIN ix.scopes /\ DOMAIN Seen(jx, ref) = DOMAIN jx.scopes
    BY DEF Seen
  <2> QED BY <1>2, <1>3, <2>1, ClimbSame
<1>5. ref.resolved # 0 => jx.symbols[ref.resolved].name = ref.name
  BY <1>1, <1>2 DEF Grows, ReferenceOK
<1> QED BY <1>1, <1>2, <1>4, <1>5 DEF ReferenceOK

\* What resolve_name returns.
LEMMA ResolvesSeen ==
  ASSUME NEW ix, IndexOK(ix), NEW ref \in Reference,
         ref.scope \in DOMAIN ix.scopes, ref.seen = Len(ix.symbols),
         ref.resolved = ResolveName(ix, ref.name, ref.scope)
  PROVE  ReferenceOK(ix, ref)
<1>1. ix \in Index /\ Rooted(ix)
  BY DEF IndexOK
<1>2. Len(ix.symbols) \in Nat /\ DOMAIN ix.symbols = 1 .. Len(ix.symbols)
  BY <1>1, IndexParts
<1>3. Seen(ix, ref) = [s \in DOMAIN ix.scopes |->
                         IF ix.scopes[s].kind = "Class" /\ s # ref.scope THEN {}
                         ELSE Named(ix, ref.name, s)]
  <2>1. \A s : {i \in Named(ix, ref.name, s) : i <= ref.seen} = Named(ix, ref.name, s)
    BY <1>2 DEF Named, SymbolsOf, Symbols
  <2> QED BY <2>1 DEF Seen
<1>4. ref.resolved = Climb(ix, ref.scope, Seen(ix, ref))
  BY <1>3 DEF ResolveName
<1>5. /\ DOMAIN Seen(ix, ref) = DOMAIN ix.scopes
      /\ \A s \in DOMAIN ix.scopes :
           /\ Seen(ix, ref)[s] \subseteq 1 .. Len(ix.symbols)
           /\ \A i \in Seen(ix, ref)[s] : ix.symbols[i].name = ref.name
  BY <1>2 DEF Seen, Named, SymbolsOf, Symbols
<1>6. \/ ref.resolved = 0
      \/ \E s \in DOMAIN ix.scopes : ref.resolved \in Seen(ix, ref)[s]
  <2>1. \A s \in DOMAIN ix.scopes : Seen(ix, ref)[s] \subseteq Nat
    BY <1>2, <1>5
  <2> QED BY <1>1, <1>4, <1>5, <2>1, ClimbFinds
<1>7. /\ ref.resolved \in 0 .. ref.seen
      /\ ref.resolved # 0 => ix.symbols[ref.resolved].name = ref.name
  BY <1>2, <1>5, <1>6
<1> QED BY <1>2, <1>4, <1>7 DEF ReferenceOK

LEMMA ResolveNameType ==
  ASSUME NEW ix, IndexOK(ix), NEW name, NEW from \in DOMAIN ix.scopes
  PROVE  /\ ResolveName(ix, name, from) \in 0 .. Len(ix.symbols)
<1> DEFINE found == [s \in DOMAIN ix.scopes |->
                       IF ix.scopes[s].kind = "Class" /\ s # from THEN {}
                       ELSE Named(ix, name, s)]
<1>1. ix \in Index /\ Rooted(ix)
  BY DEF IndexOK
<1>2. Len(ix.symbols) \in Nat /\ DOMAIN ix.symbols = 1 .. Len(ix.symbols)
  BY <1>1, IndexParts
<1>3. /\ DOMAIN found = DOMAIN ix.scopes
      /\ \A s \in DOMAIN ix.scopes : found[s] \subseteq 1 .. Len(ix.symbols)
  BY <1>2 DEF Named, SymbolsOf, Symbols
<1>4. ResolveName(ix, name, from) = Climb(ix, from, found)
  BY DEF ResolveName
<1> HIDE DEF found
<1>5. \A s \in DOMAIN ix.scopes : found[s] \subseteq Nat
  BY <1>2, <1>3
<1>6. \/ Climb(ix, from, found) = 0
      \/ \E s \in DOMAIN ix.scopes : Climb(ix, from, found) \in found[s]
  BY <1>1, <1>3, <1>5, ClimbFinds
<1> QED BY <1>2, <1>3, <1>4, <1>6
-------------------------------------------------------------------------------
(***************************************************************************)
(* What one step of a visit adds to the index.                             *)
(***************************************************************************)
Extends(ix, jx) ==
  /\ jx.current = ix.current
  /\ Len(ix.scopes) <= Len(jx.scopes) /\ Len(ix.symbols) <= Len(jx.symbols)
  /\ Len(ix.references) <= Len(jx.references)
  /\ \A s \in DOMAIN ix.scopes : jx.scopes[s] = ix.scopes[s]
  /\ \A i \in DOMAIN ix.symbols : jx.symbols[i] = ix.symbols[i]
  /\ \A r \in DOMAIN ix.references : jx.references[r] = ix.references[r]

LEMMA ExtendsSame == \A ix : ix \in Index => Extends(ix, ix)
<1> SUFFICES ASSUME NEW ix \in Index PROVE Extends(ix, ix)
  OBVIOUS
<1> QED BY IndexParts DEF Extends

LEMMA ExtendsOn ==
  ASSUME NEW ix \in Index, NEW jx \in Index, NEW kx \in Index,
         Extends(ix, jx), Extends(jx, kx)
  PROVE  Extends(ix, kx)
<1>1. /\ Len(ix.scopes) \in Nat /\ DOMAIN ix.scopes = 1 .. Len(ix.scopes)
      /\ Len(ix.symbols) \in Nat /\ DOMAIN ix.symbols = 1 .. Len(ix.symbols)
      /\ Len(ix.references) \in Nat
      /\ DOMAIN ix.references = 1 .. Len(ix.references)
  BY IndexParts
<1>2. /\ Len(jx.scopes) \in Nat /\ DOMAIN jx.scopes = 1 .. Len(jx.scopes)
      /\ Len(jx.symbols) \in Nat /\ DOMAIN jx.symbols = 1 .. Len(jx.symbols)
      /\ Len(jx.references) \in Nat
      /\ DOMAIN jx.references = 1 .. Len(jx.references)
  BY IndexParts
<1>3. /\ Len(kx.scopes) \in Nat /\ Len(kx.symbols) \in Nat
      /\ Len(kx.references) \in Nat
  BY IndexParts
<1>4. /\ kx.current = ix.current
      /\ Len(ix.scopes) <= Len(kx.scopes) /\ Len(ix.symbols) <= Len(kx.symbols)
      /\ Len(ix.references) <= Len(kx.references)
  <2>1. /\ kx.current = jx.current /\ jx.current = ix.current
        /\ Len(ix.scopes) <= Len(jx.scopes) /\ Len(jx.scopes) <= Len(kx.scopes)
        /\ Len(ix.symbols) <= Len(jx.symbols) /\ Len(jx.symbols) <= Len(kx.symbols)
        /\ Len(ix.references) <= Len(jx.references)
        /\ Len(jx.references) <= Len(kx.references)
    BY DEF Extends
  <2>2. \A a, b, c \in Nat : a <= b /\ b <= c => a <= c
    OBVIOUS
  <2>3. Len(ix.scopes) <= Len(kx.scopes)
    BY <1>1, <1>2, <1>3, <2>1, <2>2, Zenon
  <2>4. Len(ix.symbols) <= Len(kx.symbols)
    BY <1>1, <1>2, <1>3, <2>1, <2>2, Zenon
  <2>5. Len(ix.references) <= Len(kx.references)
    BY <1>1, <1>2, <1>3, <2>1, <2>2, Zenon
  <2> QED BY <2>1, <2>3, <2>4, <2>5
<1>5. \A s \in DOMAIN ix.scopes : kx.scopes[s] = ix.scopes[s]
  BY <1>1, <1>2 DEF Extends
<1>6. \A i \in DOMAIN ix.symbols : kx.symbols[i] = ix.symbols[i]
  BY <1>1, <1>2 DEF Extends
<1>7. \A r \in DOMAIN ix.references : kx.references[r] = ix.references[r]
  BY <1>1, <1>2 DEF Extends
<1> QED BY <1>4, <1>5, <1>6, <1>7 DEF Extends

LEMMA SymbolAdded ==
  ASSUME NEW ix, IndexOK(ix), NEW name \in Names, NEW kind \in SymbolKinds,
         NEW range \in Ends, NEW selection \in Selected
  PROVE  LET jx == AddSymbol(ix, name, kind, range, selection)
             n  == Len(ix.symbols)
         IN  /\ IndexOK(jx) /\ Extends(ix, jx)
             /\ jx.scopes = ix.scopes /\ jx.references = ix.references
             /\ Len(jx.symbols) = n + 1
             /\ jx.symbols[n + 1] = [name |-> name, kind |-> kind, range |-> range,
                                     selection |-> selection, scope |-> ix.current]
<1> DEFINE jx  == AddSymbol(ix, name, kind, range, selection)
           n   == Len(ix.symbols)
           new == [name |-> name, kind |-> kind, range |-> range,
                   selection |-> selection, scope |-> ix.current]
<1>1. ix \in Index /\ Rooted(ix) /\ ix.current \in DOMAIN ix.scopes
  BY DEF IndexOK
<1>2. new \in Symbol
  BY <1>1 DEF Symbol, Index
<1>3. /\ jx.symbols = Append(ix.symbols, new)
      /\ jx.scopes = ix.scopes /\ jx.references = ix.references
      /\ jx.current = ix.current
      /\ Append(ix.symbols, new) \in Seq(Symbol) => jx \in Index
  BY <1>1 DEF AddSymbol, Index
<1> HIDE DEF jx, new
<1>4. /\ jx.symbols \in Seq(Symbol) /\ n \in Nat /\ Len(jx.symbols) = n + 1
      /\ DOMAIN ix.symbols = 1 .. n /\ DOMAIN jx.symbols = 1 .. n + 1
      /\ jx.symbols[n + 1] = new /\ \A i \in 1 .. n : jx.symbols[i] = ix.symbols[i]
  BY <1>1, <1>2, <1>3, IndexParts, Appended
<1> HIDE DEF n
<1>5. jx \in Index
  BY <1>3, <1>4
<1>6. Rooted(jx)
  BY <1>1, <1>3 DEF Rooted, Parent
<1>7. Len(ix.scopes) \in Nat /\ Len(ix.references) \in Nat
  BY <1>1, IndexParts
<1>8. Extends(ix, jx)
  BY <1>3, <1>4, <1>7 DEF Extends, n
<1>9. Grows(ix, jx)
  BY <1>3, <1>4, <1>7 DEF Grows, n
<1>10. \A i \in DOMAIN jx.symbols : jx.symbols[i].scope \in DOMAIN jx.scopes
  <2>1. new.scope = ix.current
    BY DEF new
  <2>2. \A i \in DOMAIN ix.symbols : ix.symbols[i].scope \in DOMAIN ix.scopes
    BY DEF IndexOK
  <2> QED BY <1>1, <1>3, <1>4, <2>1, <2>2
<1>11. \A r \in DOMAIN jx.references : ReferenceOK(jx, jx.references[r])
  <2> SUFFICES ASSUME NEW r \in DOMAIN ix.references
               PROVE  ReferenceOK(jx, ix.references[r])
    BY <1>3
  <2>1. ix.references[r] \in Reference /\ ReferenceOK(ix, ix.references[r])
    BY <1>1, IndexParts DEF IndexOK
  <2> QED BY <1>1, <1>5, <1>6, <1>9, <2>1, ReferenceKept
<1>12. IndexOK(jx)
  BY <1>1, <1>3, <1>5, <1>6, <1>10, <1>11 DEF IndexOK
<1> QED BY <1>3, <1>4, <1>8, <1>12 DEF n, jx, new

LEMMA ReferenceAdded ==
  ASSUME NEW ix, IndexOK(ix), NEW name \in Names, NEW at \in Nat
  PROVE  LET jx == AddReference(ix, name, at)
             n  == Len(ix.references)
             ref == jx.references[n + 1]
         IN  name # Missing =>
             /\ IndexOK(jx) /\ Extends(ix, jx)
             /\ jx.scopes = ix.scopes /\ jx.symbols = ix.symbols
             /\ Len(jx.references) = n + 1
             /\ ref.range = Span(at, at + 1) /\ ref.scope = ix.current
             /\ ref.entered = Len(ix.scopes)
<1> SUFFICES ASSUME name # Missing
             PROVE  LET jx == AddReference(ix, name, at)
                        n  == Len(ix.references)
                        ref == jx.references[n + 1]
                    IN  /\ IndexOK(jx) /\ Extends(ix, jx)
                        /\ jx.scopes = ix.scopes /\ jx.symbols = ix.symbols
                        /\ Len(jx.references) = n + 1
                        /\ ref.range = Span(at, at + 1) /\ ref.scope = ix.current
                        /\ ref.entered = Len(ix.scopes)
  OBVIOUS
<1> DEFINE jx  == AddReference(ix, name, at)
           n   == Len(ix.references)
           to  == ResolveName(ix, name, ix.current)
           new == [name |-> name, range |-> Span(at, at + 1), resolved |-> to,
                   scope |-> ix.current, seen |-> Len(ix.symbols),
                   entered |-> Len(ix.scopes)]
<1>1. ix \in Index /\ Rooted(ix) /\ ix.current \in DOMAIN ix.scopes
  BY DEF IndexOK
<1>2. /\ new \in Reference /\ new.scope = ix.current /\ new.name = name
      /\ new.range = Span(at, at + 1) /\ new.seen = Len(ix.symbols)
      /\ new.resolved = to /\ new.entered = Len(ix.scopes)
  <2>1. Len(ix.symbols) \in Nat /\ Len(ix.scopes) \in Nat /\ ix.current \in Nat
    BY <1>1, IndexParts
  <2>2. to \in Nat
    BY <1>1, <2>1, ResolveNameType
  <2> HIDE DEF to
  <2>3. Span(at, at + 1) \in Ends
    BY DEF Span, Ends
  <2> QED BY <2>1, <2>2, <2>3 DEF Reference
<1>3. /\ jx.references = Append(ix.references, new)
      /\ jx.scopes = ix.scopes /\ jx.symbols = ix.symbols
      /\ jx.current = ix.current
      /\ Append(ix.references, new) \in Seq(Reference) => jx \in Index
  <2> HIDE DEF to
  <2>1. jx = [ix EXCEPT !.references = Append(@, new)]
    BY DEF AddReference, to
  <2> HIDE DEF jx, new
  <2> QED BY <1>1, <2>1 DEF Index
<1>4. ReferenceOK(ix, new)
  <2> HIDE DEF new
  <2> QED BY <1>1, <1>2, ResolvesSeen
<1> HIDE DEF jx, new, to
<1>5. /\ jx.references \in Seq(Reference) /\ n \in Nat /\ Len(jx.references) = n + 1
      /\ DOMAIN ix.references = 1 .. n /\ DOMAIN jx.references = 1 .. n + 1
      /\ jx.references[n + 1] = new
      /\ \A r \in 1 .. n : jx.references[r] = ix.references[r]
  BY <1>1, <1>2, <1>3, IndexParts, Appended
<1> HIDE DEF n
<1>6. jx \in Index
  BY <1>3, <1>5
<1>7. Rooted(jx)
  BY <1>1, <1>3 DEF Rooted, Parent
<1>8. Len(ix.scopes) \in Nat /\ Len(ix.symbols) \in Nat
  BY <1>1, IndexParts
<1>9. Extends(ix, jx)
  BY <1>3, <1>5, <1>8 DEF Extends, n
<1>10. Grows(ix, jx)
  BY <1>3, <1>8 DEF Grows
<1>11. \A i \in DOMAIN jx.symbols : jx.symbols[i].scope \in DOMAIN jx.scopes
  BY <1>3 DEF IndexOK
<1>12. ASSUME NEW r \in DOMAIN jx.references PROVE ReferenceOK(jx, jx.references[r])
  <2>1. \/ jx.references[r] = new
        \/ r \in DOMAIN ix.references /\ jx.references[r] = ix.references[r]
    BY <1>5
  <2>2. jx.references[r] \in Reference /\ ReferenceOK(ix, jx.references[r])
    BY <1>1, <1>2, <1>4, <2>1, IndexParts DEF IndexOK
  <2> QED BY <1>1, <1>6, <1>7, <1>10, <2>2, ReferenceKept
<1>13. IndexOK(jx)
  BY <1>1, <1>3, <1>6, <1>7, <1>11, <1>12 DEF IndexOK
<1> QED BY <1>2, <1>3, <1>5, <1>9, <1>13 DEF n, jx

LEMMA ScopeAdded ==
  ASSUME NEW ix, IndexOK(ix), NEW kind \in ScopeKinds, NEW range \in Ends
  PROVE  LET jx == AddScope(ix, kind, range)
             n  == Len(ix.scopes)
         IN  /\ IndexOK(jx) /\ Grows(ix, jx)
             /\ jx.symbols = ix.symbols /\ jx.references = ix.references
             /\ jx.current = n + 1 /\ Len(jx.scopes) = n + 1
             /\ jx.scopes[n + 1] = [kind |-> kind, parent |-> ix.current,
                                    range |-> range]
             /\ \A s \in DOMAIN ix.scopes : jx.scopes[s] = ix.scopes[s]
<1> DEFINE jx  == AddScope(ix, kind, range)
           n   == Len(ix.scopes)
           new == [kind |-> kind, parent |-> ix.current, range |-> range]
<1>1. ix \in Index /\ Rooted(ix) /\ ix.current \in DOMAIN ix.scopes
  BY DEF IndexOK
<1>2. new \in Scope /\ new.parent = ix.current
  BY <1>1 DEF Scope, Index
<1>3. /\ jx.scopes = Append(ix.scopes, new) /\ jx.current = n + 1
      /\ jx.symbols = ix.symbols /\ jx.references = ix.references
      /\ Append(ix.scopes, new) \in Seq(Scope) /\ n + 1 \in Nat => jx \in Index
  BY <1>1 DEF AddScope, Index
<1> HIDE DEF jx, new
<1>4. /\ jx.scopes \in Seq(Scope) /\ n \in Nat /\ Len(jx.scopes) = n + 1
      /\ DOMAIN ix.scopes = 1 .. n /\ DOMAIN jx.scopes = 1 .. n + 1
      /\ jx.scopes[n + 1] = new /\ \A s \in 1 .. n : jx.scopes[s] = ix.scopes[s]
  BY <1>1, <1>2, <1>3, IndexParts, Appended
<1> HIDE DEF n
<1>5. jx \in Index
  BY <1>3, <1>4
<1>6. Rooted(jx)
  <2> SUFFICES ASSUME NEW s \in 1 .. n + 1
               PROVE  Parent(jx, s) < s /\ (Parent(jx, s) = 0 <=> s = ROOT)
    BY <1>4 DEF Rooted
  <2>1. CASE s \in 1 .. n
    <3>1. Parent(jx, s) = Parent(ix, s)
      BY <1>4, <2>1 DEF Parent
    <3> QED BY <1>1, <1>4, <2>1, <3>1 DEF Rooted
  <2>2. CASE s = n + 1
    <3>1. Parent(jx, s) = ix.current /\ ix.current \in 1 .. n
      BY <1>1, <1>2, <1>4, <2>2 DEF Parent
    <3> QED BY <1>4, <2>2, <3>1 DEF ROOT
  <2> QED BY <1>4, <2>1, <2>2
<1>7. Len(ix.symbols) \in Nat
  BY <1>1, IndexParts
<1>8. Grows(ix, jx)
  BY <1>3, <1>4, <1>7 DEF Grows, n
<1>9. \A i \in DOMAIN jx.symbols : jx.symbols[i].scope \in DOMAIN jx.scopes
  BY <1>3, <1>4 DEF IndexOK
<1>10. \A r \in DOMAIN jx.references : ReferenceOK(jx, jx.references[r])
  <2> SUFFICES ASSUME NEW r \in DOMAIN ix.references
               PROVE  ReferenceOK(jx, ix.references[r])
    BY <1>3
  <2>1. ix.references[r] \in Reference /\ ReferenceOK(ix, ix.references[r])
    BY <1>1, IndexParts DEF IndexOK
  <2> QED BY <1>1, <1>5, <1>6, <1>8, <2>1, ReferenceKept
<1>11. IndexOK(jx)
  BY <1>3, <1>4, <1>5, <1>6, <1>9, <1>10 DEF IndexOK
<1> QED BY <1>3, <1>4, <1>8, <1>11 DEF n, jx, new
-------------------------------------------------------------------------------
(***************************************************************************)
(* Where what is collected lies. The end of what is still open is unknown, *)
(* and behind everything.                                                  *)
(***************************************************************************)
Closed(range) == range.end # Open
Precedes(range, other) == Closed(range) /\ range.end <= other.start
LiesIn(range, outer) ==
  /\ outer.start <= range.start
  /\ Closed(outer) => Closed(range) /\ range.end <= outer.end
In(range, lo, hi) ==
  Closed(range) /\ lo <= range.start /\ range.start <= range.end /\ range.end <= hi
Apart(range, lo, hi) == Closed(range) /\ (range.end <= lo \/ hi <= range.start)

Extent(ix, s) == ix.scopes[s].range

\* The scopes of expressions, and those whose head is visited before they are
\* entered.
LocalKinds == {"Lambda", "Comprehension"}
DefiningKinds == {"Function", "Class"}

\* Two scopes of one parent, the second of which was entered later: those of
\* one default, or one in the head of the other, may not be apart.
Beside(scope, later) ==
  \/ Precedes(scope.range, later.range) \/ Precedes(later.range, scope.range)
  \/ /\ scope.kind \in LocalKinds /\ later.kind \in LocalKinds
     /\ Closed(scope.range) /\ scope.range = later.range
  \/ /\ scope.kind \in LocalKinds /\ later.kind \in DefiningKinds
     /\ Closed(scope.range) /\ LiesIn(scope.range, later.range)

ScopesApart(ix) ==
  /\ \A s \in DOMAIN ix.scopes : s # ROOT => LiesIn(Extent(ix, s), Extent(ix, Parent(ix, s)))
  /\ \A t, u \in DOMAIN ix.scopes :
       t < u /\ Parent(ix, t) = Parent(ix, u) => Beside(ix.scopes[t], ix.scopes[u])

SymbolNests(ix, symbol) == LiesIn(symbol.selection, Extent(ix, symbol.scope))

ReferenceNests(ix, ref) ==
  /\ ref.range.end = ref.range.start + 1
  /\ LiesIn(ref.range, Extent(ix, ref.scope)) /\ ref.entered <= Len(ix.scopes)
  /\ \A t \in DOMAIN ix.scopes :
       Parent(ix, t) = ref.scope => \/ ix.scopes[t].kind \in DefiningKinds /\ ref.entered < t
                                    \/ Precedes(ref.range, Extent(ix, t))
                                    \/ Precedes(Extent(ix, t), ref.range)

Nested(ix) ==
  /\ ScopesApart(ix)
  /\ \A i \in DOMAIN ix.symbols : SymbolNests(ix, ix.symbols[i])
  /\ \A r \in DOMAIN ix.references : ReferenceNests(ix, ix.references[r])

\* A stretch of the text is the current scope's own,
Room(ix, lo, hi) ==
  /\ LiesIn(Span(lo, hi), Extent(ix, ix.current))
  /\ \A t \in DOMAIN ix.scopes :
       Parent(ix, t) = ix.current => Apart(Extent(ix, t), lo, hi)

\* and nothing in it is used yet.
Blank(ix, lo, hi) ==
  \A r \in DOMAIN ix.references :
    ix.references[r].scope = ix.current => Apart(ix.references[r].range, lo, hi)

\* A place for an expression: what is there already is of visits of it.
Scoped(e) == e.form \in {"lambda", "comprehension"}
Free(ix, e, lo, hi) ==
  /\ LiesIn(Span(lo, hi), Extent(ix, ix.current))
  /\ \A t \in DOMAIN ix.scopes :
       Parent(ix, t) = ix.current =>
         \/ Apart(Extent(ix, t), lo, hi)
         \/ /\ Scoped(e) /\ ix.scopes[t].kind \in LocalKinds
            /\ Extent(ix, t) = Span(lo, hi)
  /\ Scoped(e) => Blank(ix, lo, hi)

\* What is added by a visit of it.
Own(ix, jx, e, lo, hi) ==
  /\ \A s \in DOMAIN jx.scopes \ DOMAIN ix.scopes :
       /\ Scoped(e) /\ jx.scopes[s].kind \in LocalKinds /\ Extent(jx, s) = Span(lo, hi)
  /\ Scoped(e) => \A r \in DOMAIN jx.references \ DOMAIN ix.references :
                    jx.references[r].scope # jx.current

\* What is used is used in the current scope.
RefersHere(ix, jx) ==
  \A r \in DOMAIN jx.references \ DOMAIN ix.references :
    jx.references[r].scope = ix.current

\* What is added lies in a stretch of the text.
Adds(ix, jx, lo, hi) ==
  /\ \A s \in DOMAIN jx.scopes \ DOMAIN ix.scopes : In(Extent(jx, s), lo, hi)
  /\ \A i \in DOMAIN jx.symbols \ DOMAIN ix.symbols :
       In(jx.symbols[i].selection, lo, hi)
  /\ \A r \in DOMAIN jx.references \ DOMAIN ix.references :
       In(jx.references[r].range, lo, hi)

Good(ix) == IndexOK(ix) /\ Nested(ix)
Visits(ix, jx, lo, hi) == Good(jx) /\ Extends(ix, jx) /\ Adds(ix, jx, lo, hi)
-------------------------------------------------------------------------------
(***************************************************************************)
(* Between statements: the scopes that are open are those of the blocks    *)
(* the visit is in, the innermost is current, and the text is behind all   *)
(* that is closed.                                                         *)
(***************************************************************************)
Around(f, ix, blks) ==
  /\ f \in [0 .. Len(blks) -> DOMAIN ix.scopes]
  /\ f[0] = ROOT /\ f[Len(blks)] = ix.current
  /\ \A k \in 1 .. Len(blks) :
       IF blks[k].scope = 0 THEN f[k] = f[k - 1]
       ELSE f[k] = blks[k].scope /\ Parent(ix, f[k]) = f[k - 1]
  /\ \A j, k \in 0 .. Len(blks) : j <= k => f[j] <= f[k]
  /\ \A s \in DOMAIN ix.scopes :
       ~ Closed(Extent(ix, s)) <=> \E k \in 0 .. Len(blks) : f[k] = s
  /\ \A i \in DOMAIN ix.symbols :
       ~ Closed(ix.symbols[i].selection) =>
         \E k \in 1 .. Len(blks) : blks[k].symbol = i /\ ix.symbols[i].scope = f[k - 1]

BlockKinds == {"def", "class", "branch", "for", "with", "try", "except"}
Blocks == [kind : BlockKinds, symbol : Nat, scope : Nat, empty : BOOLEAN]
BlocksOK(blks) ==
  /\ blks \in Seq(Blocks)
  /\ \A k \in DOMAIN blks : blks[k].scope # 0 <=> blks[k].kind \in {"def", "class"}

EndsBy(ix, here) ==
  /\ \A s \in DOMAIN ix.scopes : Extent(ix, s).start <= here /\ Extent(ix, s).end <= here
  /\ \A i \in DOMAIN ix.symbols : /\ ix.symbols[i].selection.start <= here
                                  /\ ix.symbols[i].selection.end <= here
  /\ \A r \in DOMAIN ix.references : /\ ix.references[r].range.start <= here
                                     /\ ix.references[r].range.end <= here

Visiting(ix, blks, here) ==
  /\ BlocksOK(blks) /\ EndsBy(ix, here)
  /\ \E f \in [0 .. Len(blks) -> DOMAIN ix.scopes] : Around(f, ix, blks)
  /\ blks # <<>> => here # 0

AllClosed(ix) ==
  /\ \A s \in DOMAIN ix.scopes : Closed(Extent(ix, s))
  /\ \A i \in DOMAIN ix.symbols : Closed(ix.symbols[i].selection)

Reserved == {"pass", "import", "os", "as", "def", "class", "if", "for", "with", "try", "except"}
Word == Names \cup Reserved \cup {Missing}

IInv ==
  /\ Good(index) /\ text \in Seq(Word)
  /\ IF query = "visiting" THEN Visiting(index, blocks, Here)
     ELSE AllClosed(index) /\ EndsBy(index, Here)
  /\ Len(entries) \in Nat /\ cursor \in 0 .. Len(entries)
  /\ search \in {"idle", "scanning", "done"}
-------------------------------------------------------------------------------
(***************************************************************************)
(* The steps of a visit, within a stretch of the text.                     *)
(***************************************************************************)
LEMMA GoodParts ==
  ASSUME NEW ix, Good(ix)
  PROVE  /\ ix \in Index /\ Rooted(ix) /\ IndexOK(ix)
         /\ ix.current \in DOMAIN ix.scopes
         /\ \A s \in DOMAIN ix.scopes :
              /\ Extent(ix, s) \in Ends
              /\ Extent(ix, s).start \in Nat /\ Extent(ix, s).end \in Nat
              /\ s # ROOT => Parent(ix, s) \in DOMAIN ix.scopes
         /\ \A i \in DOMAIN ix.symbols :
              /\ ix.symbols[i].scope \in DOMAIN ix.scopes
              /\ ix.symbols[i].selection \in Selected
              /\ ix.symbols[i].selection.start \in Nat
              /\ ix.symbols[i].selection.end \in Nat
         /\ \A r \in DOMAIN ix.references :
              /\ ix.references[r].scope \in DOMAIN ix.scopes
              /\ ix.references[r].range \in Ends
              /\ ix.references[r].range.start \in Nat
              /\ ix.references[r].range.end \in Nat
<1>1. ix \in Index /\ Rooted(ix) /\ IndexOK(ix) /\ ix.current \in DOMAIN ix.scopes
  BY DEF Good, IndexOK
<1>2. ASSUME NEW s \in DOMAIN ix.scopes
      PROVE  /\ Extent(ix, s) \in Ends
             /\ Extent(ix, s).start \in Nat /\ Extent(ix, s).end \in Nat
             /\ s # ROOT => Parent(ix, s) \in DOMAIN ix.scopes
  <2>1. ix.scopes[s] \in Scope
    BY <1>1, IndexParts
  <2>2. Extent(ix, s) \in Ends
    BY <2>1 DEF Scope, Extent
  <2>3. s # ROOT => Parent(ix, s) \in DOMAIN ix.scopes
    BY <1>1, ParentAbove
  <2> QED BY <2>2, <2>3 DEF Ends
<1>3. ASSUME NEW i \in DOMAIN ix.symbols
      PROVE  /\ ix.symbols[i].scope \in DOMAIN ix.scopes
             /\ ix.symbols[i].selection \in Selected
             /\ ix.symbols[i].selection.start \in Nat
             /\ ix.symbols[i].selection.end \in Nat
  <2>1. ix.symbols[i] \in Symbol
    BY <1>1, IndexParts
  <2>2. ix.symbols[i].selection \in Selected
    BY <2>1 DEF Symbol
  <2> QED BY <1>1, <2>2 DEF Selected, IndexOK
<1>4. ASSUME NEW r \in DOMAIN ix.references
      PROVE  /\ ix.references[r].scope \in DOMAIN ix.scopes
             /\ ix.references[r].range \in Ends
             /\ ix.references[r].range.start \in Nat
             /\ ix.references[r].range.end \in Nat
  <2>1. ix.references[r] \in Reference
    BY <1>1, IndexParts
  <2>2. ix.references[r].range \in Ends
    BY <2>1 DEF Reference
  <2> QED BY <1>1, <2>2 DEF Ends, IndexOK, ReferenceOK
<1> QED BY <1>1, <1>2, <1>3, <1>4

LEMMA VisitsNothing ==
  ASSUME NEW ix, Good(ix), NEW lo, NEW hi
  PROVE  Visits(ix, ix, lo, hi)
<1>1. Extends(ix, ix)
  BY ExtendsSame, GoodParts
<1> QED BY <1>1 DEF Visits, Adds

LEMMA VisitsOn ==
  ASSUME NEW ix, Good(ix), NEW jx, NEW kx, NEW lo, NEW hi,
         Visits(ix, jx, lo, hi), Visits(jx, kx, lo, hi)
  PROVE  Visits(ix, kx, lo, hi)
<1>1. ix \in Index /\ jx \in Index /\ kx \in Index
  BY GoodParts DEF Visits
<1>2. Extends(ix, kx)
  BY <1>1, ExtendsOn DEF Visits
<1>3. /\ \A s \in DOMAIN jx.scopes : Extent(kx, s) = Extent(jx, s)
      /\ \A i \in DOMAIN jx.symbols : kx.symbols[i] = jx.symbols[i]
      /\ \A r \in DOMAIN jx.references : kx.references[r] = jx.references[r]
  BY DEF Visits, Extends, Extent
<1>4. Adds(ix, kx, lo, hi)
  BY <1>3 DEF Visits, Adds
<1> QED BY <1>2, <1>4 DEF Visits

LEMMA VisitsWider ==
  ASSUME NEW ix, NEW jx, NEW lo \in Nat, NEW hi \in Nat, NEW a \in Nat, NEW b \in Nat,
         Visits(ix, jx, a, b), lo <= a, b <= hi
  PROVE  Visits(ix, jx, lo, hi)
<1>1. \A range \in Ends \cup Selected : In(range, a, b) => In(range, lo, hi)
  BY DEF In, Ends, Selected
<1>2. Adds(ix, jx, lo, hi)
  BY <1>1, GoodParts DEF Visits, Adds
<1> QED BY <1>2 DEF Visits

\* A part of a stretch that is free is free too.
LEMMA RoomWithin ==
  ASSUME NEW ix, Good(ix), NEW lo \in Nat, NEW hi \in Nat, NEW a \in Nat, NEW b \in Nat,
         Room(ix, lo, hi), lo <= a, b <= hi, b # 0
  PROVE  Room(ix, a, b)
<1>1. LiesIn(Span(a, b), Extent(ix, ix.current))
  BY GoodParts DEF Room, LiesIn, Span, Closed, Open
<1>2. ASSUME NEW t \in DOMAIN ix.scopes, Parent(ix, t) = ix.current
      PROVE  Apart(Extent(ix, t), a, b)
  BY <1>2, GoodParts DEF Room, Apart
<1> QED BY <1>1, <1>2 DEF Room

\* What is added to one stretch leaves another free.
LEMMA RoomBeside ==
  ASSUME NEW ix, Good(ix), NEW jx, NEW lo \in Nat, NEW hi \in Nat, NEW a \in Nat,
         NEW b \in Nat, Visits(ix, jx, lo, hi), hi <= a \/ b <= lo
  PROVE  /\ Room(ix, a, b) => Room(jx, a, b)
         /\ Blank(ix, a, b) => Blank(jx, a, b)
<1>1. /\ jx.current = ix.current /\ Good(jx)
      /\ \A s \in DOMAIN ix.scopes : jx.scopes[s] = ix.scopes[s]
      /\ \A r \in DOMAIN ix.references : jx.references[r] = ix.references[r]
  BY DEF Visits, Extends
<1>2. \A range \in Ends : In(range, lo, hi) => Apart(range, a, b)
  BY DEF In, Apart, Ends
<1>3. ASSUME Room(ix, a, b) PROVE Room(jx, a, b)
  <2>1. LiesIn(Span(a, b), Extent(jx, jx.current))
    BY <1>1, <1>3, GoodParts DEF Room, Extent
  <2>2. ASSUME NEW t \in DOMAIN jx.scopes, Parent(jx, t) = jx.current
        PROVE  Apart(Extent(jx, t), a, b)
    <3>1. CASE t \in DOMAIN ix.scopes
      BY <1>1, <1>3, <2>2, <3>1 DEF Room, Extent, Parent
    <3>2. CASE t \notin DOMAIN ix.scopes
      BY <1>1, <1>2, <3>2, GoodParts DEF Visits, Adds
    <3> QED BY <3>1, <3>2
  <2> QED BY <2>1, <2>2 DEF Room
<1>4. ASSUME Blank(ix, a, b) PROVE Blank(jx, a, b)
  <2> SUFFICES ASSUME NEW r \in DOMAIN jx.references,
                      jx.references[r].scope = jx.current
               PROVE  Apart(jx.references[r].range, a, b)
    BY DEF Blank
  <2>1. CASE r \in DOMAIN ix.references
    BY <1>1, <1>4, <2>1 DEF Blank
  <2>2. CASE r \notin DOMAIN ix.references
    BY <1>1, <1>2, <2>2, GoodParts DEF Visits, Adds
  <2> QED BY <2>1, <2>2
<1> QED BY <1>3, <1>4

LEMMA SymbolVisited ==
  ASSUME NEW ix, Good(ix), NEW name \in Names, NEW kind \in SymbolKinds,
         NEW range \in Ends, NEW selection \in Selected,
         LiesIn(selection, Extent(ix, ix.current))
  PROVE  LET jx == AddSymbol(ix, name, kind, range, selection)
         IN  /\ Good(jx) /\ Extends(ix, jx)
             /\ jx.scopes = ix.scopes /\ jx.references = ix.references
             /\ Len(jx.symbols) = Len(ix.symbols) + 1
             /\ jx.symbols[Len(ix.symbols) + 1].selection = selection
             /\ jx.symbols[Len(ix.symbols) + 1].scope = ix.current
             /\ \A lo, hi : In(selection, lo, hi) => Visits(ix, jx, lo, hi)
<1> DEFINE jx == AddSymbol(ix, name, kind, range, selection)
           n  == Len(ix.symbols)
<1>1. /\ IndexOK(jx) /\ Extends(ix, jx)
      /\ jx.scopes = ix.scopes /\ jx.references = ix.references
      /\ Len(jx.symbols) = n + 1
      /\ jx.symbols[n + 1].selection = selection
      /\ jx.symbols[n + 1].scope = ix.current
  <2>1. IndexOK(ix)
    BY DEF Good
  <2>2. /\ IndexOK(jx) /\ Extends(ix, jx)
        /\ jx.scopes = ix.scopes /\ jx.references = ix.references
        /\ Len(jx.symbols) = n + 1
        /\ jx.symbols[n + 1] = [name |-> name, kind |-> kind, range |-> range,
                                selection |-> selection, scope |-> ix.current]
    BY <2>1, SymbolAdded
  <2> HIDE DEF jx
  <2> QED BY <2>2
<1> HIDE DEF jx
<1>2. /\ n \in Nat /\ DOMAIN ix.symbols = 1 .. n /\ DOMAIN jx.symbols = 1 .. n + 1
      /\ \A i \in 1 .. n : jx.symbols[i] = ix.symbols[i]
  <2>1. ix \in Index /\ jx \in Index
    BY <1>1 DEF IndexOK, Good
  <2> QED BY <1>1, <2>1, IndexParts DEF Extends
<1> HIDE DEF n
<1>3. \A s : Extent(jx, s) = Extent(ix, s) /\ Parent(jx, s) = Parent(ix, s)
  BY <1>1 DEF Extent, Parent
<1>4. ASSUME NEW i \in DOMAIN jx.symbols PROVE SymbolNests(jx, jx.symbols[i])
  BY <1>1, <1>2, <1>3 DEF Good, Nested, SymbolNests
<1>5. ASSUME NEW r \in DOMAIN jx.references
      PROVE  ReferenceNests(jx, jx.references[r])
  BY <1>1, <1>3 DEF Good, Nested, ReferenceNests
<1>6. ScopesApart(jx)
  BY <1>1, <1>3 DEF Good, Nested, ScopesApart
<1>7. Good(jx)
  BY <1>1, <1>4, <1>5, <1>6 DEF Good, Nested
<1>8. \A lo, hi : In(selection, lo, hi) => Adds(ix, jx, lo, hi)
  BY <1>1, <1>2 DEF Adds
<1> QED BY <1>1, <1>7, <1>8 DEF Visits, jx, n

LEMMA ReferenceVisited ==
  ASSUME ScopeIndexAssumption, NEW ix, Good(ix), NEW name \in Names \cup {Missing},
         NEW at \in Nat, NEW lo \in Nat, NEW hi \in Nat,
         name # Missing => lo <= at /\ at < hi /\ Room(ix, lo, hi)
  PROVE  LET jx == AddReference(ix, name, at)
         IN  /\ Visits(ix, jx, lo, hi) /\ RefersHere(ix, jx)
             /\ jx.scopes = ix.scopes /\ jx.symbols = ix.symbols
<1> DEFINE jx == AddReference(ix, name, at)
           n  == Len(ix.references)
<1>1. CASE name = Missing
  <2>1. jx = ix
    BY <1>1 DEF AddReference
  <2> HIDE DEF jx
  <2>2. Visits(ix, jx, lo, hi) /\ RefersHere(ix, jx)
    BY <2>1, VisitsNothing DEF RefersHere
  <2> QED BY <2>1, <2>2 DEF jx
<1>2. CASE name # Missing
  <2>1. /\ IndexOK(jx) /\ Extends(ix, jx)
        /\ jx.scopes = ix.scopes /\ jx.symbols = ix.symbols
        /\ Len(jx.references) = n + 1
        /\ jx.references[n + 1].range = Span(at, at + 1)
        /\ jx.references[n + 1].scope = ix.current
        /\ jx.references[n + 1].entered = Len(ix.scopes)
    BY <1>2, ReferenceAdded DEF Good
  <2> HIDE DEF jx
  <2>2. /\ n \in Nat /\ DOMAIN ix.references = 1 .. n
        /\ DOMAIN jx.references = 1 .. n + 1
        /\ \A r \in 1 .. n : jx.references[r] = ix.references[r]
    <3>1. ix \in Index /\ jx \in Index
      BY <2>1 DEF IndexOK, Good
    <3> QED BY <2>1, <3>1, IndexParts DEF Extends
  <2> HIDE DEF n
  <2>3. \A s : Extent(jx, s) = Extent(ix, s) /\ Parent(jx, s) = Parent(ix, s)
    BY <2>1 DEF Extent, Parent
  <2>4. /\ Span(at, at + 1).start = at /\ Span(at, at + 1).end = at + 1
        /\ Closed(Span(at, at + 1))
    BY DEF Span, Closed, Open
  <2>5. Room(ix, at, at + 1)
    BY <1>2, RoomWithin
  <2>6. ReferenceNests(jx, jx.references[n + 1])
    <3> DEFINE ref == jx.references[n + 1]
    <3>1. ref.range.start = at /\ ref.range.end = at + 1 /\ Closed(ref.range)
      BY <2>1, <2>4
    <3>2. LiesIn(ref.range, Extent(jx, ref.scope)) /\ ref.entered <= Len(jx.scopes)
      <4>1. Len(ix.scopes) \in Nat
        BY GoodParts, IndexParts
      <4> QED BY <2>1, <2>3, <2>5, <4>1 DEF Room
    <3>3. ASSUME NEW t \in DOMAIN jx.scopes, Parent(jx, t) = ref.scope
          PROVE  \/ Precedes(ref.range, Extent(jx, t))
                 \/ Precedes(Extent(jx, t), ref.range)
      <4>1. Apart(Extent(ix, t), at, at + 1)
        BY <2>1, <2>3, <2>5, <3>3 DEF Room
      <4> HIDE DEF ref
      <4> QED BY <2>3, <3>1, <4>1 DEF Apart, Precedes
    <3> QED BY <3>1, <3>2, <3>3 DEF ReferenceNests
  <2>7. ASSUME NEW r \in DOMAIN ix.references
        PROVE  ReferenceNests(jx, ix.references[r])
    <3>1. ReferenceNests(ix, ix.references[r])
      BY DEF Good, Nested
    <3> QED BY <2>1, <2>3, <3>1 DEF ReferenceNests
  <2>8. \A r \in DOMAIN jx.references : ReferenceNests(jx, jx.references[r])
    BY <2>2, <2>6, <2>7
  <2>9. \A i \in DOMAIN jx.symbols : SymbolNests(jx, jx.symbols[i])
    BY <2>1, <2>3 DEF Good, Nested, SymbolNests
  <2>10. ScopesApart(jx)
    BY <2>1, <2>3 DEF Good, Nested, ScopesApart
  <2>11. Good(jx)
    BY <2>1, <2>8, <2>9, <2>10 DEF Good, Nested
  <2>12. In(jx.references[n + 1].range, lo, hi)
    BY <1>2, <2>1, <2>4 DEF In
  <2>13. Adds(ix, jx, lo, hi)
    BY <2>1, <2>2, <2>12 DEF Adds
  <2>14. RefersHere(ix, jx)
    BY <2>1, <2>2 DEF RefersHere
  <2> QED BY <2>1, <2>11, <2>13, <2>14 DEF Visits, jx
<1> QED BY <1>1, <1>2

LEMMA SelectionInRoom ==
  ASSUME NEW ix, Good(ix), NEW lo \in Nat, NEW hi \in Nat, NEW at \in Nat,
         lo <= at, at < hi, Room(ix, lo, hi)
  PROVE  /\ Span(at, at + 1) \in Ends /\ Whole(at, at + 1) \in Selected
         /\ In(Whole(at, at + 1), lo, hi)
         /\ LiesIn(Whole(at, at + 1), Extent(ix, ix.current))
<1>1. Room(ix, at, at + 1)
  BY RoomWithin
<1> QED BY <1>1 DEF Room, Span, Whole, Ends, Selected, In, LiesIn, Closed, Open

LEMMA AssignVisited ==
  ASSUME ScopeIndexAssumption, NEW ix, Good(ix), NEW name \in Names \cup {Missing},
         NEW at \in Nat, NEW lo \in Nat, NEW hi \in Nat,
         name # Missing => lo <= at /\ at < hi /\ Room(ix, lo, hi)
  PROVE  LET jx == AssignName(ix, name, at)
         IN  /\ Visits(ix, jx, lo, hi) /\ RefersHere(ix, jx)
             /\ jx.scopes = ix.scopes
<1> DEFINE jx == AssignName(ix, name, at)
           kx == AddSymbol(ix, name, "Variable", Span(at, at + 1), Whole(at, at + 1))
           has == LET to == ResolveName(ix, name, ix.current)
                  IN  to # 0 /\ ix.symbols[to].scope = ix.current
<1>1. jx = ix \/ (name # Missing /\ jx = kx)
  <2>1. CASE name = Missing \/ has
    BY <2>1 DEF AssignName
  <2>2. CASE ~ (name = Missing \/ has)
    BY <2>2 DEF AssignName
  <2> QED BY <2>1, <2>2
<1> HIDE DEF jx
<1>2. CASE jx = ix
  BY <1>2, VisitsNothing DEF jx, RefersHere
<1>3. CASE name # Missing /\ jx = kx
  <2>1. /\ Span(at, at + 1) \in Ends /\ Whole(at, at + 1) \in Selected
        /\ In(Whole(at, at + 1), lo, hi)
        /\ LiesIn(Whole(at, at + 1), Extent(ix, ix.current))
    BY <1>3, SelectionInRoom
  <2>2. name \in Names /\ "Variable" \in SymbolKinds
    BY <1>3 DEF SymbolKinds
  <2>3. Visits(ix, kx, lo, hi) /\ kx.scopes = ix.scopes /\ RefersHere(ix, kx)
    BY <2>1, <2>2, SymbolVisited DEF RefersHere
  <2> HIDE DEF kx
  <2> QED BY <1>3, <2>3 DEF jx
<1> QED BY <1>1, <1>2, <1>3

LEMMA ParameterAdded ==
  ASSUME NEW ix, Good(ix), NEW name \in Names, NEW at \in Nat, NEW end \in Nat,
         NEW lo \in Nat, NEW hi \in Nat, Room(ix, lo, hi), lo <= at, at < hi
  PROVE  LET jx == AddParameter(ix, name, at, end)
         IN  /\ Visits(ix, jx, lo, hi) /\ RefersHere(ix, jx)
             /\ jx.scopes = ix.scopes /\ jx.references = ix.references
<1>1. /\ Whole(at, at + 1) \in Selected /\ In(Whole(at, at + 1), lo, hi)
      /\ LiesIn(Whole(at, at + 1), Extent(ix, ix.current))
  BY SelectionInRoom
<1>2. Span(at, end) \in Ends /\ "Parameter" \in SymbolKinds
  BY DEF Span, Ends, SymbolKinds
<1> QED BY <1>1, <1>2, SymbolVisited DEF AddParameter, RefersHere
-------------------------------------------------------------------------------
(***************************************************************************)
(* The steps of a visit one after the other.                               *)
(***************************************************************************)
Steps(lo, hi) ==
  [op : {"reference", "target", "parameter"}, name : Names, at : lo .. hi - 1]
    \cup [op : {"reference", "target"}, name : {Missing}, at : Nat]

LEMMA DoVisited ==
  ASSUME ScopeIndexAssumption, NEW ix, Good(ix), NEW lo \in Nat, NEW hi \in Nat,
         Room(ix, lo, hi), NEW step \in Steps(lo, hi)
  PROVE  LET jx == Do(ix, step)
         IN  /\ Visits(ix, jx, lo, hi) /\ RefersHere(ix, jx)
             /\ jx.scopes = ix.scopes
<1>1. /\ step.name \in Names \cup {Missing} /\ step.at \in Nat
      /\ step.op \in {"reference", "target", "parameter"}
      /\ step.name # Missing => lo <= step.at /\ step.at < hi
      /\ step.op = "parameter" => step.name \in Names
  <2>1. CASE step \in [op : {"reference", "target", "parameter"}, name : Names,
                       at : lo .. hi - 1]
    BY <2>1
  <2>2. CASE step \in [op : {"reference", "target"}, name : {Missing}, at : Nat]
    BY <2>2
  <2> QED BY <2>1, <2>2 DEF Steps
<1>2. CASE step.op = "reference"
  <2>1. Do(ix, step) = AddReference(ix, step.name, step.at)
    BY <1>2 DEF Do
  <2> QED BY <1>1, <2>1, ReferenceVisited
<1>3. CASE step.op = "target"
  <2>1. Do(ix, step) = AssignName(ix, step.name, step.at)
    BY <1>3 DEF Do
  <2> QED BY <1>1, <2>1, AssignVisited
<1>4. CASE step.op = "parameter"
  <2> DEFINE end == step.at + 2
  <2>1. Do(ix, step) = AddParameter(ix, step.name, step.at, end)
    BY <1>4 DEF Do
  <2>2. /\ step.name \in Names /\ step.at \in Nat /\ end \in Nat
        /\ lo <= step.at /\ step.at < hi
    BY <1>1, <1>4 DEF ScopeIndexAssumption
  <2> HIDE DEF end
  <2> QED BY <2>1, <2>2, ParameterAdded
<1> QED BY <1>1, <1>2, <1>3, <1>4

LEMMA VisitRuns ==
  ASSUME NEW ix, NEW steps, Len(steps) \in Nat
  PROVE  \E g : /\ g[0] = ix /\ Visit(ix, steps) = g[Len(steps)]
                /\ \A k \in 1 .. Len(steps) : g[k] = Do(g[k - 1], steps[k])
<1> DEFINE n == Len(steps)
           Value(g, k) == IF k = 0 THEN ix ELSE Do(g[k - 1], steps[k])
           Solves(g, k) == \A j \in 0 .. k : g[j] = Value(g, j)
           S == {k \in 0 .. n : \E g : Solves(g, k)}
<1>0. n \in Nat
  OBVIOUS
<1>1. \A k : Visit(ix, steps) = (CHOOSE f : f = [j \in 0 .. n |-> Value(f, j)])[n]
  BY DEF Visit
<1> HIDE DEF n
<1>2. 0 \in S
  <2>1. Solves([j \in 0 .. n |-> ix], 0)
    BY <1>0
  <2> HIDE DEF Solves
  <2> QED BY <1>0, <2>1
<1>3. ASSUME NEW k \in 0 .. n - 1, k \in S PROVE k + 1 \in S
  <2>1. PICK g : Solves(g, k)
    BY <1>3
  <2> DEFINE h == [j \in 0 .. n |-> IF j = k + 1 THEN Value(g, j) ELSE g[j]]
  <2>2. /\ h[k + 1] = Value(g, k + 1)
        /\ \A j \in 0 .. k : h[j] = g[j]
    BY <1>0
  <2> HIDE DEF h
  <2>3. ASSUME NEW j \in 0 .. k + 1 PROVE h[j] = Value(h, j)
    <3>1. j # 0 => h[j - 1] = g[j - 1]
      BY <1>0, <2>2
    <3>2. h[j] = Value(g, j)
      BY <2>1, <2>2
    <3> QED BY <3>1, <3>2
  <2>4. Solves(h, k + 1)
    BY <2>3
  <2> HIDE DEF Solves
  <2> QED BY <1>0, <2>4
<1>4. PICK g : Solves(g, n)
  <2>1. n \in S
    <3> HIDE DEF S
    <3>1. \A k \in 0 .. n : k \in S
      BY <1>0, <1>2, <1>3, Upwards
    <3> QED BY <1>0, <3>1
  <2> QED BY <2>1
<1> DEFINE f == [j \in 0 .. n |-> g[j]]
           after == CHOOSE h : h = [j \in 0 .. n |-> Value(h, j)]
<1>5. f = [j \in 0 .. n |-> Value(f, j)]
  <2>1. ASSUME NEW j \in 0 .. n PROVE g[j] = Value(f, j)
    <3>1. j # 0 => f[j - 1] = g[j - 1]
      BY <1>0
    <3> HIDE DEF f
    <3> QED BY <1>4, <3>1
  <2> QED BY <2>1
<1>6. after = [j \in 0 .. n |-> Value(after, j)]
  <2> HIDE DEF f
  <2> QED BY <1>5
<1>7. Visit(ix, steps) = after[n]
  BY <1>1
<1> HIDE DEF after
<1>8. after[0] = ix /\ \A k \in 1 .. n : after[k] = Do(after[k - 1], steps[k])
  BY <1>0, <1>6
<1> QED BY <1>7, <1>8 DEF n

LEMMA RefersOn ==
  ASSUME NEW ix, NEW jx, NEW kx, Extends(ix, jx), Extends(jx, kx),
         RefersHere(ix, jx), RefersHere(jx, kx)
  PROVE  RefersHere(ix, kx)
<1> SUFFICES ASSUME NEW r \in DOMAIN kx.references \ DOMAIN ix.references
             PROVE  kx.references[r].scope = ix.current
  BY DEF RefersHere
<1>1. CASE r \in DOMAIN jx.references
  BY <1>1 DEF RefersHere, Extends
<1>2. CASE r \notin DOMAIN jx.references
  BY <1>2 DEF RefersHere, Extends
<1> QED BY <1>1, <1>2

LEMMA VisitVisited ==
  ASSUME ScopeIndexAssumption, NEW ix, Good(ix), NEW lo \in Nat, NEW hi \in Nat,
         Room(ix, lo, hi), NEW steps \in Seq(Steps(lo, hi))
  PROVE  LET jx == Visit(ix, steps)
         IN  /\ Visits(ix, jx, lo, hi) /\ RefersHere(ix, jx)
             /\ jx.scopes = ix.scopes
<1> DEFINE n == Len(steps)
<1>1. n \in Nat /\ \A k \in 1 .. n : steps[k] \in Steps(lo, hi)
  BY LenProperties, ElementOfSeq
<1>2. PICK g : /\ g[0] = ix /\ Visit(ix, steps) = g[n]
               /\ \A k \in 1 .. n : g[k] = Do(g[k - 1], steps[k])
  BY <1>1, VisitRuns
<1> HIDE DEF n
<1> DEFINE S == {k \in 0 .. n : /\ Visits(ix, g[k], lo, hi) /\ RefersHere(ix, g[k])
                               /\ g[k].scopes = ix.scopes}
<1>3. 0 \in S
  BY <1>1, <1>2, VisitsNothing DEF RefersHere
<1>4. ASSUME NEW k \in 0 .. n - 1, k \in S PROVE k + 1 \in S
  <2>1. /\ k + 1 \in 1 .. n /\ k + 1 \in 0 .. n
        /\ g[k + 1] = Do(g[k], steps[k + 1])
    <3>1. k + 1 \in 1 .. n /\ k + 1 \in 0 .. n /\ (k + 1) - 1 = k
      BY <1>1
    <3> QED BY <1>2, <3>1
  <2>2. /\ Visits(ix, g[k], lo, hi) /\ RefersHere(ix, g[k])
        /\ g[k].scopes = ix.scopes
    BY <1>4
  <2>3. Good(g[k]) /\ Room(g[k], lo, hi)
    <3>1. g[k].current = ix.current
      BY <2>2 DEF Visits, Extends
    <3> QED BY <2>2, <3>1 DEF Visits, Room, Extent, Parent
  <2>4. /\ Visits(g[k], g[k + 1], lo, hi) /\ RefersHere(g[k], g[k + 1])
        /\ g[k + 1].scopes = g[k].scopes
    <3>1. steps[k + 1] \in Steps(lo, hi)
      BY <1>1, <2>1
    <3> QED BY <2>1, <2>3, <3>1, DoVisited
  <2>5. Visits(ix, g[k + 1], lo, hi)
    BY <2>2, <2>4, VisitsOn
  <2>6. RefersHere(ix, g[k + 1])
    BY <2>2, <2>4, RefersOn DEF Visits
  <2> QED BY <2>1, <2>2, <2>4, <2>5, <2>6
<1>5. n \in S
  <2> HIDE DEF S
  <2>1. \A k \in 0 .. n : k \in S
    BY <1>1, <1>3, <1>4, Upwards
  <2> QED BY <1>1, <2>1
<1> QED BY <1>2, <1>5
-------------------------------------------------------------------------------
(***************************************************************************)
(* Expressions.                                                            *)
(***************************************************************************)
LEMMA LastAndFront ==
  ASSUME NEW S, NEW q \in Seq(S), q # <<>>
  PROVE  /\ Last(q) = q[Len(q)] /\ Len(q) \in Nat \ {0} /\ DOMAIN q = 1 .. Len(q)
         /\ Front(q) \in Seq(S) /\ Len(Front(q)) = Len(q) - 1
         /\ \A i \in 1 .. Len(q) - 1 : Front(q)[i] = q[i]
<1>1. Len(q) \in Nat \ {0} /\ DOMAIN q = 1 .. Len(q)
  BY LenProperties, EmptySeq
<1>2. /\ Front(q) \in Seq(S) /\ Len(Front(q)) = Len(q) - 1
      /\ \A i \in 1 .. Len(q) - 1 : Front(q)[i] = q[i]
  BY <1>1, SubSeqProperties, ElementOfSeq DEF Front
<1> QED BY <1>1, <1>2 DEF Last

LEMMA Arities ==
  /\ DOMAIN Arity = {"name", "choice", "walrus", "lambda", "comprehension"}
  /\ Arity["name"] = 1 /\ Arity["choice"] = 3 /\ Arity["walrus"] = 2
  /\ Arity["lambda"] = 3 /\ Arity["comprehension"] = 4
  BY DEF Arity

LEMMA ExpressionParts ==
  ASSUME NEW e \in Expression
  PROVE  /\ e.names \in Seq(Names \cup {Missing}) /\ Len(e.names) \in Nat
         /\ DOMAIN e.names = 1 .. Len(e.names)
         /\ Words(e) \in Seq(Names \cup {Missing}) /\ Len(Words(e)) \in Nat
         /\ e.form \in DOMAIN Arity \cup {"uses", "tuple"}
         /\ \A i \in DOMAIN e.names :
              /\ e.names[i] \in Names \cup {Missing}
              /\ e.names[i] # Missing => i <= Len(Words(e))
         /\ e.form # "uses" => /\ Len(Words(e)) = Len(e.names)
                               /\ \A i \in DOMAIN e.names : e.names[i] \in Names
         /\ e.form \in DOMAIN Arity => Len(e.names) = Arity[e.form]
<1> DEFINE T == Names \cup {Missing}
           q == e.names
<1>1. /\ q \in Seq(T) /\ e.form \in DOMAIN Arity \cup {"uses", "tuple"}
      /\ e.form \in DOMAIN Arity => Len(q) = Arity[e.form]
      /\ \A i \in DOMAIN q : q[i] = Missing => e.form = "uses" /\ i = Len(q)
  BY DEF Expression
<1>2. Len(q) \in Nat /\ DOMAIN q = 1 .. Len(q) /\ \A i \in DOMAIN q : q[i] \in T
  BY <1>1, LenProperties, ElementOfSeq
<1>3. Words(e) = IF q # <<>> /\ Last(q) = Missing THEN Front(q) ELSE q
  BY DEF Words
<1> HIDE DEF q, T
<1>4. CASE q # <<>> /\ Last(q) = Missing
  <2>1. /\ Last(q) = q[Len(q)] /\ Len(q) \in Nat \ {0}
        /\ Front(q) \in Seq(T) /\ Len(Front(q)) = Len(q) - 1
    BY <1>1, <1>4, LastAndFront
  <2>2. Len(q) \in DOMAIN q /\ q[Len(q)] = Missing
    BY <1>2, <1>4, <2>1
  <2>3. e.form = "uses"
    BY <1>1, <2>2
  <2>4. Words(e) \in Seq(T) /\ Len(Words(e)) = Len(q) - 1
    BY <1>3, <1>4, <2>1
  <2>5. \A i \in DOMAIN q : q[i] # Missing => i <= Len(q) - 1
    BY <1>2, <2>1, <2>2
  <2>6. Len(q) - 1 \in Nat
    BY <2>1
  <2> QED BY <1>1, <1>2, <2>3, <2>4, <2>5, <2>6 DEF q, T
<1>5. CASE ~ (q # <<>> /\ Last(q) = Missing)
  <2>1. Words(e) = q
    BY <1>3, <1>5
  <2>2. \A i \in DOMAIN q : i <= Len(q)
    BY <1>2
  <2>3. \A i \in DOMAIN q : e.form # "uses" => q[i] \in Names
    BY <1>1, <1>2 DEF T
  <2> QED BY <1>1, <1>2, <2>1, <2>2, <2>3 DEF q, T
<1> QED BY <1>4, <1>5

LEMMA ScopeEntered ==
  ASSUME NEW ix, Good(ix), NEW kind \in ScopeKinds, NEW range \in Ends,
         LiesIn(range, Extent(ix, ix.current)),
         \A t \in DOMAIN ix.scopes :
           Parent(ix, t) = ix.current =>
             Beside(ix.scopes[t], [kind |-> kind, parent |-> ix.current, range |-> range]),
         \A r \in DOMAIN ix.references :
           LET ref == ix.references[r]
           IN  ref.scope = ix.current =>
                 \/ kind \in DefiningKinds
                 \/ Precedes(ref.range, range) \/ Precedes(range, ref.range)
  PROVE  LET jx == AddScope(ix, kind, range)
             n  == Len(ix.scopes)
         IN  /\ Good(jx) /\ Grows(ix, jx) /\ jx.current = n + 1
             /\ jx.symbols = ix.symbols /\ jx.references = ix.references
             /\ n \in Nat /\ DOMAIN ix.scopes = 1 .. n /\ DOMAIN jx.scopes = 1 .. n + 1
             /\ Extent(jx, n + 1) = range /\ Parent(jx, n + 1) = ix.current
             /\ \A s \in DOMAIN ix.scopes : jx.scopes[s] = ix.scopes[s]
             /\ \A s \in DOMAIN jx.scopes : Parent(jx, s) # n + 1
<1> DEFINE jx  == AddScope(ix, kind, range)
           n   == Len(ix.scopes)
           new == [kind |-> kind, parent |-> ix.current, range |-> range]
<1>1. /\ IndexOK(jx) /\ Grows(ix, jx)
      /\ jx.symbols = ix.symbols /\ jx.references = ix.references
      /\ jx.current = n + 1 /\ Len(jx.scopes) = n + 1
      /\ jx.scopes[n + 1] = new
      /\ \A s \in DOMAIN ix.scopes : jx.scopes[s] = ix.scopes[s]
  BY ScopeAdded DEF Good
<1> HIDE DEF jx
<1>2. /\ n \in Nat /\ DOMAIN ix.scopes = 1 .. n /\ DOMAIN jx.scopes = 1 .. n + 1
      /\ n = Len(ix.scopes) /\ Len(jx.scopes) = n + 1
  BY <1>1, IndexParts DEF IndexOK, Good
<1> HIDE DEF n
<1>3. /\ new.parent = ix.current /\ new.range = range /\ new.kind = kind
      /\ \A t \in DOMAIN ix.scopes : Parent(ix, t) = ix.current => Beside(ix.scopes[t], new)
  OBVIOUS
<1> HIDE DEF new
<1>4. /\ Extent(jx, n + 1) = range /\ Parent(jx, n + 1) = ix.current
      /\ \A s \in DOMAIN ix.scopes : /\ Extent(jx, s) = Extent(ix, s)
                                     /\ Parent(jx, s) = Parent(ix, s)
  BY <1>1, <1>3 DEF Extent, Parent
<1>5. /\ ix.current \in 1 .. n /\ ROOT \in 1 .. n /\ Rooted(ix)
      /\ \A s \in 1 .. n : s # ROOT => Parent(ix, s) \in 1 .. n
  <2>1. ix.current \in 1 .. n /\ \A s \in 1 .. n : s # ROOT => Parent(ix, s) \in 1 .. n
    BY <1>2, GoodParts
  <2>2. ROOT \in 1 .. n
    BY <1>2, <2>1 DEF ROOT
  <2> QED BY <2>1, <2>2, GoodParts
<1>6. \A s \in DOMAIN jx.scopes : Parent(jx, s) # n + 1
  <2> SUFFICES ASSUME NEW s \in 1 .. n + 1 PROVE Parent(jx, s) < n + 1
    BY <1>2
  <2>1. CASE s = n + 1
    BY <1>2, <1>4, <1>5, <2>1
  <2>2. CASE s \in 1 .. n
    BY <1>2, <1>4, <1>5, <2>2 DEF Rooted
  <2> QED BY <1>2, <2>1, <2>2
<1>7. ScopesApart(jx)
  <2>1. ASSUME NEW s \in 1 .. n + 1, s # ROOT
        PROVE  LiesIn(Extent(jx, s), Extent(jx, Parent(jx, s)))
    <3>1. CASE s = n + 1
      BY <1>2, <1>4, <1>5, <3>1
    <3>2. CASE s \in 1 .. n
      BY <1>2, <1>4, <1>5, <2>1, <3>2 DEF Good, Nested, ScopesApart
    <3> QED BY <1>2, <3>1, <3>2
  <2>2. ASSUME NEW t \in 1 .. n + 1, NEW u \in 1 .. n + 1, t < u,
               Parent(jx, t) = Parent(jx, u)
        PROVE  Beside(jx.scopes[t], jx.scopes[u])
    <3>1. t \in 1 .. n
      BY <1>2, <2>2
    <3>2. CASE u \in 1 .. n
      BY <1>1, <1>2, <1>4, <2>2, <3>1, <3>2 DEF Good, Nested, ScopesApart
    <3>3. CASE u = n + 1
      BY <1>1, <1>2, <1>3, <1>4, <2>2, <3>1, <3>3
    <3> QED BY <1>2, <2>2, <3>1, <3>2, <3>3
  <2> QED BY <1>2, <2>1, <2>2 DEF ScopesApart
<1>8. ASSUME NEW i \in DOMAIN ix.symbols PROVE SymbolNests(jx, ix.symbols[i])
  BY <1>4, GoodParts DEF Good, Nested, SymbolNests
<1>9. ASSUME NEW r \in DOMAIN ix.references
      PROVE  ReferenceNests(jx, ix.references[r])
  <2> DEFINE ref == ix.references[r]
  <2>1. ReferenceNests(ix, ref) /\ ref.scope \in DOMAIN ix.scopes
    BY GoodParts DEF Good, Nested
  <2>2. ref.scope = ix.current => \/ kind \in DefiningKinds
                                  \/ Precedes(ref.range, range)
                                  \/ Precedes(range, ref.range)
    OBVIOUS
  <2> HIDE DEF ref
  <2>3. ref.entered <= n
    BY <1>2, <2>1 DEF ReferenceNests
  <2>4. ref.entered \in Nat
    <3>1. ix.references[r] \in Reference
      BY GoodParts, IndexParts
    <3> QED BY <3>1 DEF Reference, ref
  <2>5. ASSUME NEW t \in 1 .. n + 1, Parent(jx, t) = ref.scope
        PROVE  \/ jx.scopes[t].kind \in DefiningKinds /\ ref.entered < t
               \/ Precedes(ref.range, Extent(jx, t))
               \/ Precedes(Extent(jx, t), ref.range)
    <3>1. CASE t = n + 1
      BY <1>1, <1>2, <1>3, <1>4, <2>2, <2>3, <2>4, <2>5, <3>1
    <3>2. CASE t \in 1 .. n
      BY <1>1, <1>2, <1>4, <2>1, <2>5, <3>2 DEF ReferenceNests
    <3> QED BY <1>2, <3>1, <3>2
  <2>6. ReferenceNests(jx, ref)
    BY <1>2, <1>4, <2>1, <2>3, <2>4, <2>5 DEF ReferenceNests
  <2> QED BY <2>6 DEF ref
<1>10. Good(jx)
  BY <1>1, <1>7, <1>8, <1>9 DEF Good, Nested
<1> QED BY <1>1, <1>2, <1>4, <1>6, <1>10 DEF jx, n

LEMMA ScopeLeft ==
  ASSUME NEW ix, Good(ix), ix.current # ROOT
  PROVE  LET jx == Leave(ix)
         IN  /\ Good(jx) /\ jx.current = Parent(ix, ix.current)
             /\ jx.scopes = ix.scopes /\ jx.symbols = ix.symbols
             /\ jx.references = ix.references
<1> DEFINE jx == Leave(ix)
           c  == Parent(ix, ix.current)
<1>1. ix \in Index /\ Rooted(ix) /\ c \in DOMAIN ix.scopes
  BY GoodParts
<1>2. c \in Nat
  BY <1>1, IndexParts
<1>3. /\ jx \in Index /\ jx.current = c /\ jx.scopes = ix.scopes
      /\ jx.symbols = ix.symbols /\ jx.references = ix.references
  <2>1. jx = [ix EXCEPT !.current = c]
    BY <1>1 DEF Leave, Index
  <2> HIDE DEF jx, c
  <2> QED BY <1>1, <1>2, <2>1 DEF Index
<1> HIDE DEF jx, c
<1>4. \A s : Extent(jx, s) = Extent(ix, s) /\ Parent(jx, s) = Parent(ix, s)
  BY <1>3 DEF Extent, Parent
<1>5. Rooted(jx)
  BY <1>1, <1>3, <1>4 DEF Rooted
<1>6. Grows(ix, jx)
  BY <1>1, <1>3, IndexParts DEF Grows
<1>7. \A r \in DOMAIN jx.references : ReferenceOK(jx, jx.references[r])
  <2> SUFFICES ASSUME NEW r \in DOMAIN ix.references
               PROVE  ReferenceOK(jx, ix.references[r])
    BY <1>3
  <2>1. ix.references[r] \in Reference /\ ReferenceOK(ix, ix.references[r])
    BY <1>1, IndexParts DEF Good, IndexOK
  <2> QED BY <1>1, <1>3, <1>5, <1>6, <2>1, ReferenceKept
<1>8. IndexOK(jx)
  BY <1>1, <1>3, <1>5, <1>7 DEF Good, IndexOK
<1>9. ScopesApart(jx)
  BY <1>3, <1>4 DEF Good, Nested, ScopesApart
<1>10. \A i \in DOMAIN jx.symbols : SymbolNests(jx, jx.symbols[i])
  BY <1>3, <1>4 DEF Good, Nested, SymbolNests
<1>11. \A r \in DOMAIN jx.references : ReferenceNests(jx, jx.references[r])
  BY <1>3, <1>4 DEF Good, Nested, ReferenceNests
<1> QED BY <1>3, <1>8, <1>9, <1>10, <1>11 DEF Good, Nested, jx, c

\* Where nothing is yet is a place for any expression, and one that only uses
\* names needs no more.
LEMMA FreeHere ==
  ASSUME NEW ix, NEW e, NEW lo, NEW hi, Room(ix, lo, hi), Blank(ix, lo, hi)
  PROVE  Free(ix, e, lo, hi)
  BY DEF Free, Room

LEMMA RoomThere ==
  ASSUME NEW ix, NEW e, NEW lo, NEW hi, Free(ix, e, lo, hi), ~ Scoped(e)
  PROVE  Room(ix, lo, hi)
  BY DEF Free, Room

\* A visit of an expression leaves room for another of it,
LEMMA FreeAgain ==
  ASSUME NEW ix, Good(ix), NEW jx, NEW e, NEW lo \in Nat, NEW hi \in Nat,
         Free(ix, e, lo, hi), Visits(ix, jx, lo, hi), Own(ix, jx, e, lo, hi)
  PROVE  Free(jx, e, lo, hi)
<1>1. /\ jx.current = ix.current
      /\ \A s \in DOMAIN ix.scopes : jx.scopes[s] = ix.scopes[s]
      /\ \A r \in DOMAIN ix.references : jx.references[r] = ix.references[r]
  BY DEF Visits, Extends
<1>2. LiesIn(Span(lo, hi), Extent(jx, jx.current))
  BY <1>1, GoodParts DEF Free, Extent
<1>3. ASSUME NEW t \in DOMAIN jx.scopes, Parent(jx, t) = jx.current
      PROVE  \/ Apart(Extent(jx, t), lo, hi)
             \/ /\ Scoped(e) /\ jx.scopes[t].kind \in LocalKinds
                /\ Extent(jx, t) = Span(lo, hi)
  <2>1. CASE t \in DOMAIN ix.scopes
    BY <1>1, <1>3, <2>1 DEF Free, Extent, Parent
  <2>2. CASE t \notin DOMAIN ix.scopes
    BY <2>2 DEF Own
  <2> QED BY <2>1, <2>2
<1>4. ASSUME Scoped(e) PROVE Blank(jx, lo, hi)
  <2> SUFFICES ASSUME NEW r \in DOMAIN jx.references,
                      jx.references[r].scope = jx.current
               PROVE  Apart(jx.references[r].range, lo, hi)
    BY DEF Blank
  <2>1. r \in DOMAIN ix.references
    BY <1>4 DEF Own
  <2> QED BY <1>1, <1>4, <2>1 DEF Free, Blank
<1> QED BY <1>2, <1>3, <1>4 DEF Free

\* and one of another stretch takes nothing from it.
LEMMA FreeBeside ==
  ASSUME NEW ix, Good(ix), NEW jx, NEW e, NEW lo \in Nat, NEW hi \in Nat, NEW a \in Nat,
         NEW b \in Nat, Visits(ix, jx, lo, hi), hi <= a \/ b <= lo, Free(ix, e, a, b)
  PROVE  Free(jx, e, a, b)
<1>1. /\ jx.current = ix.current /\ Good(jx)
      /\ \A s \in DOMAIN ix.scopes : jx.scopes[s] = ix.scopes[s]
  BY DEF Visits, Extends
<1>2. \A range \in Ends : In(range, lo, hi) => Apart(range, a, b)
  BY DEF In, Apart, Ends
<1>3. LiesIn(Span(a, b), Extent(jx, jx.current))
  BY <1>1, GoodParts DEF Free, Extent
<1>4. ASSUME NEW t \in DOMAIN jx.scopes, Parent(jx, t) = jx.current
      PROVE  \/ Apart(Extent(jx, t), a, b)
             \/ /\ Scoped(e) /\ jx.scopes[t].kind \in LocalKinds
                /\ Extent(jx, t) = Span(a, b)
  <2>1. CASE t \in DOMAIN ix.scopes
    BY <1>1, <1>4, <2>1 DEF Free, Extent, Parent
  <2>2. CASE t \notin DOMAIN ix.scopes
    BY <1>1, <1>2, <2>2, GoodParts DEF Visits, Adds
  <2> QED BY <2>1, <2>2
<1>5. Scoped(e) => Blank(jx, a, b)
  BY RoomBeside DEF Free
<1> QED BY <1>3, <1>4, <1>5 DEF Free

\* A scope of an expression, which is entered and left after some steps.
LEMMA ScopeVisited ==
  ASSUME ScopeIndexAssumption, NEW ix, Good(ix), NEW lo \in Nat, NEW hi \in Nat,
         NEW e, Scoped(e), lo < hi, Free(ix, e, lo, hi),
         NEW kind \in LocalKinds, NEW steps \in Seq(Steps(lo, hi))
  PROVE  LET jx == Leave(Visit(AddScope(ix, kind, Span(lo, hi)), steps))
         IN  Visits(ix, jx, lo, hi) /\ Own(ix, jx, e, lo, hi)
<1> DEFINE range == Span(lo, hi)
           ax == AddScope(ix, kind, range)
           kx == Visit(ax, steps)
           jx == Leave(kx)
           n  == Len(ix.scopes)
           new == [kind |-> kind, parent |-> ix.current, range |-> range]
<1>1. /\ range \in Ends /\ range.start = lo /\ range.end = hi /\ Closed(range)
      /\ In(range, lo, hi) /\ LiesIn(range, range)
  BY DEF Span, Ends, Closed, Open, In, LiesIn
<1> HIDE DEF range
<1>2. LiesIn(range, Extent(ix, ix.current))
  BY DEF Free, range
<1>13. /\ kind \in ScopeKinds /\ new.kind = kind /\ new.range = range
      /\ kind \notin DefiningKinds
  BY DEF LocalKinds, ScopeKinds, DefiningKinds
<1>3. ASSUME NEW t \in DOMAIN ix.scopes, Parent(ix, t) = ix.current
      PROVE  Beside(ix.scopes[t], new)
  <2> HIDE DEF new
  <2>1. CASE Apart(Extent(ix, t), lo, hi)
    BY <1>1, <1>13, <2>1 DEF Apart, Precedes, Beside, Extent
  <2>2. CASE ~ Apart(Extent(ix, t), lo, hi)
    BY <1>1, <1>3, <1>13, <2>2 DEF Free, Beside, Extent, range
  <2> QED BY <2>1, <2>2
<1>4. ASSUME NEW r \in DOMAIN ix.references, ix.references[r].scope = ix.current
      PROVE  \/ Precedes(ix.references[r].range, range)
             \/ Precedes(range, ix.references[r].range)
  <2>1. Apart(ix.references[r].range, lo, hi)
    BY <1>4 DEF Free, Blank
  <2> QED BY <1>1, <2>1 DEF Apart, Precedes
<1>5. /\ Good(ax) /\ ax.current = n + 1
      /\ ax.symbols = ix.symbols /\ ax.references = ix.references
      /\ n \in Nat /\ DOMAIN ix.scopes = 1 .. n /\ DOMAIN ax.scopes = 1 .. n + 1
      /\ Extent(ax, n + 1) = range /\ Parent(ax, n + 1) = ix.current
      /\ \A s \in DOMAIN ix.scopes : ax.scopes[s] = ix.scopes[s]
      /\ \A s \in DOMAIN ax.scopes : Parent(ax, s) # n + 1
      /\ ax.scopes[n + 1].kind = kind
  <2>1. ax.scopes = Append(ix.scopes, new)
    BY GoodParts DEF AddScope, Index
  <2>2. ix.scopes \in Seq(Scope) /\ new \in Scope
    BY <1>1, <1>13, GoodParts, IndexParts DEF Scope
  <2>3. ax.scopes[n + 1].kind = kind
    BY <1>13, <2>1, <2>2, Appended
  <2> HIDE DEF ax
  <2> QED BY <1>1, <1>2, <1>3, <1>4, <1>13, <2>3, ScopeEntered DEF ax
<1> HIDE DEF ax, n, new
<1>6. Room(ax, lo, hi)
  BY <1>1, <1>5 DEF Room, range
<1>7. Visits(ax, kx, lo, hi) /\ RefersHere(ax, kx) /\ kx.scopes = ax.scopes
  BY <1>5, <1>6, VisitVisited
<1> HIDE DEF kx
<1>8. /\ Good(kx) /\ kx.current = n + 1 /\ n + 1 # ROOT
      /\ Parent(kx, n + 1) = ix.current
  <2>1. Good(kx) /\ kx.current = n + 1 /\ Parent(kx, n + 1) = ix.current
    BY <1>5, <1>7 DEF Visits, Extends, Parent
  <2>2. ix.current \in 1 .. n
    BY <1>5, GoodParts
  <2> QED BY <1>5, <2>1, <2>2 DEF ROOT
<1>9. /\ Good(jx) /\ jx.current = ix.current /\ jx.scopes = ax.scopes
      /\ jx.symbols = kx.symbols /\ jx.references = kx.references
  BY <1>7, <1>8, ScopeLeft
<1> HIDE DEF jx
<1>10. Extends(ix, jx)
  <2>1. Len(ax.scopes) = n + 1
    BY <1>5, GoodParts, IndexParts
  <2>2. Len(ix.scopes) <= Len(jx.scopes)
    BY <1>5, <1>9, <2>1 DEF n
  <2>3. /\ Len(ix.symbols) <= Len(jx.symbols)
        /\ Len(ix.references) <= Len(jx.references)
        /\ \A i \in DOMAIN ix.symbols : jx.symbols[i] = ix.symbols[i]
        /\ \A r \in DOMAIN ix.references : jx.references[r] = ix.references[r]
    BY <1>5, <1>7, <1>9 DEF Visits, Extends
  <2> QED BY <1>5, <1>9, <2>2, <2>3 DEF Extends
<1>11. Adds(ix, jx, lo, hi)
  <2>1. ASSUME NEW s \in DOMAIN jx.scopes \ DOMAIN ix.scopes
        PROVE  In(Extent(jx, s), lo, hi)
    <3>1. s = n + 1
      BY <1>5, <1>9
    <3> QED BY <1>1, <1>5, <1>9, <3>1 DEF Extent
  <2> QED BY <1>5, <1>7, <1>9, <2>1 DEF Visits, Adds
<1>12. Own(ix, jx, e, lo, hi)
  <2>1. ASSUME NEW s \in DOMAIN jx.scopes \ DOMAIN ix.scopes
        PROVE  jx.scopes[s].kind \in LocalKinds /\ Extent(jx, s) = Span(lo, hi)
    <3>1. s = n + 1
      BY <1>5, <1>9, <2>1
    <3> QED BY <1>5, <1>9, <3>1 DEF Extent, range
  <2>2. ASSUME NEW r \in DOMAIN jx.references \ DOMAIN ix.references
        PROVE  jx.references[r].scope # jx.current
    <3>1. jx.references[r].scope = n + 1
      BY <1>5, <1>7, <1>9, <2>2 DEF RefersHere
    <3>2. ix.current \in 1 .. n
      BY <1>5, GoodParts
    <3> QED BY <1>5, <1>9, <3>1, <3>2
  <2> QED BY <2>1, <2>2 DEF Own
<1> QED BY <1>9, <1>10, <1>11, <1>12 DEF Visits, jx, kx, ax, range

LEMMA StepKinds ==
  ASSUME NEW lo \in Nat, NEW hi \in Nat, NEW at \in Nat
  PROVE  /\ \A name \in Names : lo <= at /\ at < hi =>
              /\ Ref(name, at) \in Steps(lo, hi) /\ Bind(name, at) \in Steps(lo, hi)
              /\ Param(name, at) \in Steps(lo, hi)
         /\ Ref(Missing, at) \in Steps(lo, hi) /\ Bind(Missing, at) \in Steps(lo, hi)
<1>1. ASSUME NEW name \in Names, lo <= at, at < hi
      PROVE  /\ Ref(name, at) \in Steps(lo, hi) /\ Bind(name, at) \in Steps(lo, hi)
             /\ Param(name, at) \in Steps(lo, hi)
  <2>1. at \in lo .. hi - 1
    BY <1>1
  <2> QED BY <2>1 DEF Ref, Bind, Param, Steps
<1>2. Ref(Missing, at) \in Steps(lo, hi) /\ Bind(Missing, at) \in Steps(lo, hi)
  BY DEF Ref, Bind, Steps
<1> QED BY <1>1, <1>2

LEMMA ExprVisited ==
  ASSUME ScopeIndexAssumption, NEW ix, Good(ix), NEW e \in Expression,
         NEW at \in Nat, NEW hi \in Nat, hi = at + Len(Words(e)),
         Free(ix, e, at, hi)
  PROVE  LET jx == VisitExpr(ix, e, at)
         IN  Visits(ix, jx, at, hi) /\ Own(ix, jx, e, at, hi)
<1> DEFINE n == e.names
           R(i, place) == Ref(n[i], at + place)
<1>1. /\ Len(n) \in Nat /\ DOMAIN n = 1 .. Len(n) /\ Len(Words(e)) \in Nat
      /\ e.form \in DOMAIN Arity \cup {"uses", "tuple"}
      /\ \A i \in DOMAIN n : /\ n[i] \in Names \cup {Missing}
                             /\ n[i] # Missing => i <= Len(Words(e))
      /\ e.form # "uses" => /\ Len(Words(e)) = Len(n)
                            /\ \A i \in DOMAIN n : n[i] \in Names
      /\ e.form \in DOMAIN Arity => Len(n) = Arity[e.form]
  BY ExpressionParts
<1> HIDE DEF n
<1>0. ASSUME ~ Scoped(e), NEW steps \in Seq(Steps(at, hi)),
             VisitExpr(ix, e, at) = Visit(ix, steps)
      PROVE  LET jx == VisitExpr(ix, e, at)
             IN  Visits(ix, jx, at, hi) /\ Own(ix, jx, e, at, hi)
  <2>1. Room(ix, at, hi)
    BY <1>0, RoomThere
  <2>2. /\ Visits(ix, VisitExpr(ix, e, at), at, hi)
        /\ VisitExpr(ix, e, at).scopes = ix.scopes
    BY <1>0, <2>1, VisitVisited
  <2> QED BY <1>0, <2>2 DEF Own
<1>2. CASE e.form = "choice"
  <2>1. hi = at + 3 /\ n[1] \in Names /\ n[2] \in Names /\ n[3] \in Names
    BY <1>1, <1>2, Arities
  <2>2. <<R(2, 1), R(1, 0), R(3, 2)>> \in Seq(Steps(at, hi))
    <3>1. /\ R(2, 1) \in Steps(at, hi) /\ R(1, 0) \in Steps(at, hi)
          /\ R(3, 2) \in Steps(at, hi)
      BY <2>1, StepKinds
    <3> HIDE DEF R
    <3> QED BY <3>1
  <2>3. VisitExpr(ix, e, at) = Visit(ix, <<R(2, 1), R(1, 0), R(3, 2)>>)
    BY <1>2 DEF VisitExpr, n
  <2> HIDE DEF R
  <2> QED BY <1>0, <1>2, <2>2, <2>3 DEF Scoped
<1>3. CASE e.form = "walrus"
  <2>1. hi = at + 2 /\ n[1] \in Names /\ n[2] \in Names
    BY <1>1, <1>3, Arities
  <2>2. <<R(2, 1), Bind(n[1], at)>> \in Seq(Steps(at, hi))
    <3>1. R(2, 1) \in Steps(at, hi) /\ Bind(n[1], at) \in Steps(at, hi)
      BY <2>1, StepKinds
    <3> HIDE DEF R
    <3> QED BY <3>1
  <2>3. VisitExpr(ix, e, at) = Visit(ix, <<R(2, 1), Bind(n[1], at)>>)
    BY <1>3 DEF VisitExpr, n
  <2> HIDE DEF R
  <2> QED BY <1>0, <1>3, <2>2, <2>3 DEF Scoped
<1>4. CASE e.form = "lambda"
  <2>1. hi = at + 3 /\ n[1] \in Names /\ n[2] \in Names /\ n[3] \in Names
    BY <1>1, <1>4, Arities
  <2>2. <<Param(n[1], at), R(2, 1), R(2, 1), R(3, 2)>> \in Seq(Steps(at, hi))
    <3>1. /\ R(2, 1) \in Steps(at, hi) /\ R(3, 2) \in Steps(at, hi)
          /\ Param(n[1], at) \in Steps(at, hi)
      BY <2>1, StepKinds
    <3> HIDE DEF R
    <3> QED BY <3>1
  <2>3. VisitExpr(ix, e, at)
          = Leave(Visit(AddScope(ix, "Lambda", Span(at, hi)),
                        <<Param(n[1], at), R(2, 1), R(2, 1), R(3, 2)>>))
    BY <1>4, <2>1 DEF VisitExpr, n
  <2>4. "Lambda" \in LocalKinds /\ at < hi /\ Scoped(e)
    BY <1>4, <2>1 DEF LocalKinds, Scoped
  <2> HIDE DEF R
  <2> QED BY <2>2, <2>3, <2>4, ScopeVisited
<1>5. CASE e.form = "comprehension"
  <2>1. /\ hi = at + 4 /\ n[1] \in Names /\ n[2] \in Names /\ n[3] \in Names
        /\ n[4] \in Names
    BY <1>1, <1>5, Arities
  <2>2. <<R(3, 2), Bind(n[2], at + 1), R(4, 3), R(1, 0)>> \in Seq(Steps(at, hi))
    <3>1. /\ R(3, 2) \in Steps(at, hi) /\ R(4, 3) \in Steps(at, hi)
          /\ R(1, 0) \in Steps(at, hi) /\ Bind(n[2], at + 1) \in Steps(at, hi)
      BY <2>1, StepKinds
    <3> HIDE DEF R
    <3> QED BY <3>1
  <2>3. VisitExpr(ix, e, at)
          = Leave(Visit(AddScope(ix, "Comprehension", Span(at, hi)),
                        <<R(3, 2), Bind(n[2], at + 1), R(4, 3), R(1, 0)>>))
    BY <1>5, <2>1 DEF VisitExpr, n
  <2>4. "Comprehension" \in LocalKinds /\ at < hi /\ Scoped(e)
    BY <1>5, <2>1 DEF LocalKinds, Scoped
  <2> HIDE DEF R
  <2> QED BY <2>2, <2>3, <2>4, ScopeVisited
<1>6. CASE e.form \notin {"choice", "walrus", "lambda", "comprehension"}
  <2>1. VisitExpr(ix, e, at) = Visit(ix, [i \in DOMAIN n |-> R(i, i - 1)])
    BY <1>6 DEF VisitExpr, n
  <2>2. ASSUME NEW i \in DOMAIN n PROVE R(i, i - 1) \in Steps(at, hi)
    <3> DEFINE b == at + (i - 1)
    <3>1. b \in Nat
      BY <1>1
    <3>2. CASE n[i] = Missing
      <4> HIDE DEF b
      <4>1. Ref(n[i], b) \in Steps(at, hi)
        BY <3>1, <3>2, StepKinds
      <4> QED BY <4>1 DEF b
    <3>3. CASE n[i] # Missing
      <4>1. n[i] \in Names /\ at <= b /\ b < hi
        BY <1>1, <3>3
      <4> HIDE DEF b
      <4>2. Ref(n[i], b) \in Steps(at, hi)
        BY <3>1, <4>1, StepKinds
      <4> QED BY <4>2 DEF b
    <3> QED BY <3>2, <3>3
  <2>3. [i \in DOMAIN n |-> R(i, i - 1)] \in Seq(Steps(at, hi))
    <3> HIDE DEF R
    <3> QED BY <1>1, <2>2, IsASeq
  <2> HIDE DEF R
  <2> QED BY <1>0, <1>6, <2>1, <2>3 DEF Scoped
<1> QED BY <1>2, <1>3, <1>4, <1>5, <1>6

LEMMA TargetVisited ==
  ASSUME ScopeIndexAssumption, NEW ix, Good(ix), NEW e \in Expression,
         NEW at \in Nat, NEW hi \in Nat, hi = at + Len(Words(e)),
         Room(ix, at, hi), Blank(ix, at, hi)
  PROVE  Visits(ix, VisitTarget(ix, e, at), at, hi)
<1> DEFINE n == e.names
           B(i) == Bind(n[i], at + i - 1)
<1>1. CASE e.form \in {"name", "tuple"}
  <2>1. /\ Len(n) \in Nat /\ DOMAIN n = 1 .. Len(n)
        /\ Len(Words(e)) = Len(n) /\ \A i \in DOMAIN n : n[i] \in Names
    BY <1>1, ExpressionParts
  <2>2. VisitTarget(ix, e, at) = Visit(ix, [i \in DOMAIN n |-> B(i)])
    BY <1>1 DEF VisitTarget
  <2> HIDE DEF n
  <2>3. ASSUME NEW i \in DOMAIN n PROVE B(i) \in Steps(at, hi)
    <3> DEFINE b == at + i - 1
    <3>1. b \in Nat /\ n[i] \in Names /\ at <= b /\ b < hi
      BY <2>1
    <3> HIDE DEF b
    <3>2. Bind(n[i], b) \in Steps(at, hi)
      BY <3>1, StepKinds
    <3> QED BY <3>2 DEF b
  <2>4. [i \in DOMAIN n |-> B(i)] \in Seq(Steps(at, hi))
    <3> HIDE DEF B
    <3> QED BY <2>1, <2>3, IsASeq
  <2> HIDE DEF B
  <2> QED BY <2>2, <2>4, VisitVisited
<1>2. CASE e.form \notin {"name", "tuple"}
  <2>1. VisitTarget(ix, e, at) = VisitExpr(ix, e, at)
    BY <1>2 DEF VisitTarget
  <2> QED BY <2>1, FreeHere, ExprVisited
<1> QED BY <1>1, <1>2
-------------------------------------------------------------------------------
(***************************************************************************)
(* Statements: the blocks the visit is in.                                 *)
(***************************************************************************)
LEMMA BlocksParts ==
  ASSUME NEW blks, BlocksOK(blks)
  PROVE  /\ blks \in Seq(Blocks) /\ Len(blks) \in Nat /\ DOMAIN blks = 1 .. Len(blks)
         /\ \A k \in 1 .. Len(blks) : /\ blks[k] \in Blocks /\ blks[k].scope \in Nat
                                      /\ blks[k].symbol \in Nat
<1>1. /\ blks \in Seq(Blocks) /\ Len(blks) \in Nat /\ DOMAIN blks = 1 .. Len(blks)
      /\ \A k \in 1 .. Len(blks) : blks[k] \in Blocks
  BY LenProperties, ElementOfSeq DEF BlocksOK
<1> QED BY <1>1 DEF Blocks

\* Behind what was visited, everything is free.
LEMMA RoomHere ==
  ASSUME NEW ix, Good(ix), NEW blks, NEW here \in Nat, Visiting(ix, blks, here),
         NEW a \in Nat, NEW b \in Nat, here <= a
  PROVE  /\ Room(ix, a, b) /\ Blank(ix, a, b)
         /\ ~ Closed(Extent(ix, ix.current))
<1>1. PICK f \in [0 .. Len(blks) -> DOMAIN ix.scopes] : Around(f, ix, blks)
  BY DEF Visiting
<1>2. /\ Len(blks) \in Nat /\ ix \in Index /\ Rooted(ix)
      /\ ix.current \in DOMAIN ix.scopes /\ ix.current = f[Len(blks)]
      /\ Len(ix.scopes) \in Nat /\ DOMAIN ix.scopes = 1 .. Len(ix.scopes)
      /\ Len(blks) \in 0 .. Len(blks)
  BY <1>1, BlocksParts, GoodParts, IndexParts DEF Visiting, Around
<1>3. ~ Closed(Extent(ix, ix.current))
  BY <1>1, <1>2 DEF Around
<1>4. ASSUME NEW t \in DOMAIN ix.scopes, Parent(ix, t) = ix.current
      PROVE  Apart(Extent(ix, t), a, b)
  <2>1. ix.current < t
    BY <1>2, <1>4 DEF Rooted
  <2>2. Closed(Extent(ix, t))
    <3> SUFFICES ASSUME NEW k \in 0 .. Len(blks), f[k] = t PROVE FALSE
      BY <1>1 DEF Around
    <3>1. k <= Len(blks)
      BY <1>2
    <3>2. f[k] <= f[Len(blks)]
      BY <1>1, <1>2, <3>1 DEF Around
    <3> QED BY <1>2, <2>1, <3>2
  <2>3. Extent(ix, t).end <= here /\ Extent(ix, t).end \in Nat
    BY GoodParts DEF Visiting, EndsBy
  <2> QED BY <2>2, <2>3 DEF Apart
<1>5. LiesIn(Span(a, b), Extent(ix, ix.current))
  <2>1. Extent(ix, ix.current).start <= here /\ Extent(ix, ix.current).start \in Nat
    BY GoodParts DEF Visiting, EndsBy
  <2>2. Extent(ix, ix.current).start <= a
    BY <2>1
  <2> QED BY <1>3, <2>2 DEF LiesIn, Span
<1>6. ASSUME NEW r \in DOMAIN ix.references PROVE Apart(ix.references[r].range, a, b)
  <2>1. /\ ix.references[r].range.end <= here
        /\ ix.references[r].range.end \in Nat /\ ix.references[r].range.start \in Nat
        /\ ix.references[r].range.end = ix.references[r].range.start + 1
    BY GoodParts DEF Visiting, EndsBy, Good, Nested, ReferenceNests
  <2> QED BY <2>1 DEF Apart, Closed, Open
<1> QED BY <1>3, <1>4, <1>5, <1>6 DEF Room, Blank

\* What a visit adds leaves the blocks open.
LEMMA VisitingOn ==
  ASSUME NEW ix, Good(ix), NEW blks, NEW here \in Nat, Visiting(ix, blks, here),
         NEW jx, NEW lo \in Nat, NEW hi \in Nat, Visits(ix, jx, lo, hi),
         here <= hi
  PROVE  Visiting(jx, blks, hi)
<1>1. PICK f \in [0 .. Len(blks) -> DOMAIN ix.scopes] : Around(f, ix, blks)
  BY DEF Visiting
<1>2. /\ Len(blks) \in Nat /\ Good(jx) /\ jx.current = ix.current
      /\ \A s \in DOMAIN ix.scopes : s \in DOMAIN jx.scopes /\ jx.scopes[s] = ix.scopes[s]
      /\ \A i \in DOMAIN ix.symbols : jx.symbols[i] = ix.symbols[i]
      /\ \A r \in DOMAIN ix.references : jx.references[r] = ix.references[r]
  <2>1. ix \in Index /\ jx \in Index
    BY GoodParts DEF Visits
  <2>2. \A s \in DOMAIN ix.scopes : s \in DOMAIN jx.scopes
    <3>1. /\ Len(ix.scopes) \in Nat /\ DOMAIN ix.scopes = 1 .. Len(ix.scopes)
          /\ Len(jx.scopes) \in Nat /\ DOMAIN jx.scopes = 1 .. Len(jx.scopes)
          /\ Len(ix.scopes) <= Len(jx.scopes)
      BY <2>1, IndexParts DEF Visits, Extends
    <3> QED BY <3>1
  <2> QED BY <2>2, BlocksParts DEF Visits, Extends, Visiting
<1>3. \A s \in DOMAIN ix.scopes : /\ Extent(jx, s) = Extent(ix, s)
                                  /\ Parent(jx, s) = Parent(ix, s)
  BY <1>2 DEF Extent, Parent
<1>4. \A range \in Ends \cup Selected : In(range, lo, hi) =>
        Closed(range) /\ range.start <= hi /\ range.end <= hi
  BY DEF In, Ends, Selected
<1>5. ASSUME NEW s \in DOMAIN jx.scopes
      PROVE  /\ Extent(jx, s).start <= hi /\ Extent(jx, s).end <= hi
             /\ ~ Closed(Extent(jx, s)) => s \in DOMAIN ix.scopes
  <2>1. CASE s \in DOMAIN ix.scopes
    <3>1. Extent(ix, s).start <= here /\ Extent(ix, s).end <= here
      BY <2>1 DEF Visiting, EndsBy
    <3> QED BY <1>3, <2>1, <3>1, GoodParts
  <2>2. CASE s \notin DOMAIN ix.scopes
    BY <1>2, <1>4, <2>2, GoodParts DEF Visits, Adds
  <2> QED BY <2>1, <2>2
<1>6. ASSUME NEW i \in DOMAIN jx.symbols
      PROVE  /\ jx.symbols[i].selection.start <= hi /\ jx.symbols[i].selection.end <= hi
             /\ ~ Closed(jx.symbols[i].selection) => i \in DOMAIN ix.symbols
  <2>1. CASE i \in DOMAIN ix.symbols
    <3>1. ix.symbols[i].selection.start <= here /\ ix.symbols[i].selection.end <= here
      BY <2>1 DEF Visiting, EndsBy
    <3> QED BY <1>2, <2>1, <3>1, GoodParts
  <2>2. CASE i \notin DOMAIN ix.symbols
    BY <1>2, <1>4, <2>2, GoodParts DEF Visits, Adds
  <2> QED BY <2>1, <2>2
<1>7. ASSUME NEW r \in DOMAIN jx.references
      PROVE  jx.references[r].range.start <= hi /\ jx.references[r].range.end <= hi
  <2>1. CASE r \in DOMAIN ix.references
    <3>1. ix.references[r].range.start <= here /\ ix.references[r].range.end <= here
      BY <2>1 DEF Visiting, EndsBy
    <3> QED BY <1>2, <2>1, <3>1, GoodParts
  <2>2. CASE r \notin DOMAIN ix.references
    BY <1>2, <1>4, <2>2, GoodParts DEF Visits, Adds
  <2> QED BY <2>1, <2>2
<1>8. f \in [0 .. Len(blks) -> DOMAIN jx.scopes]
  BY <1>2
<1>9. Around(f, jx, blks)
  <2>1. \A s \in DOMAIN jx.scopes :
          ~ Closed(Extent(jx, s)) <=> \E k \in 0 .. Len(blks) : f[k] = s
    BY <1>1, <1>3, <1>5 DEF Around
  <2>2. \A i \in DOMAIN jx.symbols :
          ~ Closed(jx.symbols[i].selection) =>
            \E k \in 1 .. Len(blks) : blks[k].symbol = i /\ jx.symbols[i].scope = f[k - 1]
    BY <1>1, <1>2, <1>6 DEF Around
  <2>3. \A k \in 1 .. Len(blks) :
          IF blks[k].scope = 0 THEN f[k] = f[k - 1]
          ELSE f[k] = blks[k].scope /\ Parent(jx, f[k]) = f[k - 1]
    BY <1>1, <1>2, <1>3 DEF Around
  <2> QED BY <1>1, <1>2, <1>8, <2>1, <2>2, <2>3 DEF Around
<1>10. EndsBy(jx, hi)
  BY <1>5, <1>6, <1>7 DEF EndsBy
<1>11. blks # <<>> => hi # 0
  BY DEF Visiting
<1> QED BY <1>8, <1>9, <1>10, <1>11 DEF Visiting

\* A body has a statement.
LEMMA FilledVisiting ==
  ASSUME NEW ix, NEW here, Visiting(ix, blocks, here)
  PROVE  Visiting(ix, Filled, here)
<1> DEFINE n == Len(blocks)
<1>1. CASE blocks = <<>>
  BY <1>1 DEF Filled
<1>2. CASE blocks # <<>>
  <2>1. /\ n \in Nat \ {0} /\ DOMAIN blocks = 1 .. n /\ blocks \in Seq(Blocks)
        /\ \A k \in 1 .. n : blocks[k] \in Blocks
    BY <1>2, BlocksParts, EmptySeq DEF Visiting
  <2> DEFINE filled == [blocks[n] EXCEPT !.empty = FALSE]
  <2>2. /\ filled \in Blocks /\ filled.kind = blocks[n].kind
        /\ filled.symbol = blocks[n].symbol /\ filled.scope = blocks[n].scope
    <3>1. blocks[n] \in Blocks
      BY <2>1
    <3> HIDE DEF n
    <3> QED BY <3>1 DEF Blocks
  <2>3. Filled = [blocks EXCEPT ![n] = filled]
    BY <1>2, <2>1 DEF Filled
  <2> HIDE DEF filled
  <2>4. Filled \in Seq(Blocks) /\ Len(Filled) = n /\ DOMAIN Filled = 1 .. n
    BY <2>1, <2>2, <2>3, ExceptSeq
  <2>5. \A k \in 1 .. n : /\ Filled[k].kind = blocks[k].kind
                          /\ Filled[k].symbol = blocks[k].symbol
                          /\ Filled[k].scope = blocks[k].scope
    BY <2>1, <2>2, <2>3
  <2> HIDE DEF n
  <2>6. BlocksOK(Filled)
    BY <2>1, <2>4, <2>5 DEF BlocksOK, Visiting
  <2>7. PICK f \in [0 .. n -> DOMAIN ix.scopes] : Around(f, ix, blocks)
    BY DEF Visiting, n
  <2>8. Around(f, ix, Filled)
    <3>1. \A k \in 1 .. n :
            IF Filled[k].scope = 0 THEN f[k] = f[k - 1]
            ELSE f[k] = Filled[k].scope /\ Parent(ix, f[k]) = f[k - 1]
      BY <2>5, <2>7 DEF Around, n
    <3>2. \A i \in DOMAIN ix.symbols :
            ~ Closed(ix.symbols[i].selection) =>
              \E k \in 1 .. n : Filled[k].symbol = i /\ ix.symbols[i].scope = f[k - 1]
      BY <2>5, <2>7 DEF Around, n
    <3> QED BY <2>4, <2>7, <3>1, <3>2 DEF Around, n
  <2> QED BY <1>2, <2>4, <2>6, <2>7, <2>8 DEF Visiting, n
<1> QED BY <1>1, <1>2

\* The parts of Around, for a path that has been found.
LEMMA AroundParts ==
  ASSUME NEW f, NEW ix, NEW blks, NEW top, Len(blks) = top,
         f \in [0 .. top -> DOMAIN ix.scopes], f[0] = ROOT, f[top] = ix.current,
         \A k \in 1 .. top : IF blks[k].scope = 0 THEN f[k] = f[k - 1]
                           ELSE f[k] = blks[k].scope /\ Parent(ix, f[k]) = f[k - 1],
         \A j, k \in 0 .. top : j <= k => f[j] <= f[k],
         \A s \in DOMAIN ix.scopes :
           ~ Closed(Extent(ix, s)) <=> \E k \in 0 .. top : f[k] = s,
         \A i \in DOMAIN ix.symbols :
           ~ Closed(ix.symbols[i].selection) =>
             \E k \in 1 .. top : blks[k].symbol = i /\ ix.symbols[i].scope = f[k - 1]
  PROVE  Around(f, ix, blks)
BY DEF Around

\* A body begins, that belongs to the scope around,
LEMMA BlockPushed ==
  ASSUME NEW ix, NEW blks, NEW here, Visiting(ix, blks, here), here # 0,
         NEW kind \in BlockKinds \ {"def", "class"}, NEW symbol \in Nat
  PROVE  Visiting(ix, Append(blks, Block(kind, symbol, 0)), here)
<1> DEFINE n   == Len(blks)
           new == Block(kind, symbol, 0)
           more == Append(blks, new)
<1>1. new \in Blocks /\ new.scope = 0 /\ new.kind = kind
  BY DEF Block, Blocks
<1>2. /\ more \in Seq(Blocks) /\ n \in Nat /\ Len(more) = n + 1
      /\ DOMAIN blks = 1 .. n /\ DOMAIN more = 1 .. n + 1
      /\ more[n + 1] = new /\ \A k \in 1 .. n : more[k] = blks[k]
  <2>1. blks \in Seq(Blocks)
    BY DEF Visiting, BlocksOK
  <2> HIDE DEF new
  <2> QED BY <1>1, <2>1, Appended
<1> HIDE DEF n, new, more
<1>3. BlocksOK(more)
  BY <1>1, <1>2 DEF BlocksOK, Visiting
<1>4. PICK f \in [0 .. n -> DOMAIN ix.scopes] : Around(f, ix, blks)
  BY DEF Visiting, n
<1> DEFINE g == [k \in 0 .. n + 1 |-> IF k = n + 1 THEN f[n] ELSE f[k]]
<1>5. /\ g \in [0 .. n + 1 -> DOMAIN ix.scopes]
      /\ g[n + 1] = f[n] /\ \A k \in 0 .. n : g[k] = f[k]
  BY <1>2
<1> HIDE DEF g
<1>6. Around(g, ix, more)
  <2>1. g[0] = ROOT /\ g[n + 1] = ix.current
    BY <1>2, <1>4, <1>5 DEF Around, n
  <2>2. ASSUME NEW k \in 1 .. n + 1
        PROVE  IF more[k].scope = 0 THEN g[k] = g[k - 1]
               ELSE g[k] = more[k].scope /\ Parent(ix, g[k]) = g[k - 1]
    <3>1. CASE k = n + 1
      BY <1>1, <1>2, <1>5, <3>1
    <3>2. CASE k \in 1 .. n
      <4>1. k \in 0 .. n /\ k - 1 \in 0 .. n
        BY <1>2, <3>2
      <4> QED BY <1>2, <1>4, <1>5, <3>2, <4>1 DEF Around, n
    <3> QED BY <1>2, <3>1, <3>2
  <2>3. ASSUME NEW j \in 0 .. n + 1, NEW k \in 0 .. n + 1, j <= k PROVE g[j] <= g[k]
    <3> DEFINE h(m) == IF m = n + 1 THEN n ELSE m
    <3>1. /\ h(j) \in 0 .. n /\ h(k) \in 0 .. n /\ h(j) <= h(k)
          /\ g[j] = f[h(j)] /\ g[k] = f[h(k)]
      BY <1>2, <1>5, <2>3
    <3> HIDE DEF h
    <3> QED BY <1>4, <3>1 DEF Around, n
  <2>4. ASSUME NEW s \in DOMAIN ix.scopes
        PROVE  ~ Closed(Extent(ix, s)) <=> \E k \in 0 .. n + 1 : g[k] = s
    <3>1. ~ Closed(Extent(ix, s)) <=> \E k \in 0 .. n : f[k] = s
      BY <1>4 DEF Around, n
    <3>2. (\E k \in 0 .. n + 1 : g[k] = s) <=> (\E k \in 0 .. n : f[k] = s)
      <4>1. n \in 0 .. n /\ \A k \in 0 .. n : k \in 0 .. n + 1
        BY <1>2
      <4>2. \A k \in 0 .. n + 1 : k \in 0 .. n \/ k = n + 1
        BY <1>2
      <4> QED BY <1>5, <4>1, <4>2
    <3> QED BY <3>1, <3>2
  <2>5. ASSUME NEW i \in DOMAIN ix.symbols, ~ Closed(ix.symbols[i].selection)
        PROVE  \E k \in 1 .. n + 1 : more[k].symbol = i /\ ix.symbols[i].scope = g[k - 1]
    <3>1. PICK k \in 1 .. n : blks[k].symbol = i /\ ix.symbols[i].scope = f[k - 1]
      BY <1>4, <2>5 DEF Around, n
    <3>2. k \in 1 .. n + 1 /\ k - 1 \in 0 .. n
      BY <1>2
    <3> QED BY <1>2, <1>5, <3>1, <3>2
  <2>6. \A j, k \in 0 .. n + 1 : j <= k => g[j] <= g[k]
    BY <2>3
  <2> QED BY <1>2, <1>5, <2>1, <2>2, <2>4, <2>5, <2>6, AroundParts
<1> QED BY <1>2, <1>3, <1>5, <1>6 DEF Visiting, more, new

\* and that of a handler, whose symbol is open until the body ends;
LEMMA HandlerNamed ==
  ASSUME NEW ix, Good(ix), NEW blks, NEW here \in Nat,
         NEW at \in Nat, at <= here, Visiting(ix, blks, here), blks # <<>>,
         LiesIn(Span(at, Open), Extent(ix, ix.current)),
         blks[Len(blks)].scope = 0, blks[Len(blks)].symbol = Len(ix.symbols) + 1,
         NEW name \in Names
  PROVE  LET jx == AddSymbol(ix, name, "Variable", Span(at, Open), Whole(at, Open))
         IN  Good(jx) /\ Visiting(jx, blks, here)
<1> DEFINE range == Span(at, Open)
           selection == Whole(at, Open)
           jx == AddSymbol(ix, name, "Variable", range, selection)
           m  == Len(ix.symbols)
           n  == Len(blks)
<1>1. /\ range \in Ends /\ "Variable" \in SymbolKinds
      /\ selection \in Selected /\ selection.start = at /\ selection.end = 0
      /\ range.start = at /\ range.end = 0
  BY DEF Span, Whole, Selected, Ends, Open, SymbolKinds
<1>2. /\ Good(jx) /\ jx.current = ix.current
      /\ jx.scopes = ix.scopes /\ jx.references = ix.references
      /\ Len(jx.symbols) = m + 1
      /\ jx.symbols[m + 1].selection = selection
      /\ jx.symbols[m + 1].scope = ix.current
      /\ \A i \in DOMAIN ix.symbols : jx.symbols[i] = ix.symbols[i]
  <2>1. LiesIn(selection, Extent(ix, ix.current))
    BY <1>1 DEF LiesIn, Closed, Open
  <2> HIDE DEF range, selection
  <2> QED BY <1>1, <2>1, SymbolVisited DEF Extends
<1>3. /\ m \in Nat /\ DOMAIN ix.symbols = 1 .. m /\ DOMAIN jx.symbols = 1 .. m + 1
  BY <1>2, GoodParts, IndexParts
<1>4. n \in Nat \ {0}
  BY BlocksParts, EmptySeq DEF Visiting
<1> HIDE DEF jx, range, selection
<1>5. \A s : Extent(jx, s) = Extent(ix, s) /\ Parent(jx, s) = Parent(ix, s)
  BY <1>2 DEF Extent, Parent
<1>6. PICK f \in [0 .. n -> DOMAIN ix.scopes] : Around(f, ix, blks)
  BY DEF Visiting
<1>7. ix.current = f[n - 1]
  <2>1. n \in 1 .. n /\ f[n] = ix.current
    BY <1>4, <1>6 DEF Around
  <2>2. f[n] = f[n - 1]
    BY <1>6, <2>1 DEF Around
  <2> QED BY <2>1, <2>2
<1>8. Around(f, jx, blks)
  <2>1. ASSUME NEW i \in DOMAIN jx.symbols, ~ Closed(jx.symbols[i].selection)
        PROVE  \E k \in 1 .. n : blks[k].symbol = i /\ jx.symbols[i].scope = f[k - 1]
    <3>1. CASE i = m + 1
      <4>1. n \in 1 .. n
        BY <1>4
      <4> QED BY <1>2, <1>7, <3>1, <4>1
    <3>2. CASE i \in 1 .. m
      <4>1. /\ i \in DOMAIN ix.symbols /\ jx.symbols[i] = ix.symbols[i]
            /\ ~ Closed(ix.symbols[i].selection)
        BY <1>2, <1>3, <2>1, <3>2
      <4>2. PICK k \in 1 .. n : blks[k].symbol = i /\ ix.symbols[i].scope = f[k - 1]
        BY <1>6, <4>1 DEF Around
      <4> QED BY <4>1, <4>2
    <3> QED BY <1>3, <3>1, <3>2
  <2>2. \A k \in 1 .. n :
          IF blks[k].scope = 0 THEN f[k] = f[k - 1]
          ELSE f[k] = blks[k].scope /\ Parent(jx, f[k]) = f[k - 1]
    BY <1>5, <1>6 DEF Around
  <2> QED BY <1>2, <1>5, <1>6, <2>1, <2>2 DEF Around
<1>9. EndsBy(jx, here)
  <2>1. ASSUME NEW i \in DOMAIN jx.symbols
        PROVE  jx.symbols[i].selection.start <= here /\ jx.symbols[i].selection.end <= here
    <3>1. CASE i = m + 1
      BY <1>1, <1>2, <3>1
    <3>2. CASE i \in 1 .. m
      BY <1>2, <1>3, <3>2 DEF Visiting, EndsBy
    <3> QED BY <1>3, <3>1, <3>2
  <2> QED BY <1>2, <1>5, <2>1 DEF Visiting, EndsBy
<1>10. f \in [0 .. n -> DOMAIN jx.scopes]
  BY <1>2
<1>11. Visiting(jx, blks, here)
  BY <1>8, <1>9, <1>10 DEF Visiting
<1> QED BY <1>2, <1>11 DEF jx, range, selection

\* or that of a function or class.
LEMMA ScopePushed ==
  ASSUME NEW ix, Good(ix), NEW blks, NEW here \in Nat, Visiting(ix, blks, here),
         NEW jx, Good(jx), NEW at \in Nat, at <= here, here # 0,
         jx.symbols = ix.symbols, jx.references = ix.references,
         NEW n \in Nat, DOMAIN ix.scopes = 1 .. n, DOMAIN jx.scopes = 1 .. n + 1,
         \A s \in DOMAIN ix.scopes : jx.scopes[s] = ix.scopes[s],
         jx.current = n + 1, Parent(jx, n + 1) = ix.current,
         Extent(jx, n + 1) = Span(at, Open),
         NEW kind \in {"def", "class"}, NEW symbol \in Nat
  PROVE  Visiting(jx, Append(blks, Block(kind, symbol, n + 1)), here)
<1> DEFINE m   == Len(blks)
           new == Block(kind, symbol, n + 1)
           more == Append(blks, new)
<1>1. new \in Blocks /\ new.scope = n + 1 /\ new.kind = kind
  BY DEF Block, Blocks, BlockKinds
<1>2. /\ more \in Seq(Blocks) /\ m \in Nat /\ Len(more) = m + 1
      /\ DOMAIN blks = 1 .. m /\ DOMAIN more = 1 .. m + 1
      /\ more[m + 1] = new /\ \A k \in 1 .. m : more[k] = blks[k]
  <2>1. blks \in Seq(Blocks)
    BY DEF Visiting, BlocksOK
  <2> HIDE DEF new
  <2> QED BY <1>1, <2>1, Appended
<1> HIDE DEF m, new, more
<1>3. BlocksOK(more)
  BY <1>1, <1>2 DEF BlocksOK, Visiting
<1>4. PICK f \in [0 .. m -> DOMAIN ix.scopes] : Around(f, ix, blks)
  BY DEF Visiting, m
<1> DEFINE g == [k \in 0 .. m + 1 |-> IF k = m + 1 THEN n + 1 ELSE f[k]]
<1>5. /\ g \in [0 .. m + 1 -> DOMAIN jx.scopes]
      /\ g[m + 1] = n + 1 /\ \A k \in 0 .. m : g[k] = f[k] /\ f[k] \in 1 .. n
  BY <1>2
<1> HIDE DEF g
<1>6. /\ \A s \in 1 .. n : Extent(jx, s) = Extent(ix, s) /\ Parent(jx, s) = Parent(ix, s)
      /\ Extent(jx, n + 1).start = at /\ Extent(jx, n + 1).end = 0
      /\ ~ Closed(Extent(jx, n + 1))
  <2>1. \A s \in 1 .. n : Extent(jx, s) = Extent(ix, s) /\ Parent(jx, s) = Parent(ix, s)
    BY DEF Extent, Parent
  <2>2. Span(at, Open).start = at /\ Span(at, Open).end = 0 /\ ~ Closed(Span(at, Open))
    BY DEF Span, Open, Closed
  <2> QED BY <2>1, <2>2
<1>7. Around(g, jx, more)
  <2>1. g[0] = ROOT /\ g[m + 1] = jx.current /\ f[m] = ix.current
    BY <1>2, <1>4, <1>5 DEF Around, m
  <2>2. ASSUME NEW k \in 1 .. m + 1
        PROVE  IF more[k].scope = 0 THEN g[k] = g[k - 1]
               ELSE g[k] = more[k].scope /\ Parent(jx, g[k]) = g[k - 1]
    <3>1. CASE k = m + 1
      <4>1. k - 1 = m /\ m \in 0 .. m
        BY <1>2, <3>1
      <4> QED BY <1>1, <1>2, <1>5, <2>1, <3>1, <4>1
    <3>2. CASE k \in 1 .. m
      <4>1. k \in 0 .. m /\ k - 1 \in 0 .. m
        BY <1>2, <3>2
      <4>2. IF blks[k].scope = 0 THEN f[k] = f[k - 1]
            ELSE f[k] = blks[k].scope /\ Parent(ix, f[k]) = f[k - 1]
        BY <1>4, <3>2 DEF Around, m
      <4> QED BY <1>2, <1>5, <1>6, <3>2, <4>1, <4>2
    <3> QED BY <1>2, <3>1, <3>2
  <2>3. ASSUME NEW j \in 0 .. m + 1, NEW k \in 0 .. m + 1, j <= k PROVE g[j] <= g[k]
    <3>1. CASE k = m + 1
      <4>1. j = m + 1 \/ j \in 0 .. m
        BY <1>2
      <4> QED BY <1>5, <3>1, <4>1
    <3>2. CASE k \in 0 .. m
      <4>1. j \in 0 .. m
        BY <1>2, <2>3, <3>2
      <4> QED BY <1>4, <1>5, <2>3, <3>2, <4>1 DEF Around, m
    <3> QED BY <1>2, <3>1, <3>2
  <2>4. ASSUME NEW s \in 1 .. n + 1
        PROVE  ~ Closed(Extent(jx, s)) <=> \E k \in 0 .. m + 1 : g[k] = s
    <3>1. CASE s = n + 1
      <4>1. m + 1 \in 0 .. m + 1
        BY <1>2
      <4> QED BY <1>5, <1>6, <3>1, <4>1
    <3>2. CASE s \in 1 .. n
      <4>1. ~ Closed(Extent(jx, s)) <=> \E k \in 0 .. m : f[k] = s
        BY <1>4, <1>6, <3>2 DEF Around, m
      <4>2. \A k \in 0 .. m + 1 : k \in 0 .. m \/ k = m + 1
        BY <1>2
      <4>3. \A k \in 0 .. m : k \in 0 .. m + 1
        BY <1>2
      <4>4. s # n + 1
        BY <3>2
      <4> QED BY <1>5, <4>1, <4>2, <4>3, <4>4
    <3> QED BY <3>1, <3>2
  <2>5. ASSUME NEW i \in DOMAIN jx.symbols, ~ Closed(jx.symbols[i].selection)
        PROVE  \E k \in 1 .. m + 1 : more[k].symbol = i /\ jx.symbols[i].scope = g[k - 1]
    <3>1. PICK k \in 1 .. m : blks[k].symbol = i /\ ix.symbols[i].scope = f[k - 1]
      BY <1>4, <2>5 DEF Around, m
    <3>2. k \in 1 .. m + 1 /\ k - 1 \in 0 .. m
      BY <1>2
    <3> QED BY <1>2, <1>5, <3>1, <3>2
  <2>6. \A j, k \in 0 .. m + 1 : j <= k => g[j] <= g[k]
    BY <2>3
  <2>7. \A s \in DOMAIN jx.scopes :
          ~ Closed(Extent(jx, s)) <=> \E k \in 0 .. m + 1 : g[k] = s
    BY <2>4
  <2> QED BY <1>2, <1>5, <2>1, <2>2, <2>5, <2>6, <2>7, AroundParts
<1>8. EndsBy(jx, here)
  <2>1. ASSUME NEW s \in 1 .. n + 1
        PROVE  Extent(jx, s).start <= here /\ Extent(jx, s).end <= here
    <3>1. CASE s = n + 1
      BY <1>6, <3>1
    <3>2. CASE s \in 1 .. n
      BY <1>6, <3>2 DEF Visiting, EndsBy
    <3> QED BY <3>1, <3>2
  <2> QED BY <2>1 DEF Visiting, EndsBy
<1> QED BY <1>2, <1>3, <1>5, <1>7, <1>8 DEF Visiting, more, new

\* What the end of a body changes: the ends of its scope, and of its symbol's
\* selection if that is open.
Closes(ix, jx, scope, symbol, here) ==
  /\ jx \in Index /\ jx.current = ix.current /\ jx.references = ix.references
  /\ Len(jx.scopes) = Len(ix.scopes) /\ DOMAIN jx.scopes = DOMAIN ix.scopes
  /\ Len(jx.symbols) = Len(ix.symbols) /\ DOMAIN jx.symbols = DOMAIN ix.symbols
  /\ \A s \in DOMAIN ix.scopes :
       /\ jx.scopes[s].kind = ix.scopes[s].kind
       /\ Parent(jx, s) = Parent(ix, s)
       /\ Extent(jx, s).start = Extent(ix, s).start
       /\ Extent(jx, s).end = IF s = scope THEN here ELSE Extent(ix, s).end
  /\ \A i \in DOMAIN ix.symbols :
       /\ jx.symbols[i].scope = ix.symbols[i].scope
       /\ jx.symbols[i].name = ix.symbols[i].name
       /\ jx.symbols[i].selection.start = ix.symbols[i].selection.start
       /\ jx.symbols[i].selection.end
            = IF i = symbol /\ ~ Closed(ix.symbols[i].selection) THEN here
              ELSE ix.symbols[i].selection.end

LEMMA EndedCloses ==
  ASSUME NEW ix \in Index, NEW block, Here \in Nat
  PROVE  Closes(ix, Ended(ix, block), block.scope, block.symbol, Here)
<1> DEFINE jx == Ended(ix, block)
           symbol(i) == IF i = block.symbol THEN EndSymbol(ix.symbols[i])
                        ELSE ix.symbols[i]
           scope(s) == IF s = block.scope THEN EndScope(ix.scopes[s]) ELSE ix.scopes[s]
           syms == [i \in DOMAIN ix.symbols |-> symbol(i)]
           scs  == [s \in DOMAIN ix.scopes |-> scope(s)]
           m == Len(ix.symbols)
           n == Len(ix.scopes)
<1>1. /\ m \in Nat /\ DOMAIN ix.symbols = 1 .. m /\ n \in Nat /\ DOMAIN ix.scopes = 1 .. n
      /\ \A s \in DOMAIN ix.scopes : ix.scopes[s] \in Scope
      /\ \A i \in DOMAIN ix.symbols : ix.symbols[i] \in Symbol
  BY IndexParts
<1>2. jx = [ix EXCEPT !.symbols = syms, !.scopes = scs]
  BY DEF Ended, Index
<1>3. ASSUME NEW i \in DOMAIN ix.symbols
      PROVE  /\ symbol(i) \in Symbol
             /\ symbol(i).scope = ix.symbols[i].scope /\ symbol(i).name = ix.symbols[i].name
             /\ symbol(i).selection.start = ix.symbols[i].selection.start
             /\ symbol(i).selection.end
                  = IF i = block.symbol /\ ~ Closed(ix.symbols[i].selection) THEN Here
                    ELSE ix.symbols[i].selection.end
  <2>1. ix.symbols[i] \in Symbol
    BY <1>1
  <2> DEFINE old == ix.symbols[i]
  <2>2. old \in Symbol /\ old.range \in Ends /\ old.selection \in Selected
    BY <2>1 DEF Symbol
  <2>3. CASE i = block.symbol
    <3> DEFINE end == IF old.selection.end = Open THEN Here ELSE old.selection.end
    <3>1. end \in Nat
      BY <2>2 DEF Selected
    <3>2. symbol(i) = [old EXCEPT !.range = [old.range EXCEPT !.end = Here],
                                  !.selection = [old.selection EXCEPT !.end = end]]
      BY <2>2, <2>3 DEF Symbol, Ends, Selected, EndSymbol
    <3>3. /\ [old.range EXCEPT !.end = Here] \in Ends
          /\ [old.selection EXCEPT !.end = end] \in Selected
          /\ [old.selection EXCEPT !.end = end].start = old.selection.start
          /\ [old.selection EXCEPT !.end = end].end = end
      <4> HIDE DEF end
      <4> QED BY <2>2, <3>1 DEF Ends, Selected
    <3> DEFINE a == [old.range EXCEPT !.end = Here]
               b == [old.selection EXCEPT !.end = end]
    <3>4. /\ a \in Ends /\ b \in Selected /\ b.start = old.selection.start /\ b.end = end
          /\ symbol(i) = [old EXCEPT !.range = a, !.selection = b]
      BY <3>2, <3>3
    <3> HIDE DEF symbol, a, b, old
    <3>5. /\ symbol(i) \in Symbol /\ symbol(i).scope = old.scope
          /\ symbol(i).name = old.name /\ symbol(i).selection = b
      BY <2>2, <3>4 DEF Symbol
    <3>6. end = IF i = block.symbol /\ ~ Closed(old.selection) THEN Here
                ELSE old.selection.end
      BY <2>3 DEF Closed
    <3> HIDE DEF end
    <3> QED BY <3>4, <3>5, <3>6 DEF old
  <2>4. CASE i # block.symbol
    <3>1. symbol(i) = ix.symbols[i]
      BY <2>4
    <3> HIDE DEF symbol, old
    <3> QED BY <2>1, <2>4, <3>1
  <2> QED BY <2>3, <2>4
<1>4. ASSUME NEW s \in DOMAIN ix.scopes
      PROVE  /\ scope(s) \in Scope
             /\ scope(s).kind = ix.scopes[s].kind /\ scope(s).parent = ix.scopes[s].parent
             /\ scope(s).range.start = ix.scopes[s].range.start
             /\ scope(s).range.end = IF s = block.scope THEN Here
                                     ELSE ix.scopes[s].range.end
  <2> DEFINE old == ix.scopes[s]
             a == [old.range EXCEPT !.end = Here]
  <2>1. old \in Scope /\ old.range \in Ends
    BY <1>1 DEF Scope
  <2>2. CASE s = block.scope
    <3>1. scope(s) = [old EXCEPT !.range = a]
      BY <2>1, <2>2 DEF Scope, EndScope
    <3>2. a \in Ends /\ a.start = old.range.start /\ a.end = Here
      BY <2>1 DEF Ends
    <3> HIDE DEF scope, a, old
    <3>3. /\ scope(s) \in Scope /\ scope(s).kind = old.kind
          /\ scope(s).parent = old.parent /\ scope(s).range = a
      BY <2>1, <3>1, <3>2 DEF Scope
    <3> QED BY <2>2, <3>2, <3>3 DEF old
  <2>3. CASE s # block.scope
    <3>1. scope(s) = ix.scopes[s]
      BY <2>3
    <3> HIDE DEF scope
    <3> QED BY <2>1, <2>3, <3>1
  <2> QED BY <2>2, <2>3
<1>5. /\ syms \in Seq(Symbol) /\ Len(syms) = m /\ DOMAIN syms = 1 .. m
      /\ \A i \in 1 .. m : syms[i] = symbol(i)
  <2>1. \A i \in 1 .. m : symbol(i) \in Symbol
    BY <1>1, <1>3
  <2> HIDE DEF symbol, m
  <2> QED BY <1>1, <2>1, SeqDef, LenProperties
<1>6. /\ scs \in Seq(Scope) /\ Len(scs) = n /\ DOMAIN scs = 1 .. n
      /\ \A s \in 1 .. n : scs[s] = scope(s)
  <2>1. \A s \in 1 .. n : scope(s) \in Scope
    BY <1>1, <1>4
  <2> HIDE DEF scope, n
  <2> QED BY <1>1, <2>1, SeqDef, LenProperties
<1> HIDE DEF syms, scs, jx
<1>7. /\ jx \in Index /\ jx.current = ix.current /\ jx.references = ix.references
      /\ jx.scopes = scs /\ jx.symbols = syms
  BY <1>2, <1>5, <1>6 DEF Index
<1> HIDE DEF symbol, scope
<1>8. \A s \in DOMAIN ix.scopes :
        /\ jx.scopes[s].kind = ix.scopes[s].kind
        /\ Parent(jx, s) = Parent(ix, s)
        /\ Extent(jx, s).start = Extent(ix, s).start
        /\ Extent(jx, s).end = IF s = block.scope THEN Here ELSE Extent(ix, s).end
  BY <1>1, <1>4, <1>6, <1>7 DEF Parent, Extent
<1>9. \A i \in DOMAIN ix.symbols :
        /\ jx.symbols[i].scope = ix.symbols[i].scope
        /\ jx.symbols[i].name = ix.symbols[i].name
        /\ jx.symbols[i].selection.start = ix.symbols[i].selection.start
        /\ jx.symbols[i].selection.end
             = IF i = block.symbol /\ ~ Closed(ix.symbols[i].selection) THEN Here
               ELSE ix.symbols[i].selection.end
  BY <1>1, <1>3, <1>5, <1>7
<1> QED BY <1>1, <1>5, <1>6, <1>7, <1>8, <1>9 DEF jx, Closes

\* An index whose innermost open scope, if any, and one open symbol end here.
LEMMA EndingGood ==
  ASSUME NEW ix, Good(ix), NEW jx, NEW c, NEW y, NEW here \in Nat,
         Closes(ix, jx, c, y, here), EndsBy(ix, here),
         c \in DOMAIN ix.scopes =>
           /\ ~ Closed(Extent(ix, c))
           /\ c # ROOT => ~ Closed(Extent(ix, Parent(ix, c)))
           /\ \A t \in DOMAIN ix.scopes : Parent(ix, t) = c => Closed(Extent(ix, t)),
         \A i \in DOMAIN ix.symbols :
           ~ Closed(ix.symbols[i].selection) =>
             ix.symbols[i].scope # c /\ ~ Closed(Extent(ix, ix.symbols[i].scope))
  PROVE  Good(jx) /\ EndsBy(jx, here)
<1>1. /\ ix \in Index /\ Rooted(ix) /\ IndexOK(ix) /\ ix.current \in DOMAIN ix.scopes
      /\ jx \in Index /\ jx.current = ix.current /\ jx.references = ix.references
      /\ DOMAIN jx.scopes = DOMAIN ix.scopes /\ DOMAIN jx.symbols = DOMAIN ix.symbols
      /\ Len(jx.scopes) = Len(ix.scopes) /\ Len(jx.symbols) = Len(ix.symbols)
  BY GoodParts DEF Closes
<1>2. ASSUME NEW s \in DOMAIN ix.scopes
      PROVE  /\ jx.scopes[s].kind = ix.scopes[s].kind
             /\ Parent(jx, s) = Parent(ix, s) /\ jx.scopes[s].parent = ix.scopes[s].parent
             /\ Extent(jx, s).start = Extent(ix, s).start
             /\ s = c => Extent(jx, s).end = here
             /\ s # c => Extent(jx, s).end = Extent(ix, s).end
             /\ s # c => (Closed(Extent(jx, s)) <=> Closed(Extent(ix, s)))
  BY DEF Closes, Closed, Parent
<1>3. ASSUME NEW i \in DOMAIN ix.symbols
      PROVE  /\ jx.symbols[i].scope = ix.symbols[i].scope
             /\ jx.symbols[i].name = ix.symbols[i].name
             /\ jx.symbols[i].selection.start = ix.symbols[i].selection.start
             /\ Closed(ix.symbols[i].selection) =>
                  /\ Closed(jx.symbols[i].selection)
                  /\ jx.symbols[i].selection.end = ix.symbols[i].selection.end
             /\ jx.symbols[i].selection.end \in {here, ix.symbols[i].selection.end}
  BY DEF Closes, Closed
<1>4. IndexOK(jx)
  <2>1. Rooted(jx)
    BY <1>1, <1>2 DEF Rooted
  <2>2. Grows(ix, jx)
    <3>1. Len(ix.scopes) <= Len(jx.scopes) /\ Len(ix.symbols) <= Len(jx.symbols)
      BY <1>1, IndexParts
    <3> QED BY <1>2, <1>3, <3>1 DEF Grows
  <2>3. ASSUME NEW r \in DOMAIN jx.references PROVE ReferenceOK(jx, jx.references[r])
    <3>1. /\ jx.references[r] \in Reference /\ jx.references[r] = ix.references[r]
          /\ ReferenceOK(ix, ix.references[r])
      BY <1>1, IndexParts DEF IndexOK
    <3> QED BY <1>1, <2>1, <2>2, <3>1, ReferenceKept
  <2>4. \A i \in DOMAIN jx.symbols : jx.symbols[i].scope \in DOMAIN jx.scopes
    BY <1>1, <1>3 DEF IndexOK
  <2> QED BY <1>1, <2>1, <2>3, <2>4 DEF IndexOK
<1>5. ScopesApart(jx)
  <2>1. ASSUME NEW s \in DOMAIN ix.scopes, s # ROOT
        PROVE  LiesIn(Extent(jx, s), Extent(jx, Parent(jx, s)))
    <3> DEFINE p == Parent(ix, s)
    <3>1. /\ p \in DOMAIN ix.scopes /\ p # s /\ Parent(jx, s) = p
          /\ LiesIn(Extent(ix, s), Extent(ix, p))
      <4>1. p \in DOMAIN ix.scopes /\ p # s
        BY <1>1, <2>1, GoodParts, IndexParts DEF Rooted
      <4> QED BY <1>2, <2>1, <4>1 DEF Good, Nested, ScopesApart
    <3> HIDE DEF p
    <3>2. Extent(jx, p).start <= Extent(jx, s).start
      BY <1>2, <3>1 DEF LiesIn
    <3>3. ASSUME Closed(Extent(jx, p))
          PROVE  Closed(Extent(jx, s)) /\ Extent(jx, s).end <= Extent(jx, p).end
      <4>1. CASE p = c
        <5>1. Closed(Extent(ix, s)) /\ s # c
          BY <3>1, <4>1 DEF p
        <5>2. Extent(ix, s).end <= here
          BY DEF EndsBy
        <5> QED BY <1>2, <3>1, <4>1, <5>1, <5>2
      <4>2. CASE p # c
        <5>1. Closed(Extent(ix, p))
          BY <1>2, <3>1, <3>3, <4>2
        <5>2. s # c
          BY <2>1, <5>1 DEF p
        <5> QED BY <1>2, <3>1, <4>2, <5>1, <5>2 DEF LiesIn
      <4> QED BY <4>1, <4>2
    <3> QED BY <3>1, <3>2, <3>3 DEF LiesIn
  <2>2. ASSUME NEW t \in DOMAIN ix.scopes, t # c PROVE Extent(jx, t) = Extent(ix, t)
    <3>1. Extent(ix, t) \in Ends
      BY GoodParts
    <3>2. Extent(jx, t) \in Ends
      <4>1. jx.scopes[t] \in Scope
        BY <1>1, IndexParts
      <4> QED BY <4>1 DEF Scope, Extent
    <3> QED BY <1>2, <2>2, <3>1, <3>2 DEF Ends
  <2>3. ASSUME NEW t \in DOMAIN ix.scopes, NEW u \in DOMAIN ix.scopes,
               Beside(ix.scopes[t], ix.scopes[u])
        PROVE  Beside(jx.scopes[t], jx.scopes[u])
    <3>1. CASE Precedes(Extent(ix, t), Extent(ix, u))
      <4>1. t # c
        BY <3>1 DEF Precedes
      <4>2. Precedes(Extent(jx, t), Extent(jx, u))
        BY <1>2, <3>1, <4>1 DEF Precedes
      <4> QED BY <4>2 DEF Beside, Extent
    <3>2. CASE Precedes(Extent(ix, u), Extent(ix, t))
      <4>1. u # c
        BY <3>2 DEF Precedes
      <4>2. Precedes(Extent(jx, u), Extent(jx, t))
        BY <1>2, <3>2, <4>1 DEF Precedes
      <4> QED BY <4>2 DEF Beside, Extent
    <3>3. CASE /\ ix.scopes[t].kind \in LocalKinds /\ ix.scopes[u].kind \in LocalKinds
               /\ Closed(Extent(ix, t)) /\ Extent(ix, t) = Extent(ix, u)
      <4>1. t # c /\ u # c
        BY <3>3
      <4> QED BY <1>2, <2>2, <3>3, <4>1 DEF Beside, Extent
    <3>4. CASE /\ ix.scopes[t].kind \in LocalKinds /\ ix.scopes[u].kind \in DefiningKinds
               /\ Closed(Extent(ix, t)) /\ LiesIn(Extent(ix, t), Extent(ix, u))
      <4>1. t # c
        BY <3>4
      <4>2. Extent(jx, t) = Extent(ix, t) /\ Extent(ix, t).end <= here
        BY <2>2, <4>1 DEF EndsBy
      <4>3. LiesIn(Extent(jx, t), Extent(jx, u))
        <5>1. CASE u = c
          BY <1>2, <3>4, <4>2, <5>1 DEF LiesIn
        <5>2. CASE u # c
          BY <2>2, <3>4, <4>2, <5>2
        <5> QED BY <5>1, <5>2
      <4> QED BY <1>2, <3>4, <4>2, <4>3 DEF Beside, Extent
    <3> QED BY <2>3, <3>1, <3>2, <3>3, <3>4 DEF Beside, Extent
  <2> QED BY <1>1, <1>2, <2>1, <2>3 DEF ScopesApart, Good, Nested
<1>6. ASSUME NEW i \in DOMAIN jx.symbols PROVE SymbolNests(jx, jx.symbols[i])
  <2> DEFINE s == ix.symbols[i].scope
  <2>1. /\ s \in DOMAIN ix.scopes /\ jx.symbols[i].scope = s
        /\ LiesIn(ix.symbols[i].selection, Extent(ix, s))
    BY <1>1, <1>3, GoodParts DEF Good, Nested, SymbolNests
  <2>2. ASSUME Closed(Extent(jx, s))
        PROVE  /\ Closed(jx.symbols[i].selection)
               /\ jx.symbols[i].selection.end <= Extent(jx, s).end
    <3>1. Closed(ix.symbols[i].selection)
      BY <1>1, <1>2, <2>1, <2>2
    <3>2. ix.symbols[i].selection.end <= Extent(jx, s).end
      <4>1. CASE s = c
        BY <1>1, <1>2, <2>1, <4>1 DEF EndsBy
      <4>2. CASE s # c
        BY <1>2, <2>1, <2>2, <4>2 DEF LiesIn
      <4> QED BY <4>1, <4>2
    <3> QED BY <1>1, <1>3, <3>1, <3>2
  <2> HIDE DEF s
  <2>3. Extent(jx, s).start <= jx.symbols[i].selection.start
    BY <1>1, <1>2, <1>3, <2>1 DEF LiesIn
  <2> QED BY <2>1, <2>2, <2>3 DEF SymbolNests, LiesIn
<1>7. ASSUME NEW r \in DOMAIN jx.references PROVE ReferenceNests(jx, jx.references[r])
  <2> DEFINE ref == ix.references[r]
             s   == ref.scope
  <2>1. /\ jx.references[r] = ref /\ s \in DOMAIN ix.scopes /\ ReferenceNests(ix, ref)
        /\ ref.range.start \in Nat /\ ref.range.end \in Nat
        /\ ref.range.end <= here
    BY <1>1, GoodParts DEF Good, Nested, EndsBy
  <2> HIDE DEF ref
  <2>2. ref.range.end = ref.range.start + 1 /\ Closed(ref.range)
    BY <2>1 DEF ReferenceNests, Closed, Open
  <2>3. LiesIn(ref.range, Extent(jx, s))
    <3>1. LiesIn(ref.range, Extent(ix, s))
      BY <2>1 DEF ReferenceNests
    <3>2. CASE s = c
      BY <1>2, <2>1, <2>2, <3>1, <3>2 DEF LiesIn
    <3>3. CASE s # c
      BY <1>2, <2>1, <2>2, <3>1, <3>3 DEF LiesIn
    <3> QED BY <3>2, <3>3
  <2>4. ASSUME NEW t \in DOMAIN ix.scopes, Parent(ix, t) = s
        PROVE  \/ jx.scopes[t].kind \in DefiningKinds /\ ref.entered < t
               \/ Precedes(ref.range, Extent(jx, t))
               \/ Precedes(Extent(jx, t), ref.range)
    <3>1. CASE ix.scopes[t].kind \in DefiningKinds /\ ref.entered < t
      BY <1>2, <3>1
    <3>2. CASE Precedes(ref.range, Extent(ix, t))
      BY <1>2, <3>2 DEF Precedes
    <3>3. CASE Precedes(Extent(ix, t), ref.range)
      <4>1. t # c
        BY <3>3 DEF Precedes
      <4> QED BY <1>2, <3>3, <4>1 DEF Precedes
    <3> QED BY <2>1, <2>4, <3>1, <3>2, <3>3 DEF ReferenceNests
  <2> QED BY <1>1, <1>2, <2>1, <2>2, <2>3, <2>4 DEF ReferenceNests
<1>8. EndsBy(jx, here)
  <2>1. \A s \in DOMAIN ix.scopes : Extent(jx, s).start <= here /\ Extent(jx, s).end <= here
    BY <1>2 DEF EndsBy
  <2>2. \A i \in DOMAIN ix.symbols : /\ jx.symbols[i].selection.start <= here
                                     /\ jx.symbols[i].selection.end <= here
    BY <1>3 DEF EndsBy
  <2> QED BY <1>1, <2>1, <2>2 DEF EndsBy
<1> QED BY <1>4, <1>5, <1>6, <1>7, <1>8 DEF Good, Nested

\* A body ends: the block around is the innermost.
LEMMA BodyEnded ==
  ASSUME NEW ix, Good(ix), NEW blks, Here \in Nat, Visiting(ix, blks, Here), blks # <<>>,
         NEW b, b = Last(blks)
  PROVE  LET kx == IF b.scope = 0 THEN Ended(ix, b) ELSE Leave(Ended(ix, b))
         IN  Good(kx) /\ Visiting(kx, Front(blks), Here)
<1> DEFINE n  == Len(blks)
           c  == b.scope
           h  == Here
           jx == Ended(ix, b)
           kx == IF c = 0 THEN jx ELSE Leave(jx)
           rest == Front(blks)
<1>1. /\ n \in Nat \ {0} /\ DOMAIN blks = 1 .. n /\ b = blks[n]
      /\ rest \in Seq(Blocks) /\ Len(rest) = n - 1 /\ DOMAIN rest = 1 .. n - 1
      /\ \A k \in 1 .. n - 1 : rest[k] = blks[k]
      /\ \A k \in 1 .. n : blks[k].scope \in Nat
  <2>1. blks \in Seq(Blocks) /\ \A k \in 1 .. n : blks[k].scope \in Nat
    BY BlocksParts DEF Visiting
  <2>2. /\ Last(blks) = blks[n] /\ n \in Nat \ {0} /\ DOMAIN blks = 1 .. n
        /\ rest \in Seq(Blocks) /\ Len(rest) = n - 1
        /\ \A k \in 1 .. n - 1 : rest[k] = blks[k]
    BY <2>1, LastAndFront
  <2> HIDE DEF rest, n
  <2>3. DOMAIN rest = 1 .. n - 1
    BY <2>2, LenProperties
  <2> QED BY <2>1, <2>2, <2>3
<1>2. PICK f \in [0 .. n -> DOMAIN ix.scopes] : Around(f, ix, blks)
  BY DEF Visiting
<1>3. ix \in Index /\ Rooted(ix) /\ DOMAIN ix.scopes = 1 .. Len(ix.scopes)
  BY GoodParts, IndexParts
<1>4. Closes(ix, jx, c, b.symbol, h) /\ h \in Nat \ {0} /\ EndsBy(ix, h)
  <2>1. Closes(ix, jx, c, b.symbol, h)
    BY <1>3, EndedCloses
  <2> QED BY <2>1 DEF Visiting
<1> HIDE DEF n, h, jx, rest
<1>5. /\ \A k \in 0 .. n : f[k] \in DOMAIN ix.scopes /\ f[k] \in Nat
      /\ f[0] = ROOT /\ f[n] = ix.current
      /\ \A j, k \in 0 .. n : j <= k => f[j] <= f[k]
      /\ n \in 0 .. n /\ n - 1 \in 0 .. n /\ \A k \in 0 .. n - 1 : k \in 0 .. n
      /\ \A s \in DOMAIN ix.scopes :
           ~ Closed(Extent(ix, s)) <=> \E k \in 0 .. n : f[k] = s
  <2>1. \A k \in 0 .. n : f[k] \in DOMAIN ix.scopes
    BY <1>2
  <2>2. /\ f[0] = ROOT /\ f[n] = ix.current
        /\ \A j, k \in 0 .. n : j <= k => f[j] <= f[k]
        /\ \A s \in DOMAIN ix.scopes :
             ~ Closed(Extent(ix, s)) <=> \E k \in 0 .. n : f[k] = s
    BY <1>2 DEF Around, n
  <2>3. n \in 0 .. n /\ n - 1 \in 0 .. n /\ \A k \in 0 .. n - 1 : k \in 0 .. n
    BY <1>1
  <2>4. \A k \in 0 .. n : f[k] \in Nat
    BY <1>3, <2>1, IndexParts
  <2> QED BY <2>1, <2>2, <2>3, <2>4
<1>6. /\ c = 0 => f[n] = f[n - 1]
      /\ c # 0 => f[n] = c /\ Parent(ix, c) = f[n - 1]
  <2>1. n \in 1 .. n
    BY <1>1
  <2>2. IF blks[n].scope = 0 THEN f[n] = f[n - 1]
        ELSE f[n] = blks[n].scope /\ Parent(ix, f[n]) = f[n - 1]
    BY <1>2, <2>1 DEF Around, n
  <2> QED BY <1>1, <2>2
<1>7. c \in Nat
  BY <1>1
<1> HIDE DEF c
<1>8. \A k \in 0 .. n - 1 : f[k] # c
  <2> SUFFICES ASSUME NEW k \in 0 .. n - 1, f[k] = c PROVE FALSE
    OBVIOUS
  <2>1. k \in 0 .. n /\ f[k] <= f[n - 1]
    BY <1>1, <1>5
  <2>2. c # 0
    BY <1>3, <1>5, <2>1, IndexParts
  <2>3. f[n - 1] < c /\ f[n - 1] \in Nat
    BY <1>3, <1>5, <1>6, <2>2 DEF Rooted
  <2> QED BY <1>7, <2>1, <2>3
<1>9. c \in DOMAIN ix.scopes =>
        /\ c # 0 /\ ~ Closed(Extent(ix, c))
        /\ ~ Closed(Extent(ix, Parent(ix, c)))
        /\ \A t \in DOMAIN ix.scopes : Parent(ix, t) = c => Closed(Extent(ix, t))
  <2> SUFFICES ASSUME c \in DOMAIN ix.scopes
               PROVE  /\ c # 0 /\ ~ Closed(Extent(ix, c))
                      /\ ~ Closed(Extent(ix, Parent(ix, c)))
                      /\ \A t \in DOMAIN ix.scopes :
                           Parent(ix, t) = c => Closed(Extent(ix, t))
    OBVIOUS
  <2>1. c # 0
    BY <1>3, IndexParts
  <2>2. ~ Closed(Extent(ix, c)) /\ ~ Closed(Extent(ix, Parent(ix, c)))
    BY <1>5, <1>6, <2>1
  <2>3. ASSUME NEW t \in DOMAIN ix.scopes, Parent(ix, t) = c, NEW k \in 0 .. n, f[k] = t
        PROVE  FALSE
    <3>1. c < t /\ t \in Nat
      BY <1>3, <2>3, IndexParts DEF Rooted
    <3>2. k <= n /\ f[k] <= f[n]
      BY <1>1, <1>5
    <3> QED BY <1>6, <1>7, <2>1, <2>3, <3>1, <3>2
  <2> QED BY <1>5, <2>1, <2>2, <2>3
<1>10. ASSUME NEW i \in DOMAIN ix.symbols, ~ Closed(ix.symbols[i].selection)
       PROVE  /\ \E k \in 1 .. n : blks[k].symbol = i /\ ix.symbols[i].scope = f[k - 1]
              /\ ix.symbols[i].scope # c /\ ~ Closed(Extent(ix, ix.symbols[i].scope))
  <2>1. PICK k \in 1 .. n : blks[k].symbol = i /\ ix.symbols[i].scope = f[k - 1]
    BY <1>2, <1>10 DEF Around, n
  <2>2. k - 1 \in 0 .. n - 1 /\ k - 1 \in 0 .. n
    BY <1>1
  <2> QED BY <1>5, <1>8, <2>1, <2>2
<1>11. Good(jx) /\ EndsBy(jx, h)
  BY <1>4, <1>9, <1>10, EndingGood
<1>12. /\ Good(kx) /\ kx.current = f[n - 1] /\ kx.scopes = jx.scopes
       /\ kx.symbols = jx.symbols /\ kx.references = jx.references
  <2>1. jx.current = f[n] /\ \A s \in DOMAIN ix.scopes : Parent(jx, s) = Parent(ix, s)
    BY <1>4, <1>5 DEF Closes
  <2>2. CASE c = 0
    BY <1>6, <1>11, <2>1, <2>2
  <2>3. CASE c # 0
    <3>1. c \in DOMAIN ix.scopes /\ Parent(ix, c) # 0
      BY <1>3, <1>5, <1>6, <2>3, IndexParts
    <3>2. c # ROOT
      BY <1>3, <3>1 DEF Rooted
    <3> QED BY <1>6, <1>11, <2>1, <2>3, <3>1, <3>2, ScopeLeft
  <2> QED BY <2>2, <2>3
<1> HIDE DEF kx
<1>13. /\ DOMAIN kx.scopes = DOMAIN ix.scopes /\ DOMAIN kx.symbols = DOMAIN ix.symbols
       /\ \A s \in DOMAIN ix.scopes :
            /\ Parent(kx, s) = Parent(ix, s)
            /\ Closed(Extent(kx, s)) <=> s = c \/ Closed(Extent(ix, s))
       /\ \A i \in DOMAIN ix.symbols :
            /\ kx.symbols[i].scope = ix.symbols[i].scope
            /\ ~ Closed(kx.symbols[i].selection) =>
                 ~ Closed(ix.symbols[i].selection) /\ i # b.symbol
  <2>1. DOMAIN kx.scopes = DOMAIN ix.scopes /\ DOMAIN kx.symbols = DOMAIN ix.symbols
    BY <1>4, <1>12 DEF Closes
  <2>2. \A s \in DOMAIN ix.scopes :
          /\ Parent(kx, s) = Parent(ix, s)
          /\ Closed(Extent(kx, s)) <=> s = c \/ Closed(Extent(ix, s))
    BY <1>4, <1>12 DEF Closes, Parent, Extent, Closed, Open
  <2>3. \A i \in DOMAIN ix.symbols :
          /\ kx.symbols[i].scope = ix.symbols[i].scope
          /\ ~ Closed(kx.symbols[i].selection) =>
               ~ Closed(ix.symbols[i].selection) /\ i # b.symbol
    BY <1>4, <1>12 DEF Closes, Closed, Open
  <2> QED BY <2>1, <2>2, <2>3
<1> DEFINE g == [k \in 0 .. n - 1 |-> f[k]]
<1>14. g \in [0 .. n - 1 -> DOMAIN kx.scopes] /\ \A k \in 0 .. n - 1 : g[k] = f[k]
  BY <1>5, <1>13
<1> HIDE DEF g
<1>15. Around(g, kx, rest)
  <2>1. 0 \in 0 .. n - 1 /\ n - 1 \in 0 .. n - 1
    BY <1>1
  <2>2. ASSUME NEW k \in 1 .. n - 1
        PROVE  IF rest[k].scope = 0 THEN g[k] = g[k - 1]
               ELSE g[k] = rest[k].scope /\ Parent(kx, g[k]) = g[k - 1]
    <3>1. k \in 0 .. n - 1 /\ k - 1 \in 0 .. n - 1 /\ k \in 1 .. n
      BY <1>1
    <3>2. IF blks[k].scope = 0 THEN f[k] = f[k - 1]
          ELSE f[k] = blks[k].scope /\ Parent(ix, f[k]) = f[k - 1]
      BY <1>2, <3>1 DEF Around, n
    <3> QED BY <1>1, <1>5, <1>13, <1>14, <3>1, <3>2
  <2>3. \A j, k \in 0 .. n - 1 : j <= k => g[j] <= g[k]
    BY <1>5, <1>14
  <2>4. ASSUME NEW s \in DOMAIN ix.scopes
        PROVE  ~ Closed(Extent(kx, s)) <=> \E k \in 0 .. n - 1 : g[k] = s
    <3>1. ASSUME ~ Closed(Extent(kx, s)) PROVE \E k \in 0 .. n - 1 : g[k] = s
      <4>1. s # c /\ ~ Closed(Extent(ix, s))
        BY <1>13, <3>1
      <4>2. PICK k \in 0 .. n : f[k] = s
        BY <1>5, <4>1
      <4>3. CASE k = n
        <5>1. f[n - 1] = s
          BY <1>6, <4>1, <4>2, <4>3
        <5> QED BY <1>14, <2>1, <5>1
      <4>4. CASE k # n
        <5>1. k \in 0 .. n - 1
          BY <1>1, <4>4
        <5> QED BY <1>14, <4>2, <5>1
      <4> QED BY <4>3, <4>4
    <3>2. ASSUME NEW k \in 0 .. n - 1, g[k] = s PROVE ~ Closed(Extent(kx, s))
      <4>1. f[k] = s /\ k \in 0 .. n /\ s # c
        BY <1>5, <1>8, <1>14, <3>2
      <4> QED BY <1>5, <1>13, <4>1
    <3> QED BY <3>1, <3>2
  <2>5. ASSUME NEW i \in DOMAIN ix.symbols, ~ Closed(kx.symbols[i].selection)
        PROVE  \E k \in 1 .. n - 1 : rest[k].symbol = i /\ kx.symbols[i].scope = g[k - 1]
    <3>1. ~ Closed(ix.symbols[i].selection) /\ i # b.symbol
      BY <1>13, <2>5
    <3>2. PICK k \in 1 .. n : blks[k].symbol = i /\ ix.symbols[i].scope = f[k - 1]
      BY <1>10, <3>1
    <3>3. k # n
      BY <1>1, <3>1, <3>2
    <3>4. k \in 1 .. n - 1 /\ k - 1 \in 0 .. n - 1
      BY <1>1, <3>3
    <3> QED BY <1>1, <1>13, <1>14, <3>2, <3>4
  <2> QED BY <1>1, <1>5, <1>12, <1>13, <1>14, <2>1, <2>2, <2>3, <2>4, <2>5 DEF Around
<1>16. BlocksOK(rest)
  <2>1. \A k \in 1 .. n - 1 : k \in 1 .. n
    BY <1>1
  <2> QED BY <1>1, <2>1 DEF BlocksOK, Visiting
<1>17. EndsBy(kx, h)
  BY <1>11, <1>12 DEF EndsBy, Extent
<1> QED BY <1>1, <1>4, <1>12, <1>14, <1>15, <1>16, <1>17 DEF Visiting, kx, jx, rest, h, c

\* The module ends.
LEMMA ModuleEnded ==
  ASSUME NEW ix, Good(ix), Here \in Nat \ {0}, Visiting(ix, <<>>, Here)
  PROVE  LET jx == Ended(ix, Block("module", 0, ROOT))
         IN  Good(jx) /\ AllClosed(jx) /\ EndsBy(jx, Here)
<1> DEFINE b  == Block("module", 0, ROOT)
           jx == Ended(ix, b)
           h  == Here
<1>1. b.scope = ROOT /\ b.symbol = 0
  BY DEF Block
<1>2. ix \in Index /\ Rooted(ix) /\ DOMAIN ix.scopes = 1 .. Len(ix.scopes)
      /\ DOMAIN ix.symbols = 1 .. Len(ix.symbols)
  BY GoodParts, IndexParts
<1>3. Closes(ix, jx, ROOT, 0, h) /\ h \in Nat \ {0} /\ EndsBy(ix, h)
  <2>1. Here \in Nat
    OBVIOUS
  <2> HIDE DEF b
  <2>2. Closes(ix, jx, b.scope, b.symbol, h)
    BY <1>2, <2>1, EndedCloses
  <2> QED BY <1>1, <2>2 DEF Visiting
<1> HIDE DEF jx, h, b
<1>4. PICK f \in [0 .. 0 -> DOMAIN ix.scopes] : Around(f, ix, <<>>)
  BY DEF Visiting
<1>5. /\ \A s \in DOMAIN ix.scopes : ~ Closed(Extent(ix, s)) <=> s = ROOT
      /\ \A i \in DOMAIN ix.symbols : Closed(ix.symbols[i].selection)
  <2>1. /\ f[0] = ROOT
        /\ \A s \in DOMAIN ix.scopes :
             ~ Closed(Extent(ix, s)) <=> \E k \in 0 .. 0 : f[k] = s
    BY <1>4 DEF Around
  <2>2. \A i \in DOMAIN ix.symbols : Closed(ix.symbols[i].selection)
    BY <1>4 DEF Around
  <2> QED BY <2>1, <2>2
<1>6. \A t \in DOMAIN ix.scopes : Parent(ix, t) = ROOT => Closed(Extent(ix, t))
  BY <1>2, <1>5 DEF Rooted
<1>7. Good(jx) /\ EndsBy(jx, h)
  <2>1. h \in Nat
    BY <1>3
  <2> QED BY <1>3, <1>5, <1>6, <2>1, EndingGood
<1>8. AllClosed(jx)
  <2>1. \A s \in DOMAIN jx.scopes : Closed(Extent(jx, s))
    BY <1>3, <1>5 DEF Closes, Closed, Open
  <2>2. \A i \in DOMAIN jx.symbols : Closed(jx.symbols[i].selection)
    BY <1>3, <1>5 DEF Closes, Closed, Open
  <2> QED BY <2>1, <2>2 DEF AllClosed
<1> QED BY <1>7, <1>8 DEF jx, h, b

LEMMA SortedLen ==
  ASSUME NEW table, NEW turned, NEW n \in Nat, DOMAIN table = 1 .. n
  PROVE  Len(Sorted(table, turned)) \in Nat
<1> DEFINE sorted == Sorted(table, turned)
<1>1. sorted \in [1 .. n -> {sorted[k] : k \in 1 .. n}]
  BY DEF Sorted
<1> HIDE DEF sorted
<1>2. sorted \in Seq({sorted[k] : k \in 1 .. n})
  BY <1>1, SeqDef
<1>3. Len(sorted) \in Nat
  BY <1>2, LenProperties
<1> QED BY <1>3 DEF sorted
-------------------------------------------------------------------------------
(***************************************************************************)
(* Statements: the words they are of, and what is visited of them.         *)
(***************************************************************************)
LEMMA WordsTyped ==
  ASSUME ScopeIndexAssumption
  PROVE  /\ \A e \in Expression : Words(e) \in Seq(Word) /\ Len(Words(e)) \in Nat
         /\ \A word \in Reserved \cup Names : <<word>> \in Seq(Word) /\ Len(<<word>>) = 1
         /\ \A q, r \in Seq(Word) : /\ q \o r \in Seq(Word) /\ Len(q \o r) = Len(q) + Len(r)
                                    /\ Len(q) \in Nat
<1>1. \A e \in Expression : Words(e) \in Seq(Word) /\ Len(Words(e)) \in Nat
  <2> SUFFICES ASSUME NEW e \in Expression
               PROVE  Words(e) \in Seq(Word) /\ Len(Words(e)) \in Nat
    OBVIOUS
  <2>1. Words(e) \in Seq(Names \cup {Missing}) /\ Len(Words(e)) \in Nat
    BY ExpressionParts
  <2>2. Seq(Names \cup {Missing}) \subseteq Seq(Word)
    <3> DEFINE T == Names \cup {Missing}
    <3>1. T \subseteq Word
      BY DEF Word
    <3> HIDE DEF T
    <3> QED BY <3>1 DEF T
  <2> QED BY <2>1, <2>2
<1>2. \A word \in Reserved \cup Names : <<word>> \in Seq(Word) /\ Len(<<word>>) = 1
  <2> SUFFICES ASSUME NEW word \in Reserved \cup Names
               PROVE  <<word>> \in Seq(Word) /\ Len(<<word>>) = 1
    OBVIOUS
  <2>1. word \in Word
    BY DEF Word
  <2> HIDE DEF Word
  <2> QED BY <2>1
<1>3. \A q, r \in Seq(Word) : /\ q \o r \in Seq(Word) /\ Len(q \o r) = Len(q) + Len(r)
                              /\ Len(q) \in Nat
  BY ConcatProperties, LenProperties
<1> QED BY <1>1, <1>2, <1>3

LEMMA NameRangeIn ==
  ASSUME NEW words, NEW name, NEW first \in Nat, NEW last \in Nat, first < last
  PROVE  LET selection == NameRange(words, name, first, last)
         IN  /\ selection \in Selected /\ selection.end = selection.start + 1
             /\ first <= selection.start /\ selection.start < last
<1> DEFINE Found(i, half) == <<words[i + 1], name, half>> \in Within
           holds == {i \in first .. last - 1 :
                       words[i + 1] = name \/ Found(i, 1) \/ Found(i, 2)}
           at == IF holds = {} THEN first ELSE Min(holds)
           part == CASE words[at + 1] = name -> 0
                     [] words[at + 1] # name /\ Found(at, 1) -> 1
                     [] OTHER -> 2
<1>1. NameRange(words, name, first, last) = [start |-> at, end |-> at + 1, half |-> part]
  BY DEF NameRange
<1>2. holds \subseteq first .. last - 1
  OBVIOUS
<1> HIDE DEF holds
<1>3. part \in 0 .. 2
  <2> HIDE DEF at, Found
  <2>1. part = 0 \/ part = 1 \/ part = 2
    OBVIOUS
  <2> QED BY <2>1
<1>4. holds # {} => Min(holds) \in holds
  <2>1. holds \subseteq Nat
    BY <1>2
  <2> QED BY <2>1, LeastOf
<1> HIDE DEF part
<1> DEFINE least == Min(holds)
<1>5. at \in first .. last - 1
  <2>1. first \in first .. last - 1
    OBVIOUS
  <2>2. holds # {} => least \in first .. last - 1
    BY <1>2, <1>4
  <2> HIDE DEF least
  <2> QED BY <2>1, <2>2 DEF least
<1> HIDE DEF at
<1>6. at \in Nat /\ first <= at /\ at < last
  BY <1>5
<1> QED BY <1>1, <1>3, <1>6 DEF Selected

\* The text goes on by the words of a statement.
LEMMA StatementTaken ==
  ASSUME text \in Seq(Word), NEW words \in Seq(Word), Statement(words)
  PROVE  /\ query = "visiting" /\ UNCHANGED <<query, searchVars>>
         /\ text' \in Seq(Word) /\ Here \in Nat /\ Len(words) \in Nat /\ Here' \in Nat
         /\ Here' = Here + Len(words)
<1>1. query = "visiting" /\ text' = text \o words /\ UNCHANGED <<query, searchVars>>
  BY DEF Statement
<1>2. /\ text \o words \in Seq(Word) /\ Len(text) \in Nat /\ Len(words) \in Nat
      /\ Len(text \o words) = Len(text) + Len(words)
  BY ConcatProperties, LenProperties
<1>3. Here = Len(text) /\ Here' = Len(text')
  BY DEF Here
<1> QED BY <1>1, <1>2, <1>3

\* Two parts of a statement, in either order.
LEMMA PartsVisited ==
  ASSUME ScopeIndexAssumption, NEW ix, Good(ix), NEW t \in Expression, NEW e \in Expression,
         NEW a \in Nat, NEW b \in Nat, NEW lo \in Nat, NEW hi \in Nat, lo <= a, lo <= b,
         a + Len(Words(t)) <= hi, b + Len(Words(e)) <= hi,
         a + Len(Words(t)) <= b \/ b + Len(Words(e)) <= a,
         Room(ix, a, a + Len(Words(t))), Blank(ix, a, a + Len(Words(t))),
         Room(ix, b, b + Len(Words(e))), Blank(ix, b, b + Len(Words(e)))
  PROVE  /\ Visits(ix, VisitTarget(VisitExpr(ix, e, b), t, a), lo, hi)
         /\ Visits(ix, VisitExpr(VisitExpr(ix, e, b), t, a), lo, hi)
<1> DEFINE c == a + Len(Words(t))
           d == b + Len(Words(e))
           jx == VisitExpr(ix, e, b)
<1>1. c \in Nat /\ d \in Nat
  BY WordsTyped
<1>2. Visits(ix, jx, b, d) /\ Good(jx)
  <2>1. Visits(ix, jx, b, d)
    BY <1>1, FreeHere, ExprVisited
  <2> QED BY <2>1 DEF Visits
<1>3. Visits(ix, jx, lo, hi)
  BY <1>1, <1>2, VisitsWider
<1> HIDE DEF jx
<1>4. Room(jx, a, c) /\ Blank(jx, a, c)
  <2>1. Room(ix, a, c) /\ Blank(ix, a, c)
    OBVIOUS
  <2> HIDE DEF c, d
  <2>2. c <= b \/ d <= a
    BY DEF c, d
  <2> QED BY <1>1, <1>2, <2>1, <2>2, RoomBeside
<1>5. Visits(jx, VisitTarget(jx, t, a), a, c) /\ Visits(jx, VisitExpr(jx, t, a), a, c)
  BY <1>1, <1>2, <1>4, FreeHere, ExprVisited, TargetVisited
<1> DEFINE kx == VisitTarget(jx, t, a)
           lx == VisitExpr(jx, t, a)
<1>6. Visits(jx, kx, lo, hi) /\ Visits(jx, lx, lo, hi)
  <2> HIDE DEF kx, lx, c
  <2>1. lo <= a /\ c <= hi
    BY DEF c
  <2> QED BY <1>1, <1>5, <2>1, VisitsWider DEF kx, lx
<1>7. Visits(ix, kx, lo, hi) /\ Visits(ix, lx, lo, hi)
  <2> HIDE DEF kx, lx
  <2> QED BY <1>3, <1>6, VisitsOn
<1> QED BY <1>7 DEF jx
-------------------------------------------------------------------------------
(***************************************************************************)
(* What each statement leaves of the invariant.                            *)
(***************************************************************************)
LEMMA InvVisiting ==
  ASSUME IInv, query = "visiting"
  PROVE  /\ Good(index) /\ text \in Seq(Word) /\ Here \in Nat
         /\ Visiting(index, blocks, Here)
         /\ \A c, d \in Nat : Here <= c => Room(index, c, d) /\ Blank(index, c, d)
         /\ index.current \in DOMAIN index.scopes
         /\ ~ Closed(Extent(index, index.current))
         /\ Extent(index, index.current).start <= Here
<1>1. /\ Good(index) /\ text \in Seq(Word) /\ Visiting(index, blocks, Here)
  BY DEF IInv
<1>2. Here \in Nat
  BY <1>1, LenProperties DEF Here
<1>3. /\ \A c, d \in Nat : Here <= c => Room(index, c, d) /\ Blank(index, c, d)
      /\ ~ Closed(Extent(index, index.current))
  BY <1>1, <1>2, RoomHere
<1>4. index.current \in DOMAIN index.scopes
  BY <1>1, GoodParts
<1>5. Extent(index, index.current).start <= Here
  BY <1>1, <1>4 DEF Visiting, EndsBy
<1> QED BY <1>1, <1>2, <1>3, <1>4, <1>5

\* The parts of the invariant that statements leave alone.
LEMMA InvAgain ==
  ASSUME IInv, UNCHANGED <<query, searchVars>>, query = "visiting",
         Good(index'), text' \in Seq(Word), Visiting(index', blocks', Here')
  PROVE  IInv'
<1>1. /\ entries' = entries /\ cursor' = cursor /\ search' = search /\ query' = query
  BY DEF searchVars
<1>2. Good(index)' /\ (text \in Seq(Word))' /\ Visiting(index, blocks, Here)'
  OBVIOUS
<1> QED BY <1>1, <1>2 DEF IInv

LEMMA SimpleVisited ==
  ASSUME IInv, NEW words \in Seq(Word), NEW jx, Simple(words, jx),
         query = "visiting" => Visits(index, jx, Here, Here + Len(words))
  PROVE  IInv'
<1>1. Statement(words) /\ index' = jx /\ blocks' = Filled
  BY DEF Simple
<1>2. /\ query = "visiting" /\ UNCHANGED <<query, searchVars>> /\ text' \in Seq(Word)
      /\ Here \in Nat /\ Len(words) \in Nat /\ Here' \in Nat
      /\ Here' = Here + Len(words)
  BY <1>1, StatementTaken DEF IInv
<1>3. Good(index) /\ Visiting(index, blocks, Here)
  BY <1>2, InvVisiting
<1>4. Visiting(jx, blocks, Here + Len(words)) /\ Good(jx)
  <2> DEFINE hi == Here + Len(words)
  <2>1. hi \in Nat /\ Here <= hi /\ Visits(index, jx, Here, hi)
    BY <1>2
  <2> HIDE DEF hi
  <2>2. Visiting(jx, blocks, hi)
    BY <1>2, <1>3, <2>1, VisitingOn
  <2> QED BY <2>1, <2>2 DEF hi, Visits
<1>5. Visiting(jx, Filled, Here + Len(words))
  BY <1>4, FilledVisiting
<1>6. Visiting(index', blocks', Here') /\ Good(index')
  BY <1>1, <1>2, <1>4, <1>5
<1> QED BY <1>2, <1>6, InvAgain

LEMMA PlainVisited ==
  ASSUME IInv, NEW words \in Seq(Word), NEW kind \in BlockKinds \ {"def", "class"},
         NEW jx, Plain(kind, words, jx), Len(words) > 0,
         query = "visiting" => Visits(index, jx, Here, Here + Len(words))
  PROVE  IInv'
<1>1. Statement(words) /\ index' = jx /\ blocks' = Append(Filled, Block(kind, 0, 0))
  BY DEF Plain
<1>2. /\ query = "visiting" /\ UNCHANGED <<query, searchVars>> /\ text' \in Seq(Word)
      /\ Here \in Nat /\ Len(words) \in Nat /\ Here' \in Nat
      /\ Here' = Here + Len(words)
  BY <1>1, StatementTaken DEF IInv
<1>3. Good(index) /\ Visiting(index, blocks, Here)
  BY <1>2, InvVisiting
<1> DEFINE hi == Here + Len(words)
<1>4. hi \in Nat /\ Here <= hi /\ Visits(index, jx, Here, hi) /\ hi # 0 /\ Here' = hi
  BY <1>2
<1> HIDE DEF hi
<1>5. Visiting(jx, blocks, hi) /\ Good(jx)
  BY <1>2, <1>3, <1>4, VisitingOn DEF Visits
<1>6. Visiting(jx, Filled, hi)
  BY <1>5, FilledVisiting
<1>7. Visiting(jx, Append(Filled, Block(kind, 0, 0)), hi)
  BY <1>4, <1>6, BlockPushed
<1>8. Visiting(index', blocks', Here') /\ Good(index')
  BY <1>1, <1>4, <1>5, <1>7
<1> QED BY <1>2, <1>8, InvAgain

LEMMA UseInv == ScopeIndexAssumption /\ IInv /\ VisitUse => IInv'
<1> SUFFICES ASSUME ScopeIndexAssumption, IInv, VisitUse PROVE IInv'
  OBVIOUS
<1>1. PICK e \in Exprs : Simple(Words(e), VisitExpr(index, e, Here))
  BY DEF VisitUse
<1>2. e \in Expression
  BY DEF ScopeIndexAssumption
<1>3. Words(e) \in Seq(Word) /\ Len(Words(e)) \in Nat
  BY <1>2, WordsTyped
<1>4. ASSUME query = "visiting"
      PROVE  Visits(index, VisitExpr(index, e, Here), Here, Here + Len(Words(e)))
  <2> DEFINE hi == Here + Len(Words(e))
  <2>1. /\ Good(index) /\ Here \in Nat /\ hi \in Nat
        /\ Room(index, Here, hi) /\ Blank(index, Here, hi)
    BY <1>3, <1>4, InvVisiting
  <2> QED BY <1>2, <2>1, FreeHere, ExprVisited
<1> QED BY <1>1, <1>3, <1>4, SimpleVisited

LEMMA InertInv == ScopeIndexAssumption /\ IInv /\ VisitInert => IInv'
<1> SUFFICES ASSUME ScopeIndexAssumption, IInv, VisitInert PROVE IInv'
  OBVIOUS
<1>1. Simple(<<"pass">>, index)
  BY DEF VisitInert
<1>2. <<"pass">> \in Seq(Word)
  BY WordsTyped DEF Reserved
<1>3. query = "visiting" => Visits(index, index, Here, Here + Len(<<"pass">>))
  BY InvVisiting, VisitsNothing
<1> QED BY <1>1, <1>2, <1>3, SimpleVisited

LEMMA AssignInv == ScopeIndexAssumption /\ IInv /\ VisitAssign => IInv'
<1> SUFFICES ASSUME ScopeIndexAssumption, IInv, VisitAssign PROVE IInv'
  OBVIOUS
<1>1. PICK t \in Targets, e \in Exprs :
        Simple(Words(t) \o Words(e),
               VisitTarget(VisitExpr(index, e, Here + Len(Words(t))), t, Here))
  BY DEF VisitAssign
<1>2. t \in Expression /\ e \in Expression
  BY DEF ScopeIndexAssumption
<1> DEFINE words == Words(t) \o Words(e)
           jx == VisitTarget(VisitExpr(index, e, Here + Len(Words(t))), t, Here)
<1>3. /\ words \in Seq(Word) /\ Len(words) = Len(Words(t)) + Len(Words(e))
      /\ Len(Words(t)) \in Nat /\ Len(Words(e)) \in Nat
  BY <1>2, WordsTyped
<1> HIDE DEF words
<1>4. ASSUME query = "visiting" PROVE Visits(index, jx, Here, Here + Len(words))
  <2> DEFINE b  == Here + Len(Words(t))
             hi == Here + Len(words)
  <2>1. /\ Good(index) /\ Here \in Nat /\ b \in Nat /\ hi \in Nat /\ Here <= b
        /\ b + Len(Words(e)) <= hi /\ Here + Len(Words(t)) <= hi
        /\ Here + Len(Words(t)) <= b
    BY <1>3, <1>4, InvVisiting
  <2>2. /\ Room(index, Here, Here + Len(Words(t))) /\ Blank(index, Here, Here + Len(Words(t)))
        /\ Room(index, b, b + Len(Words(e))) /\ Blank(index, b, b + Len(Words(e)))
    BY <1>3, <1>4, <2>1, InvVisiting
  <2> HIDE DEF b, hi
  <2>3. Visits(index, VisitTarget(VisitExpr(index, e, b), t, Here), Here, hi)
    BY <1>2, <2>1, <2>2, PartsVisited
  <2> QED BY <2>3 DEF b, hi
<1> HIDE DEF jx
<1> QED BY <1>1, <1>3, <1>4, SimpleVisited DEF jx, words

LEMMA AugAssignInv == ScopeIndexAssumption /\ IInv /\ VisitAugAssign => IInv'
<1> SUFFICES ASSUME ScopeIndexAssumption, IInv, VisitAugAssign PROVE IInv'
  OBVIOUS
<1>1. PICK t \in Targets, e \in Exprs :
        Simple(Words(t) \o Words(e),
               VisitExpr(VisitExpr(index, t, Here), e, Here + Len(Words(t))))
  BY DEF VisitAugAssign
<1>2. t \in Expression /\ e \in Expression
  BY DEF ScopeIndexAssumption
<1> DEFINE words == Words(t) \o Words(e)
           jx == VisitExpr(VisitExpr(index, t, Here), e, Here + Len(Words(t)))
<1>3. /\ words \in Seq(Word) /\ Len(words) = Len(Words(t)) + Len(Words(e))
      /\ Len(Words(t)) \in Nat /\ Len(Words(e)) \in Nat
  BY <1>2, WordsTyped
<1> HIDE DEF words
<1>4. ASSUME query = "visiting" PROVE Visits(index, jx, Here, Here + Len(words))
  <2> DEFINE b  == Here + Len(Words(t))
             hi == Here + Len(words)
  <2>1. /\ Good(index) /\ Here \in Nat /\ b \in Nat /\ hi \in Nat /\ Here <= b
        /\ b + Len(Words(e)) <= hi /\ Here + Len(Words(t)) <= hi
        /\ Here + Len(Words(t)) <= b
    BY <1>3, <1>4, InvVisiting
  <2>2. /\ Room(index, Here, Here + Len(Words(t))) /\ Blank(index, Here, Here + Len(Words(t)))
        /\ Room(index, b, b + Len(Words(e))) /\ Blank(index, b, b + Len(Words(e)))
    BY <1>3, <1>4, <2>1, InvVisiting
  <2> HIDE DEF b, hi
  <2>3. Visits(index, VisitExpr(VisitExpr(index, t, Here), e, b), Here, hi)
    BY <1>2, <2>1, <2>2, PartsVisited
  <2> QED BY <2>3 DEF b, hi
<1> HIDE DEF jx
<1> QED BY <1>1, <1>3, <1>4, SimpleVisited DEF jx, words

LEMMA AnnAssignInv == ScopeIndexAssumption /\ IInv /\ VisitAnnAssign => IInv'
<1> SUFFICES ASSUME ScopeIndexAssumption, IInv, VisitAnnAssign PROVE IInv'
  OBVIOUS
<1>1. PICK t \in Targets, annotation \in Names, e \in Exprs :
        LET at == Here + Len(Words(t))
            value == VisitExpr(AddReference(index, annotation, at), e, at + 1)
        IN  Simple(Words(t) \o <<annotation>> \o Words(e), VisitTarget(value, t, Here))
  BY DEF VisitAnnAssign
<1>2. t \in Expression /\ e \in Expression
  BY DEF ScopeIndexAssumption
<1> DEFINE words == Words(t) \o <<annotation>> \o Words(e)
           at == Here + Len(Words(t))
           ax == AddReference(index, annotation, at)
           jx == VisitTarget(VisitExpr(ax, e, at + 1), t, Here)
<1>3. /\ words \in Seq(Word) /\ Len(words) = (Len(Words(t)) + 1) + Len(Words(e))
      /\ Len(Words(t)) \in Nat /\ Len(Words(e)) \in Nat
  <2>1. /\ Words(t) \in Seq(Word) /\ Words(e) \in Seq(Word) /\ <<annotation>> \in Seq(Word)
        /\ Len(Words(t)) \in Nat /\ Len(Words(e)) \in Nat /\ Len(<<annotation>>) = 1
    BY <1>2, WordsTyped
  <2>2. /\ Words(t) \o <<annotation>> \in Seq(Word)
        /\ Len(Words(t) \o <<annotation>>) = Len(Words(t)) + 1
    BY <2>1, ConcatProperties
  <2>3. words \in Seq(Word) /\ Len(words) = Len(Words(t) \o <<annotation>>) + Len(Words(e))
    BY <2>1, <2>2, ConcatProperties
  <2> QED BY <2>1, <2>2, <2>3
<1> HIDE DEF words
<1>4. ASSUME query = "visiting" PROVE Visits(index, jx, Here, Here + Len(words))
  <2> DEFINE hi == Here + Len(words)
             b  == at + 1
             c  == at
             d  == b + Len(Words(e))
  <2>1. /\ Good(index) /\ Here \in Nat /\ at \in Nat /\ b \in Nat /\ hi \in Nat
        /\ c \in Nat /\ d \in Nat /\ Here <= b /\ b = at + 1
        /\ at < hi /\ b <= hi /\ Here <= at /\ d <= hi /\ c <= b /\ c <= hi
        /\ Here + Len(Words(t)) = c /\ b + Len(Words(e)) = d
        /\ Room(index, at, b) /\ Room(index, Here, c) /\ Blank(index, Here, c)
        /\ Room(index, b, d) /\ Blank(index, b, d)
    BY <1>3, <1>4, InvVisiting
  <2> HIDE DEF hi, b, c, d, at
  <2>2. annotation \in Names \cup {Missing} /\ at < b
    BY <2>1
  <2>3. Visits(index, ax, at, b)
    BY <2>1, <2>2, ReferenceVisited
  <2>4. Visits(index, ax, Here, hi) /\ Good(ax)
    BY <2>1, <2>3, VisitsWider DEF Visits
  <2> HIDE DEF ax
  <2>5. /\ Room(ax, Here, c) /\ Blank(ax, Here, c)
        /\ Room(ax, b, d) /\ Blank(ax, b, d)
    <3>1. c <= at
      BY <2>1 DEF c
    <3> QED BY <2>1, <2>3, <3>1, RoomBeside
  <2> DEFINE kx == VisitTarget(VisitExpr(ax, e, b), t, Here)
  <2>6. Visits(ax, kx, Here, hi)
    <3>1. /\ Here <= Here /\ Here <= b /\ Here + Len(Words(t)) <= hi
          /\ b + Len(Words(e)) <= hi /\ Here + Len(Words(t)) <= b
          /\ Room(ax, Here, Here + Len(Words(t))) /\ Blank(ax, Here, Here + Len(Words(t)))
          /\ Room(ax, b, b + Len(Words(e))) /\ Blank(ax, b, b + Len(Words(e)))
      BY <2>1, <2>5
    <3>2. /\ Visits(ax, VisitTarget(VisitExpr(ax, e, b), t, Here), Here, hi)
          /\ Visits(ax, VisitExpr(VisitExpr(ax, e, b), t, Here), Here, hi)
      BY <1>2, <2>1, <2>4, <3>1, PartsVisited
    <3> QED BY <3>2
  <2> HIDE DEF kx
  <2>7. Visits(index, kx, Here, hi)
    BY <2>1, <2>4, <2>6, VisitsOn
  <2> QED BY <2>7 DEF kx, ax, hi, b
<1> HIDE DEF jx
<1> QED BY <1>1, <1>3, <1>4, SimpleVisited DEF jx, words, ax, at

LEMMA ImportInv == ScopeIndexAssumption /\ IInv /\ VisitImport => IInv'
<1> SUFFICES ASSUME ScopeIndexAssumption, IInv, VisitImport PROVE IInv'
  OBVIOUS
<1>1. PICK name \in Names, kind \in {"Import", "ImportedSymbol"}, alias \in {<<>>, <<"os", "as">>} :
        LET words == <<"import">> \o alias \o <<name>>
            range == Span(Here + 1, Here + Len(words))
        IN  /\ Statement(words)
            /\ index' = AddSymbol(index, name, kind, range,
                                  NameRange(text', name, range.start, range.end))
            /\ blocks' = Filled
  BY DEF VisitImport
<1> DEFINE words == <<"import">> \o alias \o <<name>>
           range == Span(Here + 1, Here + Len(words))
           selection == NameRange(text', name, range.start, range.end)
           jx == AddSymbol(index, name, kind, range, selection)
<1>2. words \in Seq(Word) /\ Len(words) >= 2
  <2>1. /\ <<"import">> \in Seq(Word) /\ Len(<<"import">>) = 1
        /\ <<name>> \in Seq(Word) /\ Len(<<name>>) = 1
    BY WordsTyped DEF Reserved
  <2>2. alias \in Seq(Word) /\ Len(alias) \in Nat
    <3>1. <<"os", "as">> \in Seq(Word)
      <4>1. "os" \in Word /\ "as" \in Word
        BY DEF Word, Reserved
      <4> HIDE DEF Word
      <4> QED BY <4>1
    <3>2. alias \in Seq(Word)
      <4> HIDE DEF Word
      <4>1. <<>> \in Seq(Word)
        BY EmptySeq
      <4>2. CASE alias = <<>>
        BY <4>1, <4>2
      <4>3. CASE alias = <<"os", "as">>
        BY <3>1, <4>3
      <4> QED BY <4>2, <4>3
    <3> QED BY <3>2, LenProperties
  <2>3. /\ <<"import">> \o alias \in Seq(Word)
        /\ Len(<<"import">> \o alias) = 1 + Len(alias)
    BY <2>1, <2>2, ConcatProperties
  <2>4. words \in Seq(Word) /\ Len(words) = Len(<<"import">> \o alias) + 1
    BY <2>1, <2>3, ConcatProperties
  <2> QED BY <2>2, <2>3, <2>4
<1> HIDE DEF words
<1>3. Statement(words) /\ index' = jx /\ blocks' = Filled
  BY <1>1 DEF words
<1>4. query = "visiting"
  BY <1>3 DEF Statement
<1>5. Visits(index, jx, Here, Here + Len(words))
  <2> DEFINE hi == Here + Len(words)
             lo == Here + 1
  <2>1. /\ Good(index) /\ Here \in Nat /\ Len(words) \in Nat /\ hi \in Nat /\ lo \in Nat
        /\ lo < hi /\ Here <= lo /\ Room(index, Here, hi)
        /\ range.start = lo /\ range.end = hi /\ range \in Ends
    BY <1>2, <1>4, InvVisiting, LenProperties DEF Span, Ends
  <2> HIDE DEF hi, lo, range
  <2>2. /\ selection \in Selected /\ selection.end = selection.start + 1
        /\ lo <= selection.start /\ selection.start < hi
    BY <2>1, NameRangeIn
  <2> HIDE DEF selection
  <2>3. /\ Here <= selection.start /\ selection.start \in Nat
        /\ selection.end <= hi /\ selection.end # 0
    BY <2>1, <2>2 DEF Selected
  <2>4. /\ selection \in Selected /\ In(selection, Here, hi)
        /\ LiesIn(selection, Extent(index, index.current))
    <3>1. In(selection, Here, hi)
      BY <2>1, <2>2, <2>3 DEF In, Closed, Open
    <3>2. ~ Closed(Extent(index, index.current)) /\ Extent(index, index.current).start <= Here
      BY <1>4, InvVisiting
    <3>3. Extent(index, index.current).start \in Nat
      BY <2>1, GoodParts
    <3> QED BY <2>1, <2>2, <2>3, <3>1, <3>2, <3>3 DEF LiesIn
  <2>5. kind \in SymbolKinds
    BY DEF SymbolKinds
  <2>6. Visits(index, jx, Here, hi)
    BY <2>1, <2>4, <2>5, SymbolVisited
  <2> QED BY <2>6 DEF hi
<1> HIDE DEF jx
<1>6. Simple(words, jx)
  BY <1>3 DEF Simple
<1> QED BY <1>2, <1>5, <1>6, SimpleVisited

LEMMA TryInv == ScopeIndexAssumption /\ IInv /\ VisitTry => IInv'
<1> SUFFICES ASSUME ScopeIndexAssumption, IInv, VisitTry PROVE IInv'
  OBVIOUS
<1>1. Plain("try", <<"try">>, index)
  BY DEF VisitTry
<1>2. <<"try">> \in Seq(Word) /\ Len(<<"try">>) > 0
  BY WordsTyped DEF Reserved
<1>3. query = "visiting" => Visits(index, index, Here, Here + Len(<<"try">>))
  BY InvVisiting, VisitsNothing
<1>4. "try" \in BlockKinds \ {"def", "class"}
  BY DEF BlockKinds
<1> QED BY <1>1, <1>2, <1>3, <1>4, PlainVisited

LEMMA BranchInv == ScopeIndexAssumption /\ IInv /\ VisitBranch => IInv'
<1> SUFFICES ASSUME ScopeIndexAssumption, IInv, VisitBranch PROVE IInv'
  OBVIOUS
<1>1. PICK e \in Exprs :
        Plain("branch", <<"if">> \o Words(e), VisitExpr(index, e, Here + 1))
  BY DEF VisitBranch
<1>2. e \in Expression
  BY DEF ScopeIndexAssumption
<1> DEFINE words == <<"if">> \o Words(e)
           jx == VisitExpr(index, e, Here + 1)
<1>3. /\ words \in Seq(Word) /\ Len(words) = 1 + Len(Words(e)) /\ Len(Words(e)) \in Nat
  <2>1. <<"if">> \in Seq(Word) /\ Len(<<"if">>) = 1 /\ Words(e) \in Seq(Word)
    BY <1>2, WordsTyped DEF Reserved
  <2> QED BY <1>2, <2>1, WordsTyped
<1> HIDE DEF words
<1>4. ASSUME query = "visiting" PROVE Visits(index, jx, Here, Here + Len(words))
  <2> DEFINE a  == Here + 1
             hi == Here + Len(words)
  <2>1. /\ Good(index) /\ Here \in Nat /\ a \in Nat /\ hi \in Nat /\ Here <= a /\ hi <= hi
        /\ hi = a + Len(Words(e)) /\ Room(index, a, hi) /\ Blank(index, a, hi)
    <3>1. Good(index) /\ Here \in Nat
      BY <1>4, InvVisiting
    <3>2. /\ a \in Nat /\ hi \in Nat /\ Here <= a /\ hi <= hi
          /\ hi = a + Len(Words(e))
      BY <1>3, <3>1
    <3> HIDE DEF a, hi
    <3>3. Room(index, a, hi) /\ Blank(index, a, hi)
      BY <1>4, <3>2, InvVisiting
    <3> QED BY <3>1, <3>2, <3>3
  <2> HIDE DEF a, hi
  <2> DEFINE kx == VisitExpr(index, e, a)
  <2>2. Visits(index, kx, a, hi)
    BY <1>2, <2>1, FreeHere, ExprVisited
  <2> HIDE DEF kx
  <2>3. Visits(index, kx, Here, hi)
    BY <2>1, <2>2, VisitsWider
  <2> QED BY <2>3 DEF a, hi, kx
<1>5. "branch" \in BlockKinds \ {"def", "class"} /\ Len(words) > 0
  BY <1>3 DEF BlockKinds
<1> HIDE DEF jx
<1> QED BY <1>1, <1>3, <1>4, <1>5, PlainVisited DEF jx, words

LEMMA ForInv == ScopeIndexAssumption /\ IInv /\ VisitFor => IInv'
<1> SUFFICES ASSUME ScopeIndexAssumption, IInv, VisitFor PROVE IInv'
  OBVIOUS
<1>1. PICK t \in Targets, e \in Exprs :
        Plain("for", <<"for">> \o Words(t) \o Words(e),
              VisitTarget(VisitExpr(index, e, Here + 1 + Len(Words(t))), t, Here + 1))
  BY DEF VisitFor
<1>2. t \in Expression /\ e \in Expression
  BY DEF ScopeIndexAssumption
<1> DEFINE words == <<"for">> \o Words(t) \o Words(e)
           jx == VisitTarget(VisitExpr(index, e, Here + 1 + Len(Words(t))), t, Here + 1)
<1>3. /\ words \in Seq(Word) /\ Len(words) = (1 + Len(Words(t))) + Len(Words(e))
      /\ Len(Words(t)) \in Nat /\ Len(Words(e)) \in Nat
  <2>1. /\ <<"for">> \in Seq(Word) /\ Len(<<"for">>) = 1
        /\ Words(t) \in Seq(Word) /\ Words(e) \in Seq(Word)
        /\ Len(Words(t)) \in Nat /\ Len(Words(e)) \in Nat
    BY <1>2, WordsTyped DEF Reserved
  <2>2. /\ <<"for">> \o Words(t) \in Seq(Word)
        /\ Len(<<"for">> \o Words(t)) = 1 + Len(Words(t))
    BY <2>1, ConcatProperties
  <2>3. words \in Seq(Word) /\ Len(words) = Len(<<"for">> \o Words(t)) + Len(Words(e))
    BY <2>1, <2>2, ConcatProperties
  <2> QED BY <2>1, <2>2, <2>3
<1> HIDE DEF words
<1>4. ASSUME query = "visiting" PROVE Visits(index, jx, Here, Here + Len(words))
  <2> DEFINE a  == Here + 1
             b  == Here + 1 + Len(Words(t))
             hi == Here + Len(words)
  <2>1. /\ Good(index) /\ Here \in Nat /\ a \in Nat /\ b \in Nat /\ hi \in Nat
        /\ Here <= a /\ Here <= b
        /\ a + Len(Words(t)) <= hi /\ b + Len(Words(e)) <= hi
        /\ a + Len(Words(t)) <= b \/ b + Len(Words(e)) <= a
    BY <1>3, <1>4, InvVisiting
  <2>2. /\ Room(index, a, a + Len(Words(t))) /\ Blank(index, a, a + Len(Words(t)))
        /\ Room(index, b, b + Len(Words(e))) /\ Blank(index, b, b + Len(Words(e)))
    BY <1>3, <1>4, <2>1, InvVisiting
  <2> HIDE DEF a, b, hi
  <2>3. Visits(index, VisitTarget(VisitExpr(index, e, b), t, a), Here, hi)
    BY <1>2, <2>1, <2>2, PartsVisited
  <2> QED BY <2>3 DEF a, b, hi
<1>5. "for" \in BlockKinds \ {"def", "class"} /\ Len(words) > 0
  BY <1>3 DEF BlockKinds
<1> HIDE DEF jx
<1> QED BY <1>1, <1>3, <1>4, <1>5, PlainVisited DEF jx, words

LEMMA WithInv == ScopeIndexAssumption /\ IInv /\ VisitWith => IInv'
<1> SUFFICES ASSUME ScopeIndexAssumption, IInv, VisitWith PROVE IInv'
  OBVIOUS
<1>1. PICK t \in Targets, e \in Exprs :
        Plain("with", <<"with">> \o Words(e) \o Words(t),
              VisitTarget(VisitExpr(index, e, Here + 1), t, Here + 1 + Len(Words(e))))
  BY DEF VisitWith
<1>2. t \in Expression /\ e \in Expression
  BY DEF ScopeIndexAssumption
<1> DEFINE words == <<"with">> \o Words(e) \o Words(t)
           jx == VisitTarget(VisitExpr(index, e, Here + 1), t, Here + 1 + Len(Words(e)))
<1>3. /\ words \in Seq(Word) /\ Len(words) = (1 + Len(Words(t))) + Len(Words(e))
      /\ Len(Words(t)) \in Nat /\ Len(Words(e)) \in Nat
  <2>1. /\ <<"with">> \in Seq(Word) /\ Len(<<"with">>) = 1
        /\ Words(t) \in Seq(Word) /\ Words(e) \in Seq(Word)
        /\ Len(Words(t)) \in Nat /\ Len(Words(e)) \in Nat
    BY <1>2, WordsTyped DEF Reserved
  <2>2. /\ <<"with">> \o Words(e) \in Seq(Word)
        /\ Len(<<"with">> \o Words(e)) = 1 + Len(Words(e))
    BY <2>1, ConcatProperties
  <2>3. words \in Seq(Word) /\ Len(words) = Len(<<"with">> \o Words(e)) + Len(Words(t))
    BY <2>1, <2>2, ConcatProperties
  <2> QED BY <2>1, <2>2, <2>3
<1> HIDE DEF words
<1>4. ASSUME query = "visiting" PROVE Visits(index, jx, Here, Here + Len(words))
  <2> DEFINE a  == Here + 1 + Len(Words(e))
             b  == Here + 1
             hi == Here + Len(words)
  <2>1. /\ Good(index) /\ Here \in Nat /\ a \in Nat /\ b \in Nat /\ hi \in Nat
        /\ Here <= a /\ Here <= b
        /\ a + Len(Words(t)) <= hi /\ b + Len(Words(e)) <= hi
        /\ a + Len(Words(t)) <= b \/ b + Len(Words(e)) <= a
    BY <1>3, <1>4, InvVisiting
  <2>2. /\ Room(index, a, a + Len(Words(t))) /\ Blank(index, a, a + Len(Words(t)))
        /\ Room(index, b, b + Len(Words(e))) /\ Blank(index, b, b + Len(Words(e)))
    BY <1>3, <1>4, <2>1, InvVisiting
  <2> HIDE DEF a, b, hi
  <2>3. Visits(index, VisitTarget(VisitExpr(index, e, b), t, a), Here, hi)
    BY <1>2, <2>1, <2>2, PartsVisited
  <2> QED BY <2>3 DEF a, b, hi
<1>5. "with" \in BlockKinds \ {"def", "class"} /\ Len(words) > 0
  BY <1>3 DEF BlockKinds
<1> HIDE DEF jx
<1> QED BY <1>1, <1>3, <1>4, <1>5, PlainVisited DEF jx, words

LEMMA EndBodyInv == IInv /\ EndBody => IInv'
<1> SUFFICES ASSUME IInv, EndBody PROVE IInv'
  OBVIOUS
<1> DEFINE b == Last(blocks)
           kx == IF b.scope = 0 THEN Ended(index, b) ELSE Leave(Ended(index, b))
<1>1. /\ query = "visiting" /\ blocks # <<>> /\ index' = kx /\ blocks' = Front(blocks)
      /\ text' = text /\ UNCHANGED <<query, searchVars>>
  BY DEF EndBody, InBody
<1>2. Good(index) /\ Visiting(index, blocks, Here) /\ Here \in Nat /\ text \in Seq(Word)
  BY <1>1, InvVisiting
<1> HIDE DEF b
<1>3. Good(kx) /\ Visiting(kx, Front(blocks), Here)
  BY <1>1, <1>2, BodyEnded DEF b
<1> HIDE DEF kx
<1>4. Here' = Here
  BY <1>1 DEF Here
<1>5. Good(index') /\ Visiting(index', blocks', Here') /\ text' \in Seq(Word)
  BY <1>1, <1>2, <1>3, <1>4
<1> QED BY <1>1, <1>5, InvAgain

LEMMA FinishModuleInv == IInv /\ FinishModule => IInv'
<1> SUFFICES ASSUME IInv, FinishModule PROVE IInv'
  OBVIOUS
<1> DEFINE jx == Ended(index, Block("module", 0, ROOT))
<1>1. /\ query = "visiting" /\ blocks = <<>> /\ text # <<>> /\ index' = jx
      /\ query' = "none" /\ text' = text /\ UNCHANGED searchVars
  BY DEF FinishModule
<1>2. Good(index) /\ Visiting(index, <<>>, Here) /\ Here \in Nat /\ text \in Seq(Word)
  BY <1>1, InvVisiting
<1>3. Here \in Nat \ {0}
  BY <1>1, <1>2, EmptySeq DEF Here
<1>4. Good(jx) /\ AllClosed(jx) /\ EndsBy(jx, Here)
  BY <1>2, <1>3, ModuleEnded
<1> HIDE DEF jx
<1>5. Here' = Here
  BY <1>1 DEF Here
<1>6. /\ Good(index)' /\ (text \in Seq(Word))'
      /\ AllClosed(index)' /\ EndsBy(index, Here)' /\ query' # "visiting"
  BY <1>1, <1>2, <1>4, <1>5
<1>7. entries' = entries /\ cursor' = cursor /\ search' = search
  BY <1>1 DEF searchVars
<1> QED BY <1>6, <1>7 DEF IInv

LEMMA HandlerInv == ScopeIndexAssumption /\ IInv /\ VisitHandler => IInv'
<1> SUFFICES ASSUME ScopeIndexAssumption, IInv, VisitHandler PROVE IInv'
  OBVIOUS
<1> DEFINE b  == Last(blocks)
           rest == Front(blocks)
           ex == Ended(index, b)
<1>1. blocks # <<>> /\ b.kind \in {"try", "except"}
  BY DEF VisitHandler, InBody
<1>2. PICK type \in Names, name \in Names \cup {Missing} :
        LET before == AddReference(ex, type, Here + 1)
            named == AddSymbol(before, name, "Variable", Span(Here, Open), Whole(Here, Open))
        IN  /\ Statement(<<"except", type>> \o IF name = Missing THEN <<>> ELSE <<name>>)
            /\ index' = IF name = Missing THEN before ELSE named
            /\ blocks' = Append(rest, Block("except", IF name = Missing THEN 0
                                                       ELSE Len(named.symbols), 0))
  BY DEF VisitHandler
<1> DEFINE given == IF name = Missing THEN <<>> ELSE <<name>>
           words == <<"except", type>> \o given
           before == AddReference(ex, type, Here + 1)
           named == AddSymbol(before, name, "Variable", Span(Here, Open), Whole(Here, Open))
           hi == Here + Len(words)
<1>3. words \in Seq(Word) /\ Len(words) \in Nat /\ Len(words) >= 2
  <2>1. <<"except", type>> \in Seq(Word) /\ Len(<<"except", type>>) = 2
    <3>1. "except" \in Word /\ type \in Word
      BY DEF Word, Reserved
    <3> HIDE DEF Word
    <3> QED BY <3>1
  <2>2. given \in Seq(Word) /\ Len(given) \in Nat
    <3>1. name \in Word
      BY DEF Word
    <3> HIDE DEF Word
    <3>2. <<>> \in Seq(Word) /\ Len(<<>>) = 0 /\ <<name>> \in Seq(Word) /\ Len(<<name>>) = 1
      BY <3>1
    <3> QED BY <3>2
  <2> HIDE DEF given
  <2>3. words \in Seq(Word) /\ Len(words) = 2 + Len(given)
    BY <2>1, <2>2, ConcatProperties
  <2> QED BY <2>2, <2>3
<1>4. /\ Statement(words)
      /\ name = Missing => index' = before /\ blocks' = Append(rest, Block("except", 0, 0))
      /\ name # Missing => /\ index' = named
                           /\ blocks' = Append(rest, Block("except", Len(named.symbols), 0))
  BY <1>2
<1> HIDE DEF words, given
<1>5. /\ query = "visiting" /\ UNCHANGED <<query, searchVars>> /\ text' \in Seq(Word)
      /\ Here \in Nat /\ Here' = hi /\ hi \in Nat /\ hi # 0 /\ Here + 1 < hi /\ Here <= hi
  <2>1. /\ query = "visiting" /\ UNCHANGED <<query, searchVars>> /\ text' \in Seq(Word)
        /\ Here \in Nat /\ Here' = hi
    BY <1>3, <1>4, StatementTaken DEF IInv
  <2> QED BY <1>3, <2>1
<1>6. Good(index) /\ Visiting(index, blocks, Here)
  BY <1>5, InvVisiting
<1>7. b.scope = 0
  <2>1. blocks \in Seq(Blocks) /\ BlocksOK(blocks)
    BY <1>6 DEF Visiting, BlocksOK
  <2>2. b = blocks[Len(blocks)] /\ Len(blocks) \in DOMAIN blocks
    <3>1. /\ Last(blocks) = blocks[Len(blocks)] /\ Len(blocks) \in Nat \ {0}
          /\ DOMAIN blocks = 1 .. Len(blocks)
      BY <1>1, <2>1, LastAndFront
    <3> QED BY <3>1
  <2> QED BY <1>1, <2>1, <2>2 DEF BlocksOK
<1>8. Good(ex) /\ Visiting(ex, rest, Here)
  <2> HIDE DEF b
  <2> QED BY <1>1, <1>5, <1>6, <1>7, BodyEnded DEF b
<1> HIDE DEF ex, rest, hi, b
<1>9. /\ Room(ex, Here, hi) /\ ~ Closed(Extent(ex, ex.current))
      /\ ex.current \in DOMAIN ex.scopes /\ Extent(ex, ex.current).start <= Here
  <2>1. Room(ex, Here, hi) /\ ~ Closed(Extent(ex, ex.current))
    BY <1>5, <1>8, RoomHere
  <2> QED BY <1>8, <2>1, GoodParts DEF Visiting, EndsBy
<1>10. Visits(ex, before, Here, hi) /\ before.scopes = ex.scopes
  <2> DEFINE at == Here + 1
  <2>1. at \in Nat /\ Here <= at /\ at < hi /\ type \in Names \cup {Missing}
    BY <1>5
  <2> HIDE DEF at
  <2>2. Visits(ex, AddReference(ex, type, at), Here, hi) /\ AddReference(ex, type, at).scopes = ex.scopes
    BY <1>5, <1>8, <1>9, <2>1, ReferenceVisited
  <2> QED BY <2>2 DEF at
<1> HIDE DEF before
<1>11. /\ Good(before) /\ Visiting(before, rest, hi)
       /\ Extent(before, before.current) = Extent(ex, ex.current)
  BY <1>5, <1>8, <1>10, VisitingOn DEF Visits, Extends, Extent
<1>12. CASE name = Missing
  <2>1. "except" \in BlockKinds \ {"def", "class"}
    BY DEF BlockKinds
  <2>2. Visiting(before, Append(rest, Block("except", 0, 0)), hi)
    BY <1>5, <1>11, <2>1, BlockPushed
  <2>3. Good(index') /\ Visiting(index', blocks', Here')
    BY <1>4, <1>5, <1>11, <1>12, <2>2
  <2> QED BY <1>5, <2>3, InvAgain
<1>13. CASE name # Missing
  <2> DEFINE m == Len(before.symbols) + 1
             new == Block("except", m, 0)
             more == Append(rest, new)
  <2>1. "except" \in BlockKinds \ {"def", "class"} /\ m \in Nat /\ name \in Names
    BY <1>11, <1>13, GoodParts, IndexParts DEF BlockKinds
  <2>2. Visiting(before, more, hi)
    <3> HIDE DEF m
    <3> QED BY <1>5, <1>11, <2>1, BlockPushed
  <2>3. more # <<>> /\ more[Len(more)] = new /\ new.scope = 0 /\ new.symbol = m
    <3>1. new.scope = 0 /\ new.symbol = m
      BY DEF Block
    <3>2. rest \in Seq(Blocks) /\ new \in Blocks
      BY <1>11, <2>1 DEF Visiting, BlocksOK, Block, Blocks
    <3> HIDE DEF new
    <3>3. Len(more) = Len(rest) + 1 /\ more[Len(rest) + 1] = new /\ more # <<>>
      BY <3>2, AppendProperties
    <3> QED BY <3>1, <3>3
  <2>4. LiesIn(Span(Here, Open), Extent(before, before.current))
    <3>1. Span(Here, Open).start = Here
      BY DEF Span
    <3> QED BY <1>9, <1>11, <3>1 DEF LiesIn
  <2> HIDE DEF more, new
  <2>5. Good(named) /\ Visiting(named, more, hi)
    BY <1>5, <1>11, <2>1, <2>2, <2>3, <2>4, HandlerNamed DEF m
  <2>6. Len(named.symbols) = m
    <3>1. /\ Span(Here, Open) \in Ends /\ "Variable" \in SymbolKinds
          /\ Whole(Here, Open) \in Selected
      BY <1>5 DEF Span, Whole, Selected, Ends, Open, SymbolKinds
    <3>2. LiesIn(Whole(Here, Open), Extent(before, before.current))
      BY <2>4 DEF LiesIn, Span, Whole, Closed
    <3> QED BY <3>2, <1>11, <2>1, <2>4, <3>1, SymbolVisited
  <2> HIDE DEF named, m
  <2>7. Good(index') /\ Visiting(index', blocks', Here')
    BY <1>4, <1>5, <1>13, <2>5, <2>6 DEF more, new
  <2> QED BY <1>5, <2>7, InvAgain
<1> QED BY <1>12, <1>13
-------------------------------------------------------------------------------
(***************************************************************************)
(* Expressions one behind the other, and parameters.                       *)
(***************************************************************************)
LEMMA GatheredLen ==
  ASSUME NEW n \in Nat, NEW words, NEW p, words[0] = <<>>,
         \A k \in 1 .. n : p[k] \in Seq(Word) /\ words[k] = words[k - 1] \o p[k]
  PROVE  /\ \A k \in 0 .. n : words[k] \in Seq(Word) /\ Len(words[k]) \in Nat
         /\ \A k \in 1 .. n : Len(words[k - 1]) + Len(p[k]) = Len(words[k])
         /\ \A j, k \in 0 .. n : j <= k => Len(words[j]) <= Len(words[k])
<1> DEFINE S == {k \in 0 .. n : words[k] \in Seq(Word)}
<1>1. 0 \in S
  <2>1. <<>> \in Seq(Word) /\ 0 \in 0 .. n
    BY EmptySeq
  <2> QED BY <2>1
<1>2. ASSUME NEW k \in 0 .. n - 1, k \in S PROVE k + 1 \in S
  <2>1. k + 1 \in 1 .. n /\ k + 1 \in 0 .. n /\ (k + 1) - 1 = k
    OBVIOUS
  <2>2. /\ p[k + 1] \in Seq(Word) /\ words[k] \in Seq(Word)
        /\ words[k + 1] = words[k] \o p[k + 1]
    BY <1>2, <2>1
  <2>3. words[k + 1] \in Seq(Word)
    BY <2>2, ConcatProperties
  <2> QED BY <2>1, <2>3
<1>3. \A k \in 0 .. n : words[k] \in Seq(Word) /\ Len(words[k]) \in Nat
  <2>1. \A k \in 0 .. n : k \in S
    <3> HIDE DEF S
    <3> QED BY <1>1, <1>2, Upwards
  <2> QED BY <2>1, LenProperties
<1>4. ASSUME NEW k \in 1 .. n
      PROVE  /\ Len(words[k - 1]) + Len(p[k]) = Len(words[k])
             /\ Len(words[k - 1]) <= Len(words[k])
  <2>1. k - 1 \in 0 .. n
    OBVIOUS
  <2>2. /\ p[k] \in Seq(Word) /\ words[k - 1] \in Seq(Word)
        /\ words[k] = words[k - 1] \o p[k] /\ Len(words[k - 1]) \in Nat
    BY <1>3, <2>1
  <2> DEFINE a == Len(words[k - 1])
             b == Len(words[k])
             c == Len(p[k])
  <2>3. a \in Nat /\ c \in Nat /\ a + c = b
    BY <2>2, ConcatProperties, LenProperties
  <2> HIDE DEF a, b, c
  <2>4. a <= b
    BY <2>3
  <2> QED BY <2>3, <2>4 DEF a, b, c
<1> DEFINE R == {k \in 0 .. n : \A j \in 0 .. k : Len(words[j]) <= Len(words[k])}
<1>5. 0 \in R
  BY <1>3
<1>6. ASSUME NEW k \in 0 .. n - 1, k \in R PROVE k + 1 \in R
  <2> DEFINE a == Len(words[k])
             b == Len(words[k + 1])
  <2>1. k + 1 \in 1 .. n /\ k + 1 \in 0 .. n /\ (k + 1) - 1 = k /\ k \in 0 .. n
    OBVIOUS
  <2>2. a \in Nat /\ b \in Nat /\ a <= b
    BY <1>3, <1>4, <2>1
  <2>3. ASSUME NEW j \in 0 .. k + 1 PROVE Len(words[j]) <= b
    <3>1. CASE j = k + 1
      BY <2>2, <3>1
    <3>2. CASE j \in 0 .. k
      <4>1. Len(words[j]) <= a /\ Len(words[j]) \in Nat
        <5>1. j \in 0 .. n
          BY <3>2
        <5> QED BY <1>3, <1>6, <3>2, <5>1
      <4> HIDE DEF a, b
      <4> QED BY <2>2, <4>1
    <3> QED BY <3>1, <3>2
  <2> QED BY <2>1, <2>3
<1>7. \A k \in 0 .. n : k \in R
  <2> HIDE DEF R
  <2> QED BY <1>5, <1>6, Upwards
<1>8. ASSUME NEW j \in 0 .. n, NEW k \in 0 .. n, j <= k
      PROVE  Len(words[j]) <= Len(words[k])
  <2>1. j \in 0 .. k /\ k \in R
    BY <1>7, <1>8
  <2> QED BY <2>1
<1> HIDE DEF R
<1> QED BY <1>3, <1>4, <1>8

LEMMA ExprsWordsDef ==
  ASSUME NEW es, Len(es) \in Nat
  PROVE  LET words == ExprsWords(es)
         IN  /\ words[0] = <<>>
             /\ \A k \in 1 .. Len(es) : words[k] = words[k - 1] \o Words(es[k])
<1> DEFINE n == Len(es)
           zero == <<>>
           More(v, k) == v \o Words(es[k])
           Value(g, k) == IF k = 0 THEN zero ELSE More(g[k - 1], k)
           Solves(g, k) == \A j \in 0 .. k : g[j] = Value(g, j)
           S == {k \in 0 .. n : \E g : Solves(g, k)}
<1>0. n \in Nat
  OBVIOUS
<1>1. ExprsWords(es) = CHOOSE f : f = [j \in 0 .. n |-> Value(f, j)]
  BY DEF ExprsWords
<1> HIDE DEF n, zero, More
<1>2. 0 \in S
  <2>1. Solves([j \in 0 .. n |-> zero], 0)
    BY <1>0
  <2> HIDE DEF Solves
  <2> QED BY <1>0, <2>1
<1>3. ASSUME NEW k \in 0 .. n - 1, k \in S PROVE k + 1 \in S
  <2>1. PICK g : Solves(g, k)
    BY <1>3
  <2> DEFINE h == [j \in 0 .. n |-> IF j = k + 1 THEN Value(g, j) ELSE g[j]]
  <2>2. /\ h[k + 1] = Value(g, k + 1)
        /\ \A j \in 0 .. k : h[j] = g[j]
    BY <1>0
  <2> HIDE DEF h
  <2>3. ASSUME NEW j \in 0 .. k + 1 PROVE h[j] = Value(h, j)
    <3>1. j # 0 => h[j - 1] = g[j - 1]
      BY <1>0, <2>2
    <3>2. h[j] = Value(g, j)
      BY <2>1, <2>2
    <3> QED BY <3>1, <3>2
  <2>4. Solves(h, k + 1)
    BY <2>3
  <2> HIDE DEF Solves
  <2> QED BY <1>0, <2>4
<1>4. PICK g : Solves(g, n)
  <2>1. n \in S
    <3> HIDE DEF S
    <3>1. \A k \in 0 .. n : k \in S
      BY <1>0, <1>2, <1>3, Upwards
    <3> QED BY <1>0, <3>1
  <2> QED BY <2>1
<1> DEFINE f == [j \in 0 .. n |-> g[j]]
           all == CHOOSE h : h = [j \in 0 .. n |-> Value(h, j)]
<1>5. f = [j \in 0 .. n |-> Value(f, j)]
  <2>1. ASSUME NEW j \in 0 .. n PROVE g[j] = Value(f, j)
    <3>1. j # 0 => f[j - 1] = g[j - 1]
      BY <1>0
    <3> HIDE DEF f
    <3> QED BY <1>4, <3>1
  <2> QED BY <2>1
<1>6. all = [j \in 0 .. n |-> Value(all, j)]
  <2> HIDE DEF f
  <2> QED BY <1>5
<1>7. ExprsWords(es) = all
  BY <1>1
<1> HIDE DEF all
<1>8. all[0] = zero /\ \A k \in 1 .. n : all[k] = More(all[k - 1], k)
  BY <1>0, <1>6
<1> QED BY <1>7, <1>8 DEF n, zero, More

LEMMA ExprsWordsLen ==
  ASSUME ScopeIndexAssumption, NEW es \in Seq(Expression)
  PROVE  LET words == ExprsWords(es)
             n == Len(es)
         IN  /\ n \in Nat /\ \A k \in 1 .. n : es[k] \in Expression
             /\ words[0] = <<>>
             /\ \A k \in 0 .. n : words[k] \in Seq(Word) /\ Len(words[k]) \in Nat
             /\ \A k \in 1 .. n : Len(words[k - 1]) + Len(Words(es[k])) = Len(words[k])
             /\ AllWords(es) = words[n] /\ AllWords(es) \in Seq(Word)
             /\ Len(AllWords(es)) \in Nat
<1> DEFINE n == Len(es)
           words == ExprsWords(es)
           p == [k \in 1 .. n |-> Words(es[k])]
<1>1. n \in Nat /\ \A k \in 1 .. n : es[k] \in Expression
  BY LenProperties, ElementOfSeq
<1>2. words[0] = <<>> /\ \A k \in 1 .. n : words[k] = words[k - 1] \o Words(es[k])
  BY <1>1, ExprsWordsDef
<1>3. \A k \in 1 .. n : p[k] = Words(es[k]) /\ p[k] \in Seq(Word)
  BY <1>1, WordsTyped
<1>4. AllWords(es) = words[n]
  BY DEF AllWords
<1> HIDE DEF n, words, p
<1>5. /\ \A k \in 0 .. n : words[k] \in Seq(Word) /\ Len(words[k]) \in Nat
      /\ \A k \in 1 .. n : Len(words[k - 1]) + Len(p[k]) = Len(words[k])
      /\ \A j, k \in 0 .. n : j <= k => Len(words[j]) <= Len(words[k])
  <2>1. \A k \in 1 .. n : p[k] \in Seq(Word) /\ words[k] = words[k - 1] \o p[k]
    BY <1>2, <1>3
  <2>2. n \in Nat /\ words[0] = <<>>
    BY <1>1, <1>2
  <2> QED BY <2>1, <2>2, GatheredLen
<1>6. n \in 0 .. n
  BY <1>1
<1>7. \A k \in 1 .. n : Len(words[k - 1]) + Len(Words(es[k])) = Len(words[k])
  BY <1>3, <1>5
<1> QED BY <1>1, <1>2, <1>4, <1>5, <1>6, <1>7 DEF n, words

LEMMA VisitExprsRuns ==
  ASSUME NEW ix, NEW es, NEW at, Len(es) \in Nat
  PROVE  \E g : /\ g[0] = ix /\ VisitExprs(ix, es, at) = g[Len(es)]
                /\ \A k \in 1 .. Len(es) : g[k] = VisitExpr(g[k - 1], es[k], at + Len(ExprsWords(es)[k - 1]))
<1> DEFINE n == Len(es)
           zero == ix
           More(v, k) == VisitExpr(v, es[k], at + Len(ExprsWords(es)[k - 1]))
           Value(g, k) == IF k = 0 THEN zero ELSE More(g[k - 1], k)
           Solves(g, k) == \A j \in 0 .. k : g[j] = Value(g, j)
           S == {k \in 0 .. n : \E g : Solves(g, k)}
<1>0. n \in Nat
  OBVIOUS
<1>1. VisitExprs(ix, es, at) = (CHOOSE f : f = [j \in 0 .. n |-> Value(f, j)])[n]
  BY DEF VisitExprs
<1> HIDE DEF n, zero, More
<1>2. 0 \in S
  <2>1. Solves([j \in 0 .. n |-> zero], 0)
    BY <1>0
  <2> HIDE DEF Solves
  <2> QED BY <1>0, <2>1
<1>3. ASSUME NEW k \in 0 .. n - 1, k \in S PROVE k + 1 \in S
  <2>1. PICK g : Solves(g, k)
    BY <1>3
  <2> DEFINE h == [j \in 0 .. n |-> IF j = k + 1 THEN Value(g, j) ELSE g[j]]
  <2>2. /\ h[k + 1] = Value(g, k + 1)
        /\ \A j \in 0 .. k : h[j] = g[j]
    BY <1>0
  <2> HIDE DEF h
  <2>3. ASSUME NEW j \in 0 .. k + 1 PROVE h[j] = Value(h, j)
    <3>1. j # 0 => h[j - 1] = g[j - 1]
      BY <1>0, <2>2
    <3>2. h[j] = Value(g, j)
      BY <2>1, <2>2
    <3> QED BY <3>1, <3>2
  <2>4. Solves(h, k + 1)
    BY <2>3
  <2> HIDE DEF Solves
  <2> QED BY <1>0, <2>4
<1>4. PICK g : Solves(g, n)
  <2>1. n \in S
    <3> HIDE DEF S
    <3>1. \A k \in 0 .. n : k \in S
      BY <1>0, <1>2, <1>3, Upwards
    <3> QED BY <1>0, <3>1
  <2> QED BY <2>1
<1> DEFINE f == [j \in 0 .. n |-> g[j]]
           all == CHOOSE h : h = [j \in 0 .. n |-> Value(h, j)]
<1>5. f = [j \in 0 .. n |-> Value(f, j)]
  <2>1. ASSUME NEW j \in 0 .. n PROVE g[j] = Value(f, j)
    <3>1. j # 0 => f[j - 1] = g[j - 1]
      BY <1>0
    <3> HIDE DEF f
    <3> QED BY <1>4, <3>1
  <2> QED BY <2>1
<1>6. all = [j \in 0 .. n |-> Value(all, j)]
  <2> HIDE DEF f
  <2> QED BY <1>5
<1>7. VisitExprs(ix, es, at) = all[n]
  BY <1>1
<1> HIDE DEF all
<1>8. all[0] = ix /\ \A k \in 1 .. n : all[k] = More(all[k - 1], k)
  BY <1>0, <1>6 DEF zero
<1> QED BY <1>7, <1>8 DEF n, More

\* The visits of expressions in turn.
ExprsRun(g, ix, es, at) ==
  /\ g[0] = ix /\ VisitExprs(ix, es, at) = g[Len(es)]
  /\ \A k \in 1 .. Len(es) :
       g[k] = VisitExpr(g[k - 1], es[k], at + Len(ExprsWords(es)[k - 1]))

LEMMA VisitExprsRun ==
  ASSUME NEW ix, NEW es, NEW at, Len(es) \in Nat
  PROVE  \E g : ExprsRun(g, ix, es, at)
<1>1. PICK g : /\ g[0] = ix /\ VisitExprs(ix, es, at) = g[Len(es)]
               /\ \A k \in 1 .. Len(es) :
                    g[k] = VisitExpr(g[k - 1], es[k], at + Len(ExprsWords(es)[k - 1]))
  BY VisitExprsRuns
<1>2. ExprsRun(g, ix, es, at)
  BY <1>1 DEF ExprsRun
<1> QED BY <1>2

\* The scopes that are added are those of expressions.
Locals(ix, jx) ==
  \A s \in DOMAIN jx.scopes \ DOMAIN ix.scopes : jx.scopes[s].kind \in LocalKinds

LEMMA LocalsOn ==
  ASSUME NEW ix, NEW jx, NEW kx, Extends(jx, kx), Locals(ix, jx), Locals(jx, kx)
  PROVE  Locals(ix, kx)
<1> SUFFICES ASSUME NEW s \in DOMAIN kx.scopes \ DOMAIN ix.scopes
             PROVE  kx.scopes[s].kind \in LocalKinds
  BY DEF Locals
<1>1. CASE s \in DOMAIN jx.scopes
  BY <1>1 DEF Locals, Extends
<1>2. CASE s \notin DOMAIN jx.scopes
  BY <1>2 DEF Locals
<1> QED BY <1>1, <1>2

LEMMA ExprsVisited ==
  ASSUME ScopeIndexAssumption, NEW ix, Good(ix), NEW es \in Seq(Expression),
         NEW lo \in Nat, NEW hi \in Nat, hi = lo + Len(AllWords(es)),
         \A c, d \in Nat : lo <= c => Room(ix, c, d) /\ Blank(ix, c, d)
  PROVE  LET jx == VisitExprs(ix, es, lo)
         IN  /\ Visits(ix, jx, lo, hi) /\ Locals(ix, jx)
             /\ \A c, d \in Nat : hi <= c => Room(jx, c, d) /\ Blank(jx, c, d)
<1> DEFINE n == Len(es)
           words == ExprsWords(es)
           At(k) == lo + Len(words[k])
<1>1. /\ n \in Nat /\ \A k \in 1 .. n : es[k] \in Expression
      /\ words[0] = <<>> /\ AllWords(es) = words[n]
      /\ \A k \in 0 .. n : Len(words[k]) \in Nat
      /\ \A k \in 1 .. n : Len(words[k - 1]) + Len(Words(es[k])) = Len(words[k])
  BY ExprsWordsLen
<1>2. PICK g : /\ g[0] = ix /\ VisitExprs(ix, es, lo) = g[n]
               /\ \A k \in 1 .. n : g[k] = VisitExpr(g[k - 1], es[k], At(k - 1))
  <2>1. Len(es) \in Nat
    BY <1>1
  <2>2. PICK g : ExprsRun(g, ix, es, lo)
    BY <2>1, VisitExprsRun
  <2> WITNESS g
  <2> QED BY <2>2 DEF ExprsRun
<1>3. Len(<<>>) = 0
  OBVIOUS
<1>4. /\ At(0) = lo /\ At(n) = hi
      /\ \A k \in 0 .. n : At(k) \in Nat
      /\ \A k \in 1 .. n : /\ Len(Words(es[k])) \in Nat /\ lo <= At(k - 1)
                           /\ At(k - 1) + Len(Words(es[k])) = At(k) /\ At(k - 1) <= At(k)
  <2> HIDE DEF n, words
  <2>1. At(0) = lo
    BY <1>1, <1>3
  <2>2. \A k \in 1 .. n : Len(Words(es[k])) \in Nat
    BY <1>1, WordsTyped
  <2>3. ASSUME NEW k \in 0 .. n PROVE At(k) \in Nat /\ lo <= At(k)
    <3> DEFINE a == Len(words[k])
    <3>1. a \in Nat
      <4>1. \A j \in 0 .. n : Len(words[j]) \in Nat
        BY <1>1
      <4> QED BY <4>1
    <3> HIDE DEF a
    <3>2. lo + a \in Nat /\ lo <= lo + a
      BY <3>1
    <3> QED BY <3>2 DEF a
  <2>4. ASSUME NEW k \in 1 .. n
        PROVE  At(k - 1) + Len(Words(es[k])) = At(k) /\ At(k - 1) <= At(k) /\ lo <= At(k - 1)
    <3>1. k - 1 \in 0 .. n /\ k \in 0 .. n
      BY <1>1
    <3> DEFINE a == Len(words[k - 1])
               b == Len(words[k])
               c == Len(Words(es[k]))
    <3>2. a \in Nat /\ b \in Nat /\ c \in Nat /\ a + c = b
      BY <1>1, <2>2, <3>1
    <3> HIDE DEF a, b, c
    <3>3. (lo + a) + c = lo + b /\ lo + a <= lo + b /\ lo <= lo + a
      BY <3>2
    <3> QED BY <3>3 DEF a, b, c
  <2> QED BY <1>1, <2>1, <2>2, <2>3, <2>4
<1> HIDE DEF n, At, words
<1>0. n \in Nat
  BY <1>1
<1> DEFINE S == {k \in 0 .. n : Visits(ix, g[k], lo, At(k)) /\ Locals(ix, g[k])}
<1>5. 0 \in S
  BY <1>1, <1>2, VisitsNothing DEF Locals
<1>6. ASSUME NEW k \in 0 .. n - 1, k \in S PROVE k + 1 \in S
  <2> DEFINE e == es[k + 1]
             a == At(k)
             b == At(k + 1)
             jx == g[k]
             kx == g[k + 1]
  <2>1. k + 1 \in 1 .. n /\ k + 1 \in 0 .. n /\ (k + 1) - 1 = k /\ k \in 0 .. n
    BY <1>0
  <2>2. /\ kx = VisitExpr(jx, e, a) /\ e \in Expression /\ a \in Nat /\ b \in Nat
        /\ b = a + Len(Words(e)) /\ lo <= a /\ a <= b
    BY <1>1, <1>2, <1>4, <2>1
  <2>3. Visits(ix, jx, lo, a) /\ Locals(ix, jx)
    BY <1>6
  <2> HIDE DEF e, a, b, jx, kx
  <2>4. Good(jx) /\ Free(jx, e, a, b)
    <3>1. Room(ix, a, b) /\ Blank(ix, a, b)
      BY <2>2
    <3>2. Room(jx, a, b) /\ Blank(jx, a, b)
      BY <2>2, <2>3, <3>1, RoomBeside
    <3> QED BY <2>3, <3>2, FreeHere DEF Visits
  <2>5. Visits(jx, kx, a, b) /\ Own(jx, kx, e, a, b)
    BY <2>2, <2>4, ExprVisited
  <2>6. Visits(ix, jx, lo, b) /\ Visits(jx, kx, lo, b)
    BY <2>2, <2>3, <2>5, VisitsWider
  <2>7. Visits(ix, kx, lo, b)
    BY <2>6, VisitsOn
  <2>8. Locals(ix, kx)
    <3>1. Locals(jx, kx) /\ Extends(jx, kx)
      BY <2>5 DEF Own, Locals, Visits
    <3> QED BY <2>3, <3>1, LocalsOn
  <2> QED BY <2>1, <2>7, <2>8 DEF b, kx
<1>7. n \in S
  <2> HIDE DEF S
  <2>1. \A k \in 0 .. n : k \in S
    BY <1>1, <1>5, <1>6, Upwards
  <2> QED BY <1>1, <2>1
<1> DEFINE jx == VisitExprs(ix, es, lo)
<1>8. Visits(ix, jx, lo, hi) /\ Locals(ix, jx)
  BY <1>2, <1>4, <1>7
<1> HIDE DEF jx
<1>9. ASSUME NEW c \in Nat, NEW d \in Nat, hi <= c PROVE Room(jx, c, d) /\ Blank(jx, c, d)
  <2>1. lo <= hi
    <3>1. Len(AllWords(es)) \in Nat
      BY ExprsWordsLen
    <3> QED BY <3>1
  <2>2. Room(ix, c, d) /\ Blank(ix, c, d)
    BY <1>9, <2>1
  <2> QED BY <1>8, <1>9, <2>2, RoomBeside
<1> QED BY <1>8, <1>9 DEF jx

LEMMA ParamsWordsDef ==
  ASSUME NEW params, Len(params) \in Nat
  PROVE  LET words == ParamsWords(params)
         IN  /\ words[0] = <<>>
             /\ \A k \in 1 .. Len(params) : words[k] = words[k - 1] \o ParamWords(params[k])
<1> DEFINE n == Len(params)
           zero == <<>>
           More(v, k) == v \o ParamWords(params[k])
           Value(g, k) == IF k = 0 THEN zero ELSE More(g[k - 1], k)
           Solves(g, k) == \A j \in 0 .. k : g[j] = Value(g, j)
           S == {k \in 0 .. n : \E g : Solves(g, k)}
<1>0. n \in Nat
  OBVIOUS
<1>1. ParamsWords(params) = CHOOSE f : f = [j \in 0 .. n |-> Value(f, j)]
  BY DEF ParamsWords
<1> HIDE DEF n, zero, More
<1>2. 0 \in S
  <2>1. Solves([j \in 0 .. n |-> zero], 0)
    BY <1>0
  <2> HIDE DEF Solves
  <2> QED BY <1>0, <2>1
<1>3. ASSUME NEW k \in 0 .. n - 1, k \in S PROVE k + 1 \in S
  <2>1. PICK g : Solves(g, k)
    BY <1>3
  <2> DEFINE h == [j \in 0 .. n |-> IF j = k + 1 THEN Value(g, j) ELSE g[j]]
  <2>2. /\ h[k + 1] = Value(g, k + 1)
        /\ \A j \in 0 .. k : h[j] = g[j]
    BY <1>0
  <2> HIDE DEF h
  <2>3. ASSUME NEW j \in 0 .. k + 1 PROVE h[j] = Value(h, j)
    <3>1. j # 0 => h[j - 1] = g[j - 1]
      BY <1>0, <2>2
    <3>2. h[j] = Value(g, j)
      BY <2>1, <2>2
    <3> QED BY <3>1, <3>2
  <2>4. Solves(h, k + 1)
    BY <2>3
  <2> HIDE DEF Solves
  <2> QED BY <1>0, <2>4
<1>4. PICK g : Solves(g, n)
  <2>1. n \in S
    <3> HIDE DEF S
    <3>1. \A k \in 0 .. n : k \in S
      BY <1>0, <1>2, <1>3, Upwards
    <3> QED BY <1>0, <3>1
  <2> QED BY <2>1
<1> DEFINE f == [j \in 0 .. n |-> g[j]]
           all == CHOOSE h : h = [j \in 0 .. n |-> Value(h, j)]
<1>5. f = [j \in 0 .. n |-> Value(f, j)]
  <2>1. ASSUME NEW j \in 0 .. n PROVE g[j] = Value(f, j)
    <3>1. j # 0 => f[j - 1] = g[j - 1]
      BY <1>0
    <3> HIDE DEF f
    <3> QED BY <1>4, <3>1
  <2> QED BY <2>1
<1>6. all = [j \in 0 .. n |-> Value(all, j)]
  <2> HIDE DEF f
  <2> QED BY <1>5
<1>7. ParamsWords(params) = all
  BY <1>1
<1> HIDE DEF all
<1>8. all[0] = zero /\ \A k \in 1 .. n : all[k] = More(all[k - 1], k)
  BY <1>0, <1>6
<1> QED BY <1>7, <1>8 DEF n, zero, More

\* Where the default of a parameter starts.
DefaultAt(params, at, k) ==
  (at + Len(ParamsWords(params)[k])) - Len(Words(params[k].default))

ParametersRun(g, ix, params, at) ==
  /\ g[0] = ix /\ VisitParameters(ix, params, at) = g[2 * Len(params)]
  /\ \A k \in 1 .. 2 * Len(params) :
       g[k] = IF k <= Len(params)
              THEN VisitParameter(g[k - 1], params[k], at + Len(ParamsWords(params)[k - 1]))
              ELSE VisitExpr(g[k - 1], params[k - Len(params)].default,
                             DefaultAt(params, at, k - Len(params)))

LEMMA VisitParametersRun ==
  ASSUME NEW ix, NEW params, NEW at, Len(params) \in Nat
  PROVE  \E g : ParametersRun(g, ix, params, at)
<1> DEFINE n == 2 * Len(params)
           zero == ix
           More(v, k) == 
                     IF k <= Len(params)
                     THEN VisitParameter(v, params[k], at + Len(ParamsWords(params)[k - 1]))
                     ELSE VisitExpr(v, params[k - Len(params)].default,
                                    DefaultAt(params, at, k - Len(params)))
           Value(g, k) == IF k = 0 THEN zero ELSE More(g[k - 1], k)
           Solves(g, k) == \A j \in 0 .. k : g[j] = Value(g, j)
           S == {k \in 0 .. n : \E g : Solves(g, k)}
<1>0. n \in Nat
  OBVIOUS
<1>1. VisitParameters(ix, params, at) = (CHOOSE f : f = [j \in 0 .. n |-> Value(f, j)])[n]
  BY DEF VisitParameters, DefaultAt
<1> HIDE DEF n, zero, More
<1>2. 0 \in S
  <2>1. Solves([j \in 0 .. n |-> zero], 0)
    BY <1>0
  <2> HIDE DEF Solves
  <2> QED BY <1>0, <2>1
<1>3. ASSUME NEW k \in 0 .. n - 1, k \in S PROVE k + 1 \in S
  <2>1. PICK g : Solves(g, k)
    BY <1>3
  <2> DEFINE h == [j \in 0 .. n |-> IF j = k + 1 THEN Value(g, j) ELSE g[j]]
  <2>2. /\ h[k + 1] = Value(g, k + 1)
        /\ \A j \in 0 .. k : h[j] = g[j]
    BY <1>0
  <2> HIDE DEF h
  <2>3. ASSUME NEW j \in 0 .. k + 1 PROVE h[j] = Value(h, j)
    <3>1. j # 0 => h[j - 1] = g[j - 1]
      BY <1>0, <2>2
    <3>2. h[j] = Value(g, j)
      BY <2>1, <2>2
    <3> QED BY <3>1, <3>2
  <2>4. Solves(h, k + 1)
    BY <2>3
  <2> HIDE DEF Solves
  <2> QED BY <1>0, <2>4
<1>4. PICK g : Solves(g, n)
  <2>1. n \in S
    <3> HIDE DEF S
    <3>1. \A k \in 0 .. n : k \in S
      BY <1>0, <1>2, <1>3, Upwards
    <3> QED BY <1>0, <3>1
  <2> QED BY <2>1
<1> DEFINE f == [j \in 0 .. n |-> g[j]]
           all == CHOOSE h : h = [j \in 0 .. n |-> Value(h, j)]
<1>5. f = [j \in 0 .. n |-> Value(f, j)]
  <2>1. ASSUME NEW j \in 0 .. n PROVE g[j] = Value(f, j)
    <3>1. j # 0 => f[j - 1] = g[j - 1]
      BY <1>0
    <3> HIDE DEF f
    <3> QED BY <1>4, <3>1
  <2> QED BY <2>1
<1>6. all = [j \in 0 .. n |-> Value(all, j)]
  <2> HIDE DEF f
  <2> QED BY <1>5
<1>7. VisitParameters(ix, params, at) = all[n]
  BY <1>1
<1> HIDE DEF all
<1>8. all[0] = ix /\ \A k \in 1 .. n : all[k] = More(all[k - 1], k)
  BY <1>0, <1>6 DEF zero
<1>9. ParametersRun(all, ix, params, at)
  BY <1>7, <1>8 DEF n, More, ParametersRun
<1> QED BY <1>9

LEMMA ParamParts ==
  ASSUME ScopeIndexAssumption, NEW p \in Parameters
  PROVE  /\ p.name \in Names /\ p.annotation \in Expression /\ p.default \in Expression
         /\ Len(Words(p.annotation)) \in Nat /\ Len(Words(p.default)) \in Nat
         /\ ParamWords(p) \in Seq(Word)
         /\ Len(ParamWords(p)) = (1 + Len(Words(p.annotation))) + Len(Words(p.default))
<1>1. p.name \in Names /\ p.annotation \in Expression /\ p.default \in Expression
  BY DEF Parameters
<1>2. /\ <<p.name>> \in Seq(Word) /\ Len(<<p.name>>) = 1
      /\ Words(p.annotation) \in Seq(Word) /\ Len(Words(p.annotation)) \in Nat
      /\ Words(p.default) \in Seq(Word) /\ Len(Words(p.default)) \in Nat
  BY <1>1, WordsTyped
<1>3. /\ <<p.name>> \o Words(p.annotation) \in Seq(Word)
      /\ Len(<<p.name>> \o Words(p.annotation)) = 1 + Len(Words(p.annotation))
  BY <1>2, ConcatProperties
<1>4. /\ ParamWords(p) \in Seq(Word)
      /\ Len(ParamWords(p)) = Len(<<p.name>> \o Words(p.annotation)) + Len(Words(p.default))
  BY <1>2, <1>3, ConcatProperties DEF ParamWords
<1> QED BY <1>1, <1>2, <1>3, <1>4

LEMMA ParamsWordsLen ==
  ASSUME ScopeIndexAssumption, NEW params \in Seq(Parameters)
  PROVE  LET words == ParamsWords(params)
             n == Len(params)
         IN  /\ n \in Nat /\ \A k \in 1 .. n : params[k] \in Parameters
             /\ words[0] = <<>>
             /\ \A k \in 0 .. n : words[k] \in Seq(Word) /\ Len(words[k]) \in Nat
             /\ \A k \in 1 .. n : Len(words[k - 1]) + Len(ParamWords(params[k])) = Len(words[k])
             /\ \A j, k \in 0 .. n : j <= k => Len(words[j]) <= Len(words[k])
<1> DEFINE n == Len(params)
           words == ParamsWords(params)
           p == [k \in 1 .. n |-> ParamWords(params[k])]
<1>1. n \in Nat /\ \A k \in 1 .. n : params[k] \in Parameters
  BY LenProperties, ElementOfSeq
<1>2. words[0] = <<>> /\ \A k \in 1 .. n : words[k] = words[k - 1] \o ParamWords(params[k])
  BY <1>1, ParamsWordsDef
<1>3. \A k \in 1 .. n : p[k] = ParamWords(params[k]) /\ p[k] \in Seq(Word)
  BY <1>1, ParamParts
<1> HIDE DEF n, words, p
<1>4. /\ \A k \in 0 .. n : words[k] \in Seq(Word) /\ Len(words[k]) \in Nat
      /\ \A k \in 1 .. n : Len(words[k - 1]) + Len(p[k]) = Len(words[k])
      /\ \A j, k \in 0 .. n : j <= k => Len(words[j]) <= Len(words[k])
  <2>1. \A k \in 1 .. n : p[k] \in Seq(Word) /\ words[k] = words[k - 1] \o p[k]
    BY <1>2, <1>3
  <2>2. n \in Nat /\ words[0] = <<>>
    BY <1>1, <1>2
  <2> QED BY <2>1, <2>2, GatheredLen
<1>5. \A k \in 1 .. n : Len(words[k - 1]) + Len(ParamWords(params[k])) = Len(words[k])
  BY <1>3, <1>4
<1> QED BY <1>1, <1>2, <1>4, <1>5 DEF n, words

LEMMA BlankWithin ==
  ASSUME NEW ix, Good(ix), NEW lo \in Nat, NEW hi \in Nat, NEW a \in Nat, NEW b \in Nat,
         Blank(ix, lo, hi), lo <= a, b <= hi
  PROVE  Blank(ix, a, b)
<1> SUFFICES ASSUME NEW r \in DOMAIN ix.references, ix.references[r].scope = ix.current
             PROVE  Apart(ix.references[r].range, a, b)
  BY DEF Blank
<1>1. Apart(ix.references[r].range, lo, hi)
  BY DEF Blank
<1>2. ix.references[r].range.start \in Nat /\ ix.references[r].range.end \in Nat
  BY GoodParts
<1> QED BY <1>1, <1>2 DEF Apart

\* A parameter, and the place of its default, to which the visit comes back.
LEMMA ParameterVisited ==
  ASSUME ScopeIndexAssumption, NEW ix, Good(ix), NEW p \in Parameters, NEW at \in Nat,
         NEW end \in Nat, end = at + Len(ParamWords(p)), Room(ix, at, end), Blank(ix, at, end)
  PROVE  LET jx == VisitParameter(ix, p, at)
             from == end - Len(Words(p.default))
         IN  Visits(ix, jx, at, end) /\ Free(jx, p.default, from, end)
<1> DEFINE from == end - Len(Words(p.default))
           first == at + 1
           nx == AddParameter(ix, p.name, at, end)
           tx == VisitExpr(nx, p.annotation, first)
           kx == VisitExpr(tx, p.default, from)
           jx == VisitParameter(ix, p, at)
<1>1. /\ p.name \in Names /\ p.annotation \in Expression /\ p.default \in Expression
      /\ from \in Nat /\ first \in Nat /\ at <= first /\ first <= from /\ from <= end
      /\ from = first + Len(Words(p.annotation)) /\ end = from + Len(Words(p.default))
      /\ at < end /\ at <= at /\ end <= end /\ from # 0 /\ end # 0 /\ at <= from
  <2> DEFINE a == Len(Words(p.annotation))
             d == Len(Words(p.default))
  <2>1. /\ p.name \in Names /\ p.annotation \in Expression /\ p.default \in Expression
        /\ a \in Nat /\ d \in Nat /\ end = at + ((1 + a) + d)
    BY ParamParts
  <2> HIDE DEF a, d
  <2>2. /\ end - d \in Nat /\ at + 1 \in Nat /\ at <= at + 1 /\ at + 1 <= end - d
        /\ end - d <= end /\ end - d = (at + 1) + a /\ end = (end - d) + d
        /\ at < end /\ at <= at /\ end <= end /\ end - d # 0 /\ end # 0 /\ at <= end - d
    BY <2>1
  <2> QED BY <2>1, <2>2 DEF a, d
<1>2. jx = IF p.keyword THEN tx ELSE kx
  BY DEF VisitParameter
<1> HIDE DEF first, from, jx
<1>3. /\ Visits(ix, nx, at, end) /\ nx.scopes = ix.scopes /\ nx.references = ix.references
  BY <1>1, ParameterAdded
<1> HIDE DEF nx
<1>4. Good(nx) /\ Room(nx, at, end) /\ Blank(nx, at, end)
  <2>1. nx.current = ix.current
    BY <1>3 DEF Visits, Extends
  <2> QED BY <1>3, <2>1 DEF Room, Blank, Extent, Parent, Visits
<1>5. /\ Room(nx, first, from) /\ Blank(nx, first, from)
      /\ Room(nx, from, end) /\ Blank(nx, from, end)
  BY <1>1, <1>4, RoomWithin, BlankWithin
<1>6. Visits(nx, tx, first, from)
  <2>1. Free(nx, p.annotation, first, from)
    BY <1>5, FreeHere
  <2> QED BY <1>1, <1>4, <2>1, ExprVisited
<1> HIDE DEF tx
<1>7. Good(tx) /\ Free(tx, p.default, from, end)
  <2>1. from <= from
    BY <1>1
  <2>2. Room(tx, from, end) /\ Blank(tx, from, end)
    BY <1>1, <1>4, <1>5, <1>6, <2>1, RoomBeside
  <2> QED BY <1>6, <2>2, FreeHere DEF Visits
<1>8. Visits(ix, tx, at, end)
  <2>1. Visits(nx, tx, at, end)
    BY <1>1, <1>6, VisitsWider
  <2> QED BY <1>3, <2>1, VisitsOn
<1>9. Visits(tx, kx, from, end) /\ Own(tx, kx, p.default, from, end)
  BY <1>1, <1>7, ExprVisited
<1> HIDE DEF kx
<1>10. Free(kx, p.default, from, end)
  BY <1>1, <1>7, <1>9, FreeAgain
<1>11. Visits(ix, kx, at, end)
  <2>1. Visits(tx, kx, at, end)
    BY <1>1, <1>9, VisitsWider
  <2> QED BY <1>8, <2>1, VisitsOn
<1>12. Visits(ix, jx, at, end) /\ Free(jx, p.default, from, end)
  BY <1>2, <1>7, <1>8, <1>10, <1>11
<1> QED BY <1>12 DEF from, jx

LEMMA ParametersVisited ==
  ASSUME ScopeIndexAssumption, NEW ix, Good(ix), NEW params \in Seq(Parameters),
         NEW at \in Nat, NEW hi \in Nat, hi = at + Len(ParamsWords(params)[Len(params)]),
         \A c, d \in Nat : at <= c => Room(ix, c, d) /\ Blank(ix, c, d)
  PROVE  Visits(ix, VisitParameters(ix, params, at), at, hi)
<1> DEFINE n == Len(params)
           words == ParamsWords(params)
           End(k) == at + Len(words[k])
           From(k) == DefaultAt(params, at, k)
<1>1. /\ n \in Nat /\ \A k \in 1 .. n : params[k] \in Parameters
      /\ words[0] = <<>>
      /\ \A k \in 0 .. n : Len(words[k]) \in Nat
      /\ \A k \in 1 .. n : Len(words[k - 1]) + Len(ParamWords(params[k])) = Len(words[k])
      /\ \A j, k \in 0 .. n : j <= k => Len(words[j]) <= Len(words[k])
  BY ParamsWordsLen
<1>2. PICK g : /\ g[0] = ix /\ VisitParameters(ix, params, at) = g[2 * n]
               /\ \A k \in 1 .. 2 * n :
                    g[k] = IF k <= n THEN VisitParameter(g[k - 1], params[k], End(k - 1))
                           ELSE VisitExpr(g[k - 1], params[k - n].default, From(k - n))
  <2>1. Len(params) \in Nat
    BY <1>1
  <2>2. PICK g : ParametersRun(g, ix, params, at)
    BY <2>1, VisitParametersRun
  <2> WITNESS g
  <2> QED BY <2>2 DEF ParametersRun
<1>3. Len(<<>>) = 0
  OBVIOUS
<1>4. hi = End(n)
  OBVIOUS
<1>5. /\ End(0) = at
      /\ \A k \in 0 .. n : End(k) \in Nat /\ at <= End(k) /\ End(k) <= End(n)
      /\ \A j, k \in 0 .. n : j <= k => End(j) <= End(k)
      /\ \A k \in 1 .. n : /\ params[k].default \in Expression /\ From(k) \in Nat
                           /\ End(k) = From(k) + Len(Words(params[k].default))
                           /\ End(k) = End(k - 1) + Len(ParamWords(params[k]))
                           /\ End(k - 1) <= From(k) /\ From(k) <= End(k)
  <2> HIDE DEF n, words
  <2>1. End(0) = at
    BY <1>1, <1>3
  <2>2. ASSUME NEW j \in 0 .. n, NEW k \in 0 .. n, j <= k PROVE End(j) <= End(k)
    <3> DEFINE a == Len(words[j])
               b == Len(words[k])
    <3>1. a \in Nat /\ b \in Nat /\ a <= b
      BY <1>1, <2>2
    <3> HIDE DEF a, b
    <3>2. at + a <= at + b
      BY <3>1
    <3> QED BY <3>2 DEF a, b
  <2>3. ASSUME NEW k \in 0 .. n PROVE End(k) \in Nat /\ at <= End(k)
    <3> DEFINE a == Len(words[k])
    <3>1. a \in Nat
      <4>1. \A j \in 0 .. n : Len(words[j]) \in Nat
        BY <1>1
      <4> QED BY <4>1
    <3> HIDE DEF a
    <3>2. at + a \in Nat /\ at <= at + a
      BY <3>1
    <3> QED BY <3>2 DEF a
  <2>4. ASSUME NEW k \in 1 .. n
        PROVE  /\ params[k].default \in Expression /\ From(k) \in Nat
               /\ End(k) = From(k) + Len(Words(params[k].default))
               /\ End(k) = End(k - 1) + Len(ParamWords(params[k]))
               /\ End(k - 1) <= From(k) /\ From(k) <= End(k)
    <3>1. k - 1 \in 0 .. n /\ k \in 0 .. n
      BY <1>1
    <3> DEFINE a == Len(words[k - 1])
               b == Len(words[k])
               c == Len(ParamWords(params[k]))
               d == Len(Words(params[k].default))
               e == Len(Words(params[k].annotation))
    <3>2. /\ params[k].default \in Expression /\ d \in Nat /\ e \in Nat /\ c = (1 + e) + d
      BY <1>1, ParamParts
    <3>3. a \in Nat /\ b \in Nat /\ a + c = b
      BY <1>1, <3>1
    <3> HIDE DEF a, b, c, d, e
    <3>4. /\ (at + b) - d \in Nat /\ at + b = ((at + b) - d) + d
          /\ at + b = (at + a) + c
          /\ at + a <= (at + b) - d /\ (at + b) - d <= at + b
      BY <3>2, <3>3
    <3>5. From(k) = (at + b) - d /\ End(k) = at + b /\ End(k - 1) = at + a
      BY DEF a, b, d, words, DefaultAt
    <3>6. /\ params[k].default \in Expression /\ From(k) \in Nat
          /\ End(k) = From(k) + d /\ End(k) = End(k - 1) + c
          /\ End(k - 1) <= From(k) /\ From(k) <= End(k)
      <4> HIDE DEF End, From
      <4> QED BY <3>2, <3>4, <3>5
    <3> QED BY <3>6 DEF c, d
  <2>5. n \in 0 .. n /\ \A k \in 0 .. n : k <= n
    BY <1>1
  <2> QED BY <2>1, <2>2, <2>3, <2>4, <2>5
<1> HIDE DEF n, words, End, From
<1>0. n \in Nat /\ 0 \in 0 .. n /\ n \in 0 .. n
  BY <1>1
<1> DEFINE Places(jx, k) == \A j \in 1 .. k : Free(jx, params[j].default, From(j), End(j))
           S == {k \in 0 .. n : Visits(ix, g[k], at, End(k)) /\ Places(g[k], k)}
<1>6. 0 \in S
  <2>1. Visits(ix, g[0], at, End(0))
    BY <1>2, VisitsNothing
  <2>2. Places(g[0], 0)
    OBVIOUS
  <2> QED BY <1>0, <2>1, <2>2
<1>7. ASSUME NEW k \in 0 .. n - 1, k \in S PROVE k + 1 \in S
  <2> DEFINE p == params[k + 1]
             a == End(k)
             b == End(k + 1)
             from == From(k + 1)
             jx == g[k]
             kx == g[k + 1]
  <2>1. /\ k + 1 \in 1 .. n /\ k + 1 \in 0 .. n /\ (k + 1) - 1 = k /\ k \in 0 .. n
        /\ k + 1 \in 1 .. 2 * n /\ k + 1 <= n
    BY <1>0
  <2>2. kx = VisitParameter(jx, p, a)
    BY <1>2, <2>1
  <2>3. /\ p \in Parameters /\ a \in Nat /\ b \in Nat /\ b = a + Len(ParamWords(p))
        /\ at <= a /\ from = b - Len(Words(p.default)) /\ a <= b /\ b <= b
    <3>1. from = b - Len(Words(p.default))
      BY DEF From, DefaultAt, End, words
    <3>2. p \in Parameters
      BY <1>1, <2>1
    <3>3. a \in Nat /\ b \in Nat /\ at <= a
      BY <1>5, <2>1
    <3>4. b = a + Len(ParamWords(p)) /\ a <= b
      <4>1. k <= k + 1
        BY <2>1
      <4> QED BY <1>5, <2>1, <4>1
    <3> QED BY <3>1, <3>2, <3>3, <3>4
  <2>4. Visits(ix, jx, at, a) /\ Places(jx, k)
    BY <1>7
  <2> HIDE DEF p, a, b, from, jx, kx
  <2>5. Good(jx) /\ Room(jx, a, b) /\ Blank(jx, a, b)
    <3>1. Room(ix, a, b) /\ Blank(ix, a, b)
      BY <2>3
    <3>2. a <= a
      BY <2>3
    <3> QED BY <2>3, <2>4, <3>1, <3>2, RoomBeside DEF Visits
  <2>6. Visits(jx, kx, a, b) /\ Free(kx, p.default, from, b)
    BY <2>2, <2>3, <2>5, ParameterVisited
  <2>7. Visits(ix, kx, at, b)
    <3>1. at <= at
      OBVIOUS
    <3>2. Visits(ix, jx, at, b) /\ Visits(jx, kx, at, b)
      BY <2>3, <2>4, <2>6, <3>1, VisitsWider
    <3> QED BY <3>2, VisitsOn
  <2>8. ASSUME NEW j \in 1 .. k + 1 PROVE Free(kx, params[j].default, From(j), End(j))
    <3>1. CASE j = k + 1
      BY <2>6, <3>1 DEF p, from, b
    <3>2. CASE j # k + 1
      <4>1. j \in 1 .. k /\ j \in 0 .. n /\ j \in 1 .. n /\ j <= k
        BY <1>0, <3>2
      <4>2. Free(jx, params[j].default, From(j), End(j))
        BY <2>4, <4>1
      <4>3. End(j) <= a /\ From(j) \in Nat /\ End(j) \in Nat
        BY <1>5, <2>1, <4>1 DEF a
      <4> QED BY <2>3, <2>5, <2>6, <4>2, <4>3, FreeBeside
    <3> QED BY <3>1, <3>2
  <2> QED BY <2>1, <2>7, <2>8 DEF b, kx
<1>8. n \in S
  <2> HIDE DEF S
  <2>1. \A k \in 0 .. n : k \in S
    BY <1>0, <1>6, <1>7, Upwards
  <2> QED BY <1>0, <2>1
<1> DEFINE T == {k \in 0 .. n : Visits(ix, g[n + k], at, hi) /\ Places(g[n + k], n)}
<1>9. 0 \in T
  <2>1. n + 0 = n
    BY <1>0
  <2> QED BY <1>0, <1>4, <1>8, <2>1
<1>10. ASSUME NEW k \in 0 .. n - 1, k \in T PROVE k + 1 \in T
  <2> DEFINE e == params[k + 1].default
             a == From(k + 1)
             b == End(k + 1)
             jx == g[n + k]
             kx == g[n + (k + 1)]
  <2>1. /\ k + 1 \in 1 .. n /\ k + 1 \in 0 .. n /\ k \in 0 .. n /\ (k + 1) - 1 = k
        /\ n + (k + 1) \in 1 .. 2 * n /\ ~ (n + (k + 1) <= n)
        /\ (n + (k + 1)) - 1 = n + k /\ (n + (k + 1)) - n = k + 1
    BY <1>0
  <2>2. kx = VisitExpr(jx, e, a)
    BY <1>2, <2>1
  <2>3. /\ e \in Expression /\ a \in Nat /\ b \in Nat /\ b = a + Len(Words(e))
        /\ End(k) <= a /\ a <= b /\ b <= hi /\ at <= a
    <3>1. /\ e \in Expression /\ a \in Nat /\ b = a + Len(Words(e)) /\ End(k) <= a /\ a <= b
      BY <1>5, <2>1
    <3>2. b \in Nat /\ End(k) \in Nat /\ at <= End(k) /\ b <= hi
      BY <1>4, <1>5, <2>1
    <3> HIDE DEF a, b, e
    <3> QED BY <3>1, <3>2
  <2>4. Visits(ix, jx, at, hi) /\ Places(jx, n) /\ Free(jx, e, a, b)
    BY <1>10, <2>1
  <2> HIDE DEF e, a, b, jx, kx
  <2>5. Good(jx)
    BY <2>4 DEF Visits
  <2>6. Visits(jx, kx, a, b) /\ Own(jx, kx, e, a, b)
    BY <2>2, <2>3, <2>4, <2>5, ExprVisited
  <2>7. Visits(ix, kx, at, hi)
    <3>1. Visits(jx, kx, at, hi)
      BY <2>3, <2>6, VisitsWider
    <3> QED BY <2>4, <3>1, VisitsOn
  <2>8. ASSUME NEW j \in 1 .. n PROVE Free(kx, params[j].default, From(j), End(j))
    <3>1. CASE j = k + 1
      <4>1. Free(kx, e, a, b)
        BY <2>3, <2>4, <2>5, <2>6, FreeAgain
      <4> QED BY <3>1, <4>1 DEF e, a, b
    <3>2. CASE j # k + 1
      <4>1. j \in 0 .. n /\ j - 1 \in 0 .. n /\ (j <= k \/ k + 1 <= j - 1)
        BY <1>0, <3>2
      <4>2. Free(jx, params[j].default, From(j), End(j))
        BY <2>4
      <4>3. From(j) \in Nat /\ End(j) \in Nat /\ End(j - 1) <= From(j) /\ End(j - 1) \in Nat
        BY <1>5, <4>1
      <4>4. End(k) \in Nat
        BY <1>5, <2>1
      <4>5. CASE j <= k
        <5>1. End(j) <= End(k)
          BY <1>5, <2>1, <4>1, <4>5
        <5>2. End(j) <= a
          BY <2>3, <4>3, <4>4, <5>1
        <5> QED BY <2>3, <2>5, <2>6, <4>2, <4>3, <5>2, FreeBeside
      <4>6. CASE k + 1 <= j - 1
        <5>1. b <= End(j - 1)
          BY <1>5, <2>1, <4>1, <4>6 DEF b
        <5>2. b <= From(j)
          BY <2>3, <4>3, <5>1
        <5> QED BY <2>3, <2>5, <2>6, <4>2, <4>3, <5>2, FreeBeside
      <4> QED BY <4>1, <4>5, <4>6
    <3> QED BY <3>1, <3>2
  <2> QED BY <2>1, <2>7, <2>8 DEF kx
<1>11. n \in T
  <2> HIDE DEF T
  <2>1. \A k \in 0 .. n : k \in T
    BY <1>0, <1>9, <1>10, Upwards
  <2> QED BY <1>0, <2>1
<1>12. n + n = 2 * n
  BY <1>0
<1> QED BY <1>2, <1>11, <1>12

-------------------------------------------------------------------------------
(***************************************************************************)
(* Functions and classes.                                                  *)
(***************************************************************************)
\* The scope of a function or class is entered, behind what was visited; what
\* was visited of its head lies in it.
LEMMA BodyEntered ==
  ASSUME NEW ix, Good(ix), NEW here \in Nat, Visiting(ix, blocks, here),
         NEW ax, NEW hi \in Nat, here < hi, Visits(ix, ax, here, hi), Locals(ix, ax),
         NEW kind \in {"Function", "Class"}, NEW block \in {"def", "class"},
         NEW symbol \in Nat
  PROVE  LET jx == AddScope(ax, kind, Span(here, Open))
         IN  /\ Good(jx) /\ jx.current \in Nat
             /\ Visiting(jx, Append(Filled, Block(block, symbol, jx.current)), hi)
             /\ \A c, d \in Nat : here <= c => Room(jx, c, d) /\ Blank(jx, c, d)
<1> DEFINE range == Span(here, Open)
           jx == AddScope(ax, kind, range)
           n  == Len(ax.scopes)
           scope == [kind |-> kind, parent |-> ax.current, range |-> range]
<1>1. /\ range \in Ends /\ range.start = here /\ ~ Closed(range) /\ kind \in ScopeKinds
      /\ kind \in DefiningKinds
  BY DEF Span, Ends, Open, Closed, ScopeKinds, DefiningKinds
<1>s. scope.kind = kind /\ scope.range = range
  OBVIOUS
<1> HIDE DEF range
<1>2. /\ Good(ax) /\ ax.current = ix.current
      /\ \A s \in DOMAIN ix.scopes : Extent(ax, s) = Extent(ix, s) /\ Parent(ax, s) = Parent(ix, s)
  BY DEF Visits, Extends, Extent, Parent
<1>3. Visiting(ax, blocks, hi)
  BY VisitingOn
<1>4. /\ Room(ix, here, hi) /\ ~ Closed(Extent(ix, ix.current))
      /\ Extent(ix, ix.current).start <= here /\ ix.current \in DOMAIN ix.scopes
  <2>1. Room(ix, here, hi) /\ ~ Closed(Extent(ix, ix.current))
    BY RoomHere
  <2> QED BY <2>1, GoodParts DEF Visiting, EndsBy
<1>5. LiesIn(range, Extent(ax, ax.current))
  BY <1>1, <1>2, <1>4 DEF LiesIn
<1>6. ASSUME NEW t \in DOMAIN ax.scopes, Parent(ax, t) = ax.current
      PROVE  Beside(ax.scopes[t], scope)
  <2>1. CASE t \in DOMAIN ix.scopes
    <3>1. Apart(Extent(ix, t), here, hi)
      BY <1>2, <1>4, <1>6, <2>1 DEF Room
    <3>2. Extent(ix, t).start <= here /\ Extent(ix, t).start \in Nat
      BY <2>1, GoodParts DEF Visiting, EndsBy
    <3>3. Closed(Extent(ix, t)) /\ Extent(ix, t).end <= here
      <4>1. Extent(ix, t).end <= here
        BY <2>1 DEF Visiting, EndsBy
      <4> QED BY <3>1, <4>1 DEF Apart
    <3>4. Precedes(ax.scopes[t].range, range)
      BY <1>1, <1>2, <2>1, <3>3 DEF Precedes, Extent
    <3> HIDE DEF scope
    <3> QED BY <1>s, <3>4 DEF Beside
  <2>2. CASE t \notin DOMAIN ix.scopes
    <3>1. ax.scopes[t].kind \in LocalKinds /\ In(Extent(ax, t), here, hi)
      BY <2>2 DEF Locals, Visits, Adds
    <3>2. Closed(ax.scopes[t].range) /\ LiesIn(ax.scopes[t].range, range)
      BY <1>1, <3>1 DEF In, LiesIn, Extent
    <3> HIDE DEF scope
    <3> QED BY <1>s, <1>1, <3>1, <3>2 DEF Beside
  <2> QED BY <2>1, <2>2
<1>8. /\ Good(jx) /\ jx.current = n + 1
      /\ jx.symbols = ax.symbols /\ jx.references = ax.references
      /\ n \in Nat /\ DOMAIN ax.scopes = 1 .. n /\ DOMAIN jx.scopes = 1 .. n + 1
      /\ Extent(jx, n + 1) = range /\ Parent(jx, n + 1) = ax.current
      /\ \A s \in DOMAIN ax.scopes : jx.scopes[s] = ax.scopes[s]
      /\ \A s \in DOMAIN jx.scopes : Parent(jx, s) # n + 1
  BY <1>1, <1>2, <1>5, <1>6, ScopeEntered
<1> HIDE DEF jx, n, scope
<1>9. Visiting(ax, Filled, hi)
  BY <1>3, FilledVisiting
<1>10. Visiting(jx, Append(Filled, Block(block, symbol, n + 1)), hi)
  <2>1. Extent(jx, n + 1) = Span(here, Open) /\ here <= hi /\ hi # 0
    BY <1>8 DEF range
  <2>2. /\ Good(ax) /\ Good(jx) /\ n \in Nat
        /\ jx.symbols = ax.symbols /\ jx.references = ax.references
        /\ DOMAIN ax.scopes = 1 .. n /\ DOMAIN jx.scopes = 1 .. n + 1
        /\ jx.current = n + 1 /\ Parent(jx, n + 1) = ax.current
    BY <1>2, <1>8
  <2>3. \A s \in DOMAIN ax.scopes : jx.scopes[s] = ax.scopes[s]
    BY <1>8
  <2> QED BY <1>9, <2>1, <2>2, <2>3, ScopePushed
<1>11. ASSUME NEW c \in Nat, NEW d \in Nat, here <= c
       PROVE  Room(jx, c, d) /\ Blank(jx, c, d)
  <2>1. Span(c, d).start = c
    BY DEF Span
  <2>2. Room(jx, c, d)
    BY <1>1, <1>8, <1>11, <2>1 DEF Room, LiesIn
  <2>3. \A r \in DOMAIN jx.references : jx.references[r].scope # jx.current
    <3>1. \A r \in DOMAIN ax.references : ax.references[r].scope \in 1 .. n
      BY <1>2, <1>8, GoodParts
    <3> QED BY <1>8, <3>1
  <2> QED BY <2>2, <2>3 DEF Blank
<1>12. jx.current \in Nat
  BY <1>8
<1>13. Visiting(jx, Append(Filled, Block(block, symbol, jx.current)), hi)
  BY <1>8, <1>10
<1> QED BY <1>8, <1>11, <1>12, <1>13 DEF jx, range

\* The decorators and the name of a function or class.
LEMMA HeadVisited ==
  ASSUME ScopeIndexAssumption, IInv, query = "visiting", NEW es \in Seq(Expression),
         NEW name \in Names, NEW kind \in SymbolKinds, NEW words, NEW lo \in Nat,
         NEW hi \in Nat, lo = Here + Len(AllWords(es)), lo < hi
  PROVE  LET named == AddSymbol(VisitExprs(index, es, Here), name, kind, Span(Here, Open),
                                NameRange(words, name, Here, hi))
         IN  /\ Visits(index, named, Here, hi) /\ Locals(index, named)
             /\ \A c, d \in Nat : lo <= c => Room(named, c, d) /\ Blank(named, c, d)
             /\ Len(named.symbols) \in Nat
<1> DEFINE ix == VisitExprs(index, es, Here)
           range == Span(Here, Open)
           selection == NameRange(words, name, Here, hi)
           named == AddSymbol(ix, name, kind, range, selection)
<1>1. /\ Good(index) /\ Here \in Nat /\ index.current \in DOMAIN index.scopes
      /\ \A c, d \in Nat : Here <= c => Room(index, c, d) /\ Blank(index, c, d)
      /\ ~ Closed(Extent(index, index.current))
      /\ Extent(index, index.current).start <= Here
  BY InvVisiting
<1>2. /\ Visits(index, ix, Here, lo) /\ Locals(index, ix)
      /\ \A c, d \in Nat : lo <= c => Room(ix, c, d) /\ Blank(ix, c, d)
  BY <1>1, ExprsVisited
<1> HIDE DEF ix
<1>3. Here <= lo /\ Here < hi /\ lo <= hi /\ Here <= Here
  <2> DEFINE a == Len(AllWords(es))
  <2>1. a \in Nat /\ lo = Here + a
    BY ExprsWordsLen
  <2> HIDE DEF a
  <2> QED BY <1>1, <2>1
<1>4. range \in Ends
  BY <1>1 DEF Span, Ends, Open
<1>5. /\ selection \in Selected /\ selection.end = selection.start + 1
      /\ Here <= selection.start /\ selection.start < hi
  BY <1>1, <1>3, NameRangeIn
<1> HIDE DEF selection, range
<1>6. Good(ix) /\ ix.current = index.current /\ Extent(ix, ix.current) = Extent(index, index.current)
  BY <1>1, <1>2 DEF Visits, Extends, Extent
<1>7. In(selection, Here, hi) /\ LiesIn(selection, Extent(ix, ix.current))
  <2>1. selection.start \in Nat /\ selection.end \in Nat
    BY <1>5 DEF Selected
  <2>2. Extent(index, index.current).start \in Nat
    BY <1>1, GoodParts
  <2> QED BY <1>1, <1>5, <1>6, <2>1, <2>2 DEF In, LiesIn, Closed, Open
<1>8. /\ Visits(ix, named, Here, hi)
      /\ named.scopes = ix.scopes /\ named.references = ix.references
  BY <1>4, <1>5, <1>6, <1>7, SymbolVisited
<1> HIDE DEF named
<1>9. Visits(index, named, Here, hi)
  <2>1. Visits(index, ix, Here, hi)
    BY <1>1, <1>2, <1>3, VisitsWider
  <2> QED BY <1>1, <1>8, <2>1, VisitsOn
<1>10. Locals(index, named)
  BY <1>2, <1>8 DEF Locals
<1>11. \A c, d \in Nat : lo <= c => Room(named, c, d) /\ Blank(named, c, d)
  <2>1. named.current = ix.current
    BY <1>8 DEF Visits, Extends
  <2> QED BY <1>2, <1>8, <2>1 DEF Room, Blank, Extent, Parent
<1>12. Len(named.symbols) \in Nat
  BY <1>9, GoodParts, IndexParts DEF Visits
<1> QED BY <1>9, <1>10, <1>11, <1>12 DEF named, ix, range, selection

LEMMA ClassInv == ScopeIndexAssumption /\ IInv /\ VisitClass => IInv'
<1> SUFFICES ASSUME ScopeIndexAssumption, IInv, VisitClass PROVE IInv'
  OBVIOUS
<1>1. PICK name \in Names, header \in Headers :
        LET head == AllWords(header.decorators) \o <<"class", name>>
            decorated == VisitExprs(index, header.decorators, Here)
            range == Span(Here, Open)
            named == AddSymbol(decorated, name, "Class", range,
                               NameRange(text', name, Here, Len(text')))
        IN  /\ Statement(head \o AllWords(header.bases))
            /\ index' = AddScope(VisitExprs(named, header.bases, Here + Len(head)), "Class", range)
            /\ blocks' = Append(Filled, Block("class", Len(named.symbols), index'.current))
  BY DEF VisitClass
<1> DEFINE head == AllWords(header.decorators) \o <<"class", name>>
           words == head \o AllWords(header.bases)
           range == Span(Here, Open)
           hi == Len(text')
           lo == Here + Len(AllWords(header.decorators))
           place == Here + Len(head)
           named == AddSymbol(VisitExprs(index, header.decorators, Here), name, "Class", range,
                              NameRange(text', name, Here, hi))
           ax == VisitExprs(named, header.bases, place)
           jx == AddScope(ax, "Class", range)
<1>2. header.decorators \in Seq(Expression) /\ header.bases \in Seq(Expression)
  BY DEF ScopeIndexAssumption, Header
<1>3. /\ words \in Seq(Word) /\ Len(head) \in Nat /\ Len(AllWords(header.bases)) \in Nat
      /\ Len(words) = Len(head) + Len(AllWords(header.bases))
      /\ Len(head) = Len(AllWords(header.decorators)) + 2
      /\ Len(AllWords(header.decorators)) \in Nat
  <2>1. <<"class", name>> \in Seq(Word) /\ Len(<<"class", name>>) = 2
    <3>1. "class" \in Word /\ name \in Word
      BY DEF Word, Reserved
    <3> HIDE DEF Word
    <3> QED BY <3>1
  <2>2. AllWords(header.decorators) \in Seq(Word) /\ Len(AllWords(header.decorators)) \in Nat
    BY <1>2, ExprsWordsLen
  <2>3. head \in Seq(Word) /\ Len(head) = Len(AllWords(header.decorators)) + 2
    BY <2>1, <2>2, ConcatProperties
  <2>4. AllWords(header.bases) \in Seq(Word) /\ Len(AllWords(header.bases)) \in Nat
    BY <1>2, ExprsWordsLen
  <2> HIDE DEF head
  <2>5. words \in Seq(Word) /\ Len(words) = Len(head) + Len(AllWords(header.bases))
    BY <2>3, <2>4, ConcatProperties
  <2> QED BY <2>2, <2>3, <2>4, <2>5
<1>4. /\ Statement(words) /\ index' = jx
      /\ blocks' = Append(Filled, Block("class", Len(named.symbols), jx.current))
  BY <1>1
<1> HIDE DEF words
<1>5. /\ query = "visiting" /\ UNCHANGED <<query, searchVars>> /\ text' \in Seq(Word)
      /\ Here \in Nat /\ Here' = hi /\ hi \in Nat
      /\ lo \in Nat /\ place \in Nat /\ Here < hi /\ Here <= lo /\ lo <= place /\ lo < hi
      /\ Here <= place /\ hi = place + Len(AllWords(header.bases)) /\ hi <= hi
  <2>1. /\ query = "visiting" /\ UNCHANGED <<query, searchVars>> /\ text' \in Seq(Word)
        /\ Here \in Nat /\ Here' = Here + Len(words)
    BY <1>3, <1>4, StatementTaken DEF IInv
  <2>2. Here' = hi
    BY DEF Here
  <2> DEFINE a == Len(AllWords(header.decorators))
             b == Len(head)
             c == Len(AllWords(header.bases))
             d == Len(words)
  <2>3. a \in Nat /\ b = a + 2 /\ c \in Nat /\ d = b + c /\ hi = Here + d
    BY <1>3, <2>1, <2>2
  <2> HIDE DEF a, b, c, d, hi, head
  <2>4. /\ hi \in Nat /\ Here + a \in Nat /\ Here + b \in Nat /\ Here < hi /\ Here <= Here + a
        /\ Here + a <= Here + b /\ Here + a < hi /\ Here <= Here + b /\ hi = (Here + b) + c
        /\ hi <= hi
    BY <2>1, <2>3
  <2> QED BY <2>1, <2>2, <2>4 DEF a, b, c
<1>6. Good(index) /\ Visiting(index, blocks, Here)
  BY <1>5, InvVisiting
<1> HIDE DEF hi, place, head
<1>7. /\ Visits(index, named, Here, hi) /\ Locals(index, named)
      /\ \A c, d \in Nat : lo <= c => Room(named, c, d) /\ Blank(named, c, d)
      /\ Len(named.symbols) \in Nat
  <2>1. "Class" \in SymbolKinds
    BY DEF SymbolKinds
  <2> QED BY <1>2, <1>5, <2>1, HeadVisited
<1> HIDE DEF named, lo, range
<1>8. Visits(index, ax, Here, hi) /\ Locals(index, ax)
  <2>1. Good(named)
    BY <1>7 DEF Visits
  <2>2. \A c, d \in Nat : place <= c => Room(named, c, d) /\ Blank(named, c, d)
    BY <1>5, <1>7
  <2>3. Visits(named, ax, place, hi) /\ Locals(named, ax)
    BY <1>2, <1>5, <2>1, <2>2, ExprsVisited
  <2> HIDE DEF ax
  <2>4. Visits(named, ax, Here, hi)
    BY <1>5, <2>3, VisitsWider
  <2>5. Visits(index, ax, Here, hi)
    BY <1>6, <1>7, <2>4, VisitsOn
  <2>6. Locals(index, ax)
    BY <1>7, <2>3, LocalsOn DEF Visits
  <2> QED BY <2>5, <2>6
<1> DEFINE symbol == Len(named.symbols)
<1> HIDE DEF ax
<1>9. symbol \in Nat
  BY <1>7
<1> HIDE DEF symbol
<1>10. Good(jx) /\ Visiting(jx, Append(Filled, Block("class", symbol, jx.current)), hi)
  BY <1>5, <1>6, <1>8, <1>9, BodyEntered DEF range
<1> HIDE DEF jx
<1>11. Good(index') /\ Visiting(index', blocks', Here')
  BY <1>4, <1>5, <1>10 DEF symbol
<1> QED BY <1>5, <1>11, InvAgain

LEMMA FunctionInv == ScopeIndexAssumption /\ IInv /\ VisitFunction => IInv'
<1> SUFFICES ASSUME ScopeIndexAssumption, IInv, VisitFunction PROVE IInv'
  OBVIOUS
<1>1. PICK name \in Names, sig \in Signatures :
        LET head == AllWords(sig.decorators) \o <<"def", name>>
            params == ParamsWords(sig.params)[Len(sig.params)]
            words == head \o params \o Words(sig.returns)
            decorated == VisitExprs(index, sig.decorators, Here)
            kind == IF index.scopes[index.current].kind = "Class" THEN "Method" ELSE "Function"
            range == Span(Here, Open)
            named == AddSymbol(decorated, name, kind, range,
                               NameRange(text', name, Here, Len(text')))
        IN  /\ Statement(words)
            /\ index' = VisitExpr(VisitParameters(AddScope(named, "Function", range),
                                                  sig.params, Here + Len(head)),
                                  sig.returns, Here + Len(head) + Len(params))
            /\ blocks' = Append(Filled, Block("def", Len(named.symbols), index'.current))
  BY DEF VisitFunction
<1> DEFINE head == AllWords(sig.decorators) \o <<"def", name>>
           params == ParamsWords(sig.params)[Len(sig.params)]
           words == head \o params \o Words(sig.returns)
           kind == IF index.scopes[index.current].kind = "Class" THEN "Method" ELSE "Function"
           range == Span(Here, Open)
           hi == Len(text')
           lo == Here + Len(AllWords(sig.decorators))
           place == Here + Len(head)
           last == Here + Len(head) + Len(params)
           named == AddSymbol(VisitExprs(index, sig.decorators, Here), name, kind, range,
                              NameRange(text', name, Here, hi))
           jx == AddScope(named, "Function", range)
           px == VisitParameters(jx, sig.params, place)
           rx == VisitExpr(px, sig.returns, last)
<1>2. /\ sig.decorators \in Seq(Expression) /\ sig.params \in Seq(Parameters)
      /\ sig.returns \in Expression
  BY DEF ScopeIndexAssumption, Signature
<1>3. /\ words \in Seq(Word) /\ Len(head) \in Nat /\ Len(params) \in Nat
      /\ Len(Words(sig.returns)) \in Nat
      /\ Len(words) = (Len(head) + Len(params)) + Len(Words(sig.returns))
      /\ Len(head) = Len(AllWords(sig.decorators)) + 2
      /\ Len(AllWords(sig.decorators)) \in Nat
  <2>1. <<"def", name>> \in Seq(Word) /\ Len(<<"def", name>>) = 2
    <3>1. "def" \in Word /\ name \in Word
      BY DEF Word, Reserved
    <3> HIDE DEF Word
    <3> QED BY <3>1
  <2>2. AllWords(sig.decorators) \in Seq(Word) /\ Len(AllWords(sig.decorators)) \in Nat
    BY <1>2, ExprsWordsLen
  <2>3. head \in Seq(Word) /\ Len(head) = Len(AllWords(sig.decorators)) + 2
    BY <2>1, <2>2, ConcatProperties
  <2>4. params \in Seq(Word) /\ Len(params) \in Nat
    <3> DEFINE n == Len(sig.params)
    <3>1. /\ n \in Nat
          /\ \A k \in 0 .. n : /\ ParamsWords(sig.params)[k] \in Seq(Word)
                               /\ Len(ParamsWords(sig.params)[k]) \in Nat
      BY <1>2, ParamsWordsLen
    <3>2. n \in 0 .. n
      BY <3>1
    <3> QED BY <3>1, <3>2
  <2>5. Words(sig.returns) \in Seq(Word) /\ Len(Words(sig.returns)) \in Nat
    BY <1>2, WordsTyped
  <2> HIDE DEF head, params
  <2>6. head \o params \in Seq(Word) /\ Len(head \o params) = Len(head) + Len(params)
    BY <2>3, <2>4, ConcatProperties
  <2>7. words \in Seq(Word) /\ Len(words) = Len(head \o params) + Len(Words(sig.returns))
    BY <2>5, <2>6, ConcatProperties
  <2> QED BY <2>2, <2>3, <2>4, <2>5, <2>6, <2>7
<1>4. /\ Statement(words) /\ index' = rx
      /\ blocks' = Append(Filled, Block("def", Len(named.symbols), index'.current))
  BY <1>1
<1> HIDE DEF words
<1>5. /\ query = "visiting" /\ UNCHANGED <<query, searchVars>> /\ text' \in Seq(Word)
      /\ Here \in Nat /\ Here' = hi /\ hi \in Nat
      /\ lo \in Nat /\ place \in Nat /\ last \in Nat /\ Here < hi /\ Here <= lo /\ lo < hi
      /\ Here <= place /\ last = place + Len(params) /\ place <= last /\ last <= hi
      /\ hi = last + Len(Words(sig.returns)) /\ Here <= last /\ hi <= hi
  <2>1. /\ query = "visiting" /\ UNCHANGED <<query, searchVars>> /\ text' \in Seq(Word)
        /\ Here \in Nat /\ Here' = Here + Len(words)
    BY <1>3, <1>4, StatementTaken DEF IInv
  <2>2. Here' = hi
    BY DEF Here
  <2> DEFINE a == Len(AllWords(sig.decorators))
             b == Len(head)
             c == Len(params)
             r == Len(Words(sig.returns))
             d == Len(words)
  <2>3. a \in Nat /\ b = a + 2 /\ c \in Nat /\ r \in Nat /\ d = (b + c) + r /\ hi = Here + d
    BY <1>3, <2>1, <2>2
  <2> HIDE DEF a, b, c, d, r, hi, head, params
  <2>4. /\ hi \in Nat /\ Here + a \in Nat /\ Here + b \in Nat /\ (Here + b) + c \in Nat
        /\ Here < hi /\ Here <= Here + a /\ Here + a < hi /\ Here <= Here + b
        /\ Here + b <= (Here + b) + c /\ (Here + b) + c <= hi
        /\ hi = ((Here + b) + c) + r /\ Here <= (Here + b) + c /\ hi <= hi
    BY <2>1, <2>3
  <2> QED BY <2>1, <2>2, <2>4 DEF a, b, c, r
<1>6. Good(index) /\ Visiting(index, blocks, Here) /\ kind \in SymbolKinds
  BY <1>5, InvVisiting DEF SymbolKinds
<1> HIDE DEF hi, place, head, kind, last
<1>7. /\ Visits(index, named, Here, hi) /\ Locals(index, named) /\ Len(named.symbols) \in Nat
  BY <1>2, <1>5, <1>6, HeadVisited
<1> HIDE DEF named, lo, range
<1> DEFINE symbol == Len(named.symbols)
<1>8. symbol \in Nat
  BY <1>7
<1> HIDE DEF symbol
<1> DEFINE more == Append(Filled, Block("def", symbol, jx.current))
<1>9. /\ Good(jx) /\ Visiting(jx, more, hi)
      /\ \A c, d \in Nat : Here <= c => Room(jx, c, d) /\ Blank(jx, c, d)
  BY <1>5, <1>6, <1>7, <1>8, BodyEntered DEF range
<1> HIDE DEF jx, more
<1>10. Visits(jx, px, place, last)
  <2>1. \A c, d \in Nat : place <= c => Room(jx, c, d) /\ Blank(jx, c, d)
    BY <1>5, <1>9
  <2>2. last = place + Len(ParamsWords(sig.params)[Len(sig.params)])
    BY <1>5
  <2> HIDE DEF params
  <2> QED BY <1>2, <1>5, <1>9, <2>1, <2>2, ParametersVisited
<1> HIDE DEF px
<1>11. Good(px) /\ Free(px, sig.returns, last, hi)
  <2>1. Room(jx, last, hi) /\ Blank(jx, last, hi)
    BY <1>5, <1>9
  <2>2. place \in Nat /\ last \in Nat /\ hi \in Nat /\ Good(jx)
    BY <1>5, <1>9
  <2>4. last <= last
    BY <2>2
  <2>3. Room(px, last, hi) /\ Blank(px, last, hi)
    BY <1>10, <2>1, <2>2, <2>4, RoomBeside
  <2> QED BY <1>10, <2>3, FreeHere DEF Visits
<1>12. Visits(px, rx, last, hi)
  BY <1>2, <1>5, <1>11, ExprVisited
<1> HIDE DEF rx
<1>13. Visits(jx, rx, Here, hi)
  <2>1. Visits(jx, px, Here, hi)
    BY <1>5, <1>10, VisitsWider
  <2>2. Visits(px, rx, Here, hi)
    BY <1>5, <1>12, VisitsWider
  <2> QED BY <1>9, <2>1, <2>2, VisitsOn
<1>14. Good(rx) /\ Visiting(rx, more, hi) /\ rx.current = jx.current
  BY <1>5, <1>9, <1>13, VisitingOn DEF Visits, Extends
<1>15. Good(index') /\ Visiting(index', blocks', Here')
  BY <1>4, <1>5, <1>14 DEF symbol, more
<1> QED BY <1>5, <1>15, InvAgain
-------------------------------------------------------------------------------
(***************************************************************************)
(* Lookups leave the index alone.                                          *)
(***************************************************************************)
LEMMA QueryInv ==
  ASSUME IInv, UNCHANGED <<text, index>>, query # "visiting", query' # "visiting",
         Len(entries') \in Nat, cursor' \in 0 .. Len(entries'),
         search' \in {"idle", "scanning", "done"}
  PROVE  IInv'
<1>1. Here' = Here
  BY DEF Here
<1>2. Good(index) /\ text \in Seq(Word) /\ AllClosed(index) /\ EndsBy(index, Here)
  BY DEF IInv
<1>3. Good(index)' /\ (text \in Seq(Word))' /\ AllClosed(index)' /\ EndsBy(index, Here)'
  BY <1>1, <1>2
<1> QED BY <1>3 DEF IInv

LEMMA LookupInv ==
  ASSUME IInv, query # "visiting", NEW kind, kind # "visiting", NEW table, NEW n \in Nat,
         DOMAIN table = 1 .. n, NEW o, Lookup(kind, table, o)
  PROVE  IInv'
<1>1. PICK turned \in BOOLEAN : Begin(Sorted(table, turned), o)
  BY DEF Lookup
<1> DEFINE es == Sorted(table, turned)
<1>2. Len(es) \in Nat
  BY SortedLen
<1> HIDE DEF es
<1>3. entries' = es /\ cursor' \in 0 .. Len(es) /\ search' = "scanning"
  BY <1>1 DEF Begin, IsPartition, es
<1>4. UNCHANGED <<text, index>> /\ query' = kind
  BY DEF Lookup
<1>5. Len(entries') \in Nat /\ cursor' \in 0 .. Len(entries')
  BY <1>2, <1>3
<1> QED BY <1>3, <1>4, <1>5, QueryInv

LEMMA TablesOf ==
  ASSUME IInv
  PROVE  /\ \E n \in Nat : DOMAIN Selections = 1 .. n
         /\ \E n \in Nat : DOMAIN References = 1 .. n
         /\ \E n \in Nat : DOMAIN Scopes = 1 .. n
<1>1. index \in Index
  BY GoodParts DEF IInv
<1>2. /\ Len(index.symbols) \in Nat /\ DOMAIN index.symbols = 1 .. Len(index.symbols)
      /\ Len(index.references) \in Nat /\ DOMAIN index.references = 1 .. Len(index.references)
      /\ Len(index.scopes) \in Nat /\ DOMAIN index.scopes = 1 .. Len(index.scopes)
  BY <1>1, IndexParts
<1>3. /\ DOMAIN Selections = DOMAIN index.symbols /\ DOMAIN Scopes = DOMAIN index.scopes
      /\ DOMAIN References = DOMAIN index.references
  BY DEF Selections, Scopes, References, Symbols
<1> QED BY <1>2, <1>3

LEMMA AskInv == IInv /\ (Ask \/ AskReference) => IInv'
<1>1. ASSUME IInv, Ask PROVE IInv'
  <2>1. PICK o : Lookup("symbol", Selections, o) \/ Lookup("scope", Scopes, o)
    BY <1>1 DEF Ask
  <2>2. query = "none"
    BY <1>1 DEF Ask
  <2>3. CASE Lookup("symbol", Selections, o)
    BY <1>1, <2>2, <2>3, TablesOf, LookupInv
  <2>4. CASE Lookup("scope", Scopes, o)
    BY <1>1, <2>2, <2>4, TablesOf, LookupInv
  <2> QED BY <2>1, <2>3, <2>4
<1>2. ASSUME IInv, AskReference PROVE IInv'
  <2>1. Lookup("reference", References, offset) /\ query = "symbol"
    BY <1>2 DEF AskReference
  <2> QED BY <1>2, <2>1, TablesOf, LookupInv
<1> QED BY <1>1, <1>2

LEMMA ScanInv == IInv /\ ScanTable => IInv'
<1> SUFFICES ASSUME IInv, ScanTable PROVE IInv'
  OBVIOUS
<1>1. /\ UNCHANGED <<text, index, blocks, query>> /\ entries' = entries
      /\ Len(entries) \in Nat /\ cursor \in 0 .. Len(entries)
  BY DEF ScanTable, Scan, Look, Finish, IInv
<1>2. cursor' \in 0 .. Len(entries) /\ search' \in {"idle", "scanning", "done"}
  <2>1. CASE Look
    BY <1>1, <2>1 DEF Look, IInv
  <2>2. CASE Finish
    BY <1>1, <2>2 DEF Finish
  <2> QED BY <2>1, <2>2 DEF ScanTable, Scan
<1>3. Here' = Here
  BY <1>1 DEF Here
<1>4. /\ Good(index)' /\ (text \in Seq(Word))' /\ query' = query
      /\ query = "visiting" => Visiting(index, blocks, Here)'
      /\ query # "visiting" => AllClosed(index)' /\ EndsBy(index, Here)'
  BY <1>1, <1>3 DEF IInv
<1> QED BY <1>1, <1>2, <1>4 DEF IInv

LEMMA StutterInv == IInv /\ UNCHANGED vars => IInv'
<1> SUFFICES ASSUME IInv, UNCHANGED vars PROVE IInv'
  OBVIOUS
<1>1. /\ text' = text /\ index' = index /\ blocks' = blocks /\ query' = query
      /\ entries' = entries /\ cursor' = cursor /\ search' = search
  BY DEF vars
<1>2. Here' = Here
  BY <1>1 DEF Here
<1>3. /\ Good(index)' /\ (text \in Seq(Word))'
      /\ query = "visiting" => Visiting(index, blocks, Here)'
      /\ query # "visiting" => AllClosed(index)' /\ EndsBy(index, Here)'
  BY <1>1, <1>2 DEF IInv
<1> QED BY <1>1, <1>3 DEF IInv

LEMMA InitInv == Init => IInv
<1> SUFFICES ASSUME Init PROVE IInv
  OBVIOUS
<1> DEFINE root == [kind |-> "Module", parent |-> 0, range |-> Span(0, Open)]
<1>1. /\ text = <<>> /\ blocks = <<>> /\ query = "visiting"
      /\ index = [scopes |-> <<root>>, symbols |-> <<>>, references |-> <<>>,
                  current |-> ROOT]
      /\ entries = <<>> /\ cursor = 0 /\ search = "idle"
  BY DEF Init, SearchInit
<1>2. /\ root \in Scope /\ root.range.start = 0 /\ root.range.end = 0
      /\ root.parent = 0 /\ ~ Closed(root.range)
  BY DEF Scope, ScopeKinds, Ends, Span, Open, Closed
<1> HIDE DEF root
<1>3. /\ index.scopes = <<root>> /\ index.symbols = <<>> /\ index.references = <<>>
      /\ index.current = ROOT /\ index \in Index
  <2>1. <<root>> \in Seq(Scope) /\ <<>> \in Seq(Symbol) /\ <<>> \in Seq(Reference)
    BY <1>2
  <2> QED BY <1>1, <2>1 DEF Index, ROOT
<1>4. /\ DOMAIN index.scopes = {ROOT} /\ DOMAIN index.symbols = {}
      /\ DOMAIN index.references = {}
      /\ Parent(index, ROOT) = 0 /\ Extent(index, ROOT) = root.range
      /\ ~ Closed(Extent(index, ROOT))
  BY <1>2, <1>3 DEF Parent, Extent, ROOT
<1>5. Good(index)
  <2>1. IndexOK(index)
    BY <1>3, <1>4 DEF IndexOK, Rooted, ROOT
  <2>2. Nested(index)
    BY <1>4 DEF Nested, ScopesApart, ROOT
  <2> QED BY <2>1, <2>2 DEF Good
<1>6. text \in Seq(Word) /\ Here = 0
  <2>1. <<>> \in Seq(Word) /\ Len(<<>>) = 0
    BY EmptySeq
  <2> QED BY <1>1, <2>1 DEF Here
<1>7. Visiting(index, blocks, Here)
  <2> DEFINE f == [k \in 0 .. 0 |-> ROOT]
  <2>1. BlocksOK(blocks) /\ Len(blocks) = 0
    <3>1. <<>> \in Seq(Blocks) /\ DOMAIN <<>> = {} /\ Len(<<>>) = 0
      BY EmptySeq
    <3> QED BY <1>1, <3>1 DEF BlocksOK
  <2>2. EndsBy(index, Here)
    BY <1>2, <1>4, <1>6 DEF EndsBy
  <2>3. f \in [0 .. 0 -> DOMAIN index.scopes] /\ \A k \in 0 .. 0 : f[k] = ROOT
    BY <1>4
  <2> HIDE DEF f
  <2>4. Around(f, index, blocks)
    BY <1>3, <1>4, <2>1, <2>3 DEF Around, ROOT
  <2> QED BY <1>1, <2>1, <2>2, <2>3, <2>4 DEF Visiting
<1>8. Len(entries) \in Nat /\ cursor \in 0 .. Len(entries)
  <2>1. Len(<<>>) = 0
    OBVIOUS
  <2> QED BY <1>1, <2>1
<1> QED BY <1>1, <1>5, <1>6, <1>7, <1>8 DEF IInv

LEMMA NextInv == ScopeIndexAssumption /\ IInv /\ [Next]_vars => IInv'
<1> SUFFICES ASSUME ScopeIndexAssumption, IInv, [Next]_vars PROVE IInv'
  OBVIOUS
<1>1. CASE VisitStmt
  BY <1>1, UseInv, AssignInv, AnnAssignInv, AugAssignInv, InertInv, ImportInv, FunctionInv,
     ClassInv, BranchInv, ForInv, WithInv, TryInv, HandlerInv DEF VisitStmt
<1>2. CASE EndBody
  BY <1>2, EndBodyInv
<1>3. CASE FinishModule
  BY <1>3, FinishModuleInv
<1>4. CASE Ask \/ AskReference
  BY <1>4, AskInv
<1>5. CASE ScanTable
  BY <1>5, ScanInv
<1>6. CASE UNCHANGED vars
  BY <1>6, StutterInv
<1> QED BY <1>1, <1>2, <1>3, <1>4, <1>5, <1>6 DEF Next
-------------------------------------------------------------------------------
(***************************************************************************)
(* What the invariant says of a finished index.                            *)
(***************************************************************************)
LEMMA InvTypeOK == IInv => TypeOK
<1> SUFFICES ASSUME IInv PROVE TypeOK
  OBVIOUS
<1>1. /\ index \in Index /\ Rooted(index) /\ IndexOK(index)
      /\ index.current \in DOMAIN index.scopes
      /\ \A i \in DOMAIN index.symbols : index.symbols[i].scope \in DOMAIN index.scopes
  BY GoodParts DEF IInv
<1>2. ASSUME NEW r \in DOMAIN index.references
      PROVE  index.references[r].resolved \in Symbols(index) \cup {0}
  <2>1. /\ ReferenceOK(index, index.references[r]) /\ index.references[r] \in Reference
        /\ Len(index.symbols) \in Nat /\ DOMAIN index.symbols = 1 .. Len(index.symbols)
    BY <1>1, IndexParts DEF IndexOK
  <2> DEFINE ref == index.references[r]
             n == Len(index.symbols)
  <2>2. ref.seen \in Nat /\ ref.seen <= n /\ ref.resolved \in 0 .. ref.seen /\ n \in Nat
    BY <2>1 DEF ReferenceOK, Reference
  <2> HIDE DEF ref, n
  <2>3. ref.resolved \in 1 .. n \cup {0}
    BY <2>2
  <2> QED BY <2>1, <2>3 DEF Symbols, ref, n
<1>3. cursor \in 0 .. Len(entries) /\ search \in {"idle", "scanning", "done"}
  BY DEF IInv
<1> QED BY <1>1, <1>2, <1>3 DEF TypeOK, Rooted, Symbols

LEMMA ExactEnds ==
  ASSUME NEW range, range.start \in Nat, range.end \in Nat, NEW half \in 0 .. 2
  PROVE  LET exact == Exact(range, half)
         IN  /\ exact.start \in Int /\ exact.end \in Int
             /\ 2 * range.start <= exact.start /\ exact.start <= 2 * range.start + 1
             /\ exact.end <= 2 * range.end /\ 2 * range.end - 1 <= exact.end
             /\ half = 0 => exact.start = 2 * range.start /\ exact.end = 2 * range.end
  BY DEF Exact, Span

LEMMA InvScopesNest == IInv => ScopesNest
<1> SUFFICES ASSUME IInv, Indexed PROVE ScopesNest
  BY DEF ScopesNest
<1>1. Good(index) /\ Nested(index) /\ AllClosed(index)
  BY DEF IInv, Indexed, Good
<1>2. \A s \in DOMAIN index.scopes :
        /\ Scopes[s] = Exact(Extent(index, s), 0)
        /\ Scopes[s].start = 2 * Extent(index, s).start
        /\ Scopes[s].end = 2 * Extent(index, s).end
        /\ Closed(Extent(index, s))
        /\ Extent(index, s).start \in Nat /\ Extent(index, s).end \in Nat
        /\ s # ROOT => Parent(index, s) \in DOMAIN index.scopes
  <2> SUFFICES ASSUME NEW s \in DOMAIN index.scopes
               PROVE  /\ Scopes[s] = Exact(Extent(index, s), 0)
                      /\ Scopes[s].start = 2 * Extent(index, s).start
                      /\ Scopes[s].end = 2 * Extent(index, s).end
                      /\ Closed(Extent(index, s))
                      /\ Extent(index, s).start \in Nat /\ Extent(index, s).end \in Nat
                      /\ s # ROOT => Parent(index, s) \in DOMAIN index.scopes
    OBVIOUS
  <2>1. Scopes[s] = Exact(Extent(index, s), 0)
    BY DEF Scopes, Extent
  <2>2. /\ Extent(index, s).start \in Nat /\ Extent(index, s).end \in Nat
        /\ s # ROOT => Parent(index, s) \in DOMAIN index.scopes
    BY <1>1, GoodParts
  <2>3. Closed(Extent(index, s))
    BY <1>1 DEF AllClosed
  <2> QED BY <2>1, <2>2, <2>3, ExactEnds
<1>3. ASSUME NEW range, NEW outer, LiesIn(range, outer), Closed(outer)
      PROVE  outer.start <= range.start /\ range.end <= outer.end
  BY <1>3 DEF LiesIn
<1>4. ASSUME NEW s \in DOMAIN index.scopes, s # ROOT
      PROVE  Inside(Scopes[s], Scopes[Parent(index, s)])
  <2> DEFINE p == Parent(index, s)
  <2>1. p \in DOMAIN index.scopes /\ LiesIn(Extent(index, s), Extent(index, p))
    BY <1>1, <1>2, <1>4 DEF Nested, ScopesApart
  <2> HIDE DEF p
  <2>2. /\ Extent(index, p).start <= Extent(index, s).start
        /\ Extent(index, s).end <= Extent(index, p).end
    BY <1>2, <1>3, <2>1
  <2>3. Inside(Scopes[s], Scopes[p])
    BY <1>2, <2>1, <2>2 DEF Inside
  <2> QED BY <2>3 DEF p
<1>5. ASSUME NEW s \in DOMAIN index.scopes, NEW t \in Below(s), NEW u \in Below(s), t < u
      PROVE  \/ Scopes[t].end <= Scopes[u].start \/ Scopes[u].end <= Scopes[t].start
             \/ IsExpression(t) /\ IsExpression(u) /\ Scopes[t] = Scopes[u]
             \/ IsExpression(t) /\ IsDefinition(u) /\ Inside(Scopes[t], Scopes[u])
  <2>1. /\ t \in DOMAIN index.scopes /\ u \in DOMAIN index.scopes
        /\ Parent(index, t) = Parent(index, u)
    BY DEF Below
  <2>2. Beside(index.scopes[t], index.scopes[u])
    BY <1>1, <1>5, <2>1 DEF Nested, ScopesApart
  <2>3. CASE Precedes(Extent(index, t), Extent(index, u))
    BY <1>2, <2>1, <2>3 DEF Precedes
  <2>4. CASE Precedes(Extent(index, u), Extent(index, t))
    BY <1>2, <2>1, <2>4 DEF Precedes
  <2>5. CASE /\ index.scopes[t].kind \in LocalKinds /\ index.scopes[u].kind \in LocalKinds
             /\ Extent(index, t) = Extent(index, u)
    BY <1>2, <2>1, <2>5 DEF IsExpression, LocalKinds
  <2>6. CASE /\ index.scopes[t].kind \in LocalKinds /\ index.scopes[u].kind \in DefiningKinds
             /\ LiesIn(Extent(index, t), Extent(index, u))
    <3>1. /\ Extent(index, u).start <= Extent(index, t).start
          /\ Extent(index, t).end <= Extent(index, u).end
      BY <1>2, <1>3, <2>1, <2>6
    <3>2. Inside(Scopes[t], Scopes[u])
      BY <1>2, <2>1, <3>1 DEF Inside
    <3> QED BY <2>6, <3>2 DEF IsExpression, IsDefinition, LocalKinds, DefiningKinds
  <2> QED BY <2>2, <2>3, <2>4, <2>5, <2>6 DEF Beside, Extent
<1>6. ASSUME NEW i \in Symbols(index)
      PROVE  Inside(Selections[i], Scopes[index.symbols[i].scope])
  <2> DEFINE range == index.symbols[i].selection
             s == index.symbols[i].scope
  <2>1. i \in DOMAIN index.symbols /\ Selections[i] = Exact(range, range.half)
    BY DEF Symbols, Selections
  <2>2. /\ s \in DOMAIN index.scopes /\ LiesIn(range, Extent(index, s))
        /\ range.start \in Nat /\ range.end \in Nat /\ range.half \in 0 .. 2
    <3>1. range \in Selected /\ s \in DOMAIN index.scopes
      BY <1>1, <2>1, GoodParts
    <3>2. LiesIn(range, Extent(index, s))
      BY <1>1, <2>1 DEF Nested, SymbolNests
    <3> QED BY <3>1, <3>2 DEF Selected
  <2> HIDE DEF range, s
  <2>3. Extent(index, s).start <= range.start /\ range.end <= Extent(index, s).end
    BY <1>2, <1>3, <2>2
  <2>4. /\ Selections[i].start \in Int /\ Selections[i].end \in Int
        /\ 2 * range.start <= Selections[i].start /\ Selections[i].end <= 2 * range.end
    BY <2>1, <2>2, ExactEnds
  <2>5. Inside(Selections[i], Scopes[s])
    BY <1>2, <2>2, <2>3, <2>4 DEF Inside
  <2> QED BY <2>5 DEF s
<1>7. ASSUME NEW r \in DOMAIN index.references
      PROVE  LET ref == index.references[r]
             IN  /\ Inside(References[r], Scopes[ref.scope])
                 /\ \A t \in Below(ref.scope) :
                      Inside(References[r], Scopes[t]) => IsDefinition(t) /\ ref.entered < t
  <2> DEFINE ref == index.references[r]
  <2>1. /\ ref.scope \in DOMAIN index.scopes /\ ReferenceNests(index, ref)
        /\ ref.range.start \in Nat /\ ref.range.end \in Nat
    BY <1>1, GoodParts DEF Nested
  <2>2. References[r] = Exact(ref.range, 0)
    BY DEF References
  <2> HIDE DEF ref
  <2>3. References[r].start = 2 * ref.range.start /\ References[r].end = 2 * ref.range.end
    BY <2>1, <2>2, ExactEnds
  <2>4. Inside(References[r], Scopes[ref.scope])
    <3>1. LiesIn(ref.range, Extent(index, ref.scope)) /\ Closed(Extent(index, ref.scope))
      BY <1>2, <2>1 DEF ReferenceNests
    <3>2. /\ Extent(index, ref.scope).start <= ref.range.start
          /\ ref.range.end <= Extent(index, ref.scope).end
      BY <1>3, <3>1
    <3> QED BY <1>2, <2>1, <2>3, <3>2 DEF Inside
  <2>5. ASSUME NEW t \in Below(ref.scope), Inside(References[r], Scopes[t])
        PROVE  IsDefinition(t) /\ ref.entered < t
    <3>1. t \in DOMAIN index.scopes /\ Parent(index, t) = ref.scope
      BY DEF Below
    <3>2. /\ \/ index.scopes[t].kind \in DefiningKinds /\ ref.entered < t
             \/ Precedes(ref.range, Extent(index, t)) \/ Precedes(Extent(index, t), ref.range)
          /\ ref.range.end = ref.range.start + 1
      BY <2>1, <3>1 DEF ReferenceNests
    <3>3. /\ 2 * Extent(index, t).start <= 2 * ref.range.start
          /\ 2 * ref.range.end <= 2 * Extent(index, t).end
          /\ Extent(index, t).start \in Nat /\ Extent(index, t).end \in Nat
      BY <1>2, <2>3, <2>5, <3>1 DEF Inside
    <3>4. ~ Precedes(ref.range, Extent(index, t)) /\ ~ Precedes(Extent(index, t), ref.range)
      BY <2>1, <3>2, <3>3 DEF Precedes
    <3> QED BY <3>2, <3>4 DEF IsDefinition, DefiningKinds
  <2> QED BY <2>4, <2>5 DEF ref
<1> QED BY <1>1, <1>4, <1>5, <1>6, <1>7 DEF ScopesNest

LEMMA InvResolution == IInv => ResolutionStands
<1> SUFFICES ASSUME IInv, NEW r \in DOMAIN index.references
             PROVE  LET ref == index.references[r]
                        again == OwnedResolveName(ref.name, ref.scope)
                    IN  \/ again = ref.resolved
                        \/ again > ref.seen
                        \/ \E i \in {again, ref.resolved} \ {0} :
                             SymbolName(i) # index.symbols[i].name
  BY DEF ResolutionStands
<1> DEFINE ref   == index.references[r]
           from  == ref.scope
           seen  == Seen(index, ref)
           found == [s \in DOMAIN index.scopes |->
                       {i \in SymbolsOf(index, s) :
                          /\ SymbolName(i) = ref.name
                          /\ ~ (index.scopes[s].kind = "Class" /\ s # from)}]
           n == Len(index.scopes)
           m == Len(index.symbols)
           Old(s) == Climb(index, s, seen)
           New(s) == Climb(index, s, found)
           Misread(i) == i # 0 /\ SymbolName(i) # index.symbols[i].name
           Agree(s) == \/ New(s) = Old(s) \/ New(s) > ref.seen
                       \/ Misread(New(s)) \/ Misread(Old(s))
<1>1. /\ index \in Index /\ Rooted(index) /\ IndexOK(index)
      /\ n \in Nat /\ DOMAIN index.scopes = 1 .. n
      /\ m \in Nat /\ DOMAIN index.symbols = 1 .. m
  BY GoodParts, IndexParts DEF IInv
<1>2. /\ ReferenceOK(index, ref) /\ from \in DOMAIN index.scopes /\ ref.seen \in Nat
      /\ ref.resolved = Old(from)
  BY <1>1, IndexParts DEF IndexOK, ReferenceOK, Reference
<1>3. OwnedResolveName(ref.name, from) = New(from)
  BY DEF OwnedResolveName
<1> HIDE DEF ref, from, n, m
<1>4. /\ DOMAIN seen = DOMAIN index.scopes
      /\ \A s \in DOMAIN index.scopes :
           /\ seen[s] \subseteq 1 .. m
           /\ \A i \in seen[s] : index.symbols[i].name = ref.name /\ i <= ref.seen
           /\ \A i \in 1 .. m :
                (/\ index.symbols[i].scope = s /\ index.symbols[i].name = ref.name
                 /\ i <= ref.seen /\ ~ (index.scopes[s].kind = "Class" /\ s # from)) => i \in seen[s]
           /\ \A i \in seen[s] : /\ index.symbols[i].scope = s
                                 /\ ~ (index.scopes[s].kind = "Class" /\ s # from)
  BY <1>1 DEF Seen, Named, SymbolsOf, Symbols, from
<1>5. /\ DOMAIN found = DOMAIN index.scopes
      /\ \A s \in DOMAIN index.scopes :
           /\ found[s] \subseteq 1 .. m
           /\ \A i \in found[s] : /\ SymbolName(i) = ref.name /\ index.symbols[i].scope = s
                                  /\ ~ (index.scopes[s].kind = "Class" /\ s # from)
           /\ \A i \in 1 .. m :
                (/\ index.symbols[i].scope = s /\ SymbolName(i) = ref.name
                 /\ ~ (index.scopes[s].kind = "Class" /\ s # from)) => i \in found[s]
  BY <1>1 DEF SymbolsOf, Symbols
<1> HIDE DEF seen, found
<1>6. ASSUME NEW s \in DOMAIN index.scopes
      PROVE  /\ Old(s) = IF seen[s] # {} THEN Min(seen[s])
                         ELSE IF s = ROOT THEN 0 ELSE Old(Parent(index, s))
             /\ New(s) = IF found[s] # {} THEN Min(found[s])
                         ELSE IF s = ROOT THEN 0 ELSE New(Parent(index, s))
             /\ seen[s] # {} => Min(seen[s]) \in seen[s] /\ \A i \in seen[s] : Min(seen[s]) <= i
             /\ found[s] # {} =>
                  Min(found[s]) \in found[s] /\ \A i \in found[s] : Min(found[s]) <= i
  <2>1. seen[s] \subseteq Nat /\ found[s] \subseteq Nat
    BY <1>1, <1>4, <1>5
  <2>2. seen[s] # {} => Min(seen[s]) \in seen[s] /\ \A i \in seen[s] : Min(seen[s]) <= i
    BY <2>1, LeastOf
  <2>3. found[s] # {} =>
          Min(found[s]) \in found[s] /\ \A i \in found[s] : Min(found[s]) <= i
    BY <2>1, LeastOf
  <2>4. Old(s) = IF seen[s] # {} THEN Min(seen[s])
                 ELSE IF s = ROOT THEN 0 ELSE Old(Parent(index, s))
    BY <1>1, <1>4, ClimbDef
  <2>5. New(s) = IF found[s] # {} THEN Min(found[s])
                 ELSE IF s = ROOT THEN 0 ELSE New(Parent(index, s))
    BY <1>1, <1>5, ClimbDef
  <2> QED BY <2>2, <2>3, <2>4, <2>5
<1> HIDE DEF Old, New
<1>7. ASSUME NEW s \in DOMAIN index.scopes,
             s # ROOT => Agree(Parent(index, s))
      PROVE  Agree(s)
  <2>1. CASE found[s] = {} /\ seen[s] = {}
    BY <1>6, <1>7, <2>1
  <2>2. CASE found[s] = {} /\ seen[s] # {}
    <3> DEFINE g == Min(seen[s])
    <3>1. Old(s) = g /\ g \in seen[s]
      BY <1>6, <2>2
    <3> HIDE DEF g
    <3>2. g \in 1 .. m /\ index.symbols[g].name = ref.name /\ SymbolName(g) # ref.name
      BY <1>4, <1>5, <2>2, <3>1
    <3>3. Misread(Old(s))
      BY <1>1, <3>1, <3>2
    <3> QED BY <3>3
  <2>3. CASE found[s] # {}
    <3> DEFINE a == Min(found[s])
               g == Min(seen[s])
    <3>1. /\ New(s) = a /\ a \in found[s] /\ \A i \in found[s] : a <= i
          /\ seen[s] # {} => Old(s) = g /\ g \in seen[s] /\ \A i \in seen[s] : g <= i
      BY <1>6, <2>3
    <3> HIDE DEF a, g
    <3>2. a \in 1 .. m /\ SymbolName(a) = ref.name /\ index.symbols[a].scope = s
      BY <1>5, <3>1
    <3>3. CASE index.symbols[a].name # ref.name
      <4>1. Misread(New(s))
        BY <1>1, <3>1, <3>2, <3>3
      <4> QED BY <4>1
    <3>4. CASE a > ref.seen
      BY <3>1, <3>4
    <3>5. CASE index.symbols[a].name = ref.name /\ a <= ref.seen
      <4>1. a \in seen[s]
        BY <1>4, <1>5, <3>1, <3>2, <3>5
      <4>2. Old(s) = g /\ g \in seen[s] /\ g <= a
        BY <3>1, <4>1
      <4>3. g \in 1 .. m /\ index.symbols[g].name = ref.name /\ index.symbols[g].scope = s
        BY <1>4, <4>2
      <4>4. CASE g = a
        BY <3>1, <4>2, <4>4
      <4>5. CASE g # a
        <5>1. g \notin found[s]
          BY <1>1, <3>1, <3>2, <4>2, <4>3, <4>5
        <5>2. SymbolName(g) # ref.name
          BY <1>4, <1>5, <4>2, <4>3, <5>1
        <5>3. Misread(Old(s))
          BY <1>1, <4>2, <4>3, <5>2
        <5> QED BY <5>3
      <4> QED BY <4>4, <4>5
    <3>6. a > ref.seen \/ a <= ref.seen
      BY <1>1, <1>2, <3>2
    <3> QED BY <3>3, <3>4, <3>5, <3>6
  <2> QED BY <2>1, <2>2, <2>3
<1> HIDE DEF Agree
<1> DEFINE S == {k \in 0 .. n : \A s \in 1 .. k : Agree(s)}
<1>8. 0 \in S
  BY <1>1
<1>9. ASSUME NEW k \in 0 .. n - 1, k \in S PROVE k + 1 \in S
  <2>1. k + 1 \in 1 .. n /\ k + 1 \in 0 .. n
    BY <1>1
  <2>2. Agree(k + 1)
    <3> DEFINE s == k + 1
    <3>1. s \in DOMAIN index.scopes
      BY <1>1, <2>1
    <3>2. s # ROOT => Parent(index, s) \in 1 .. k
      <4>1. /\ Parent(index, s) < s
            /\ s # ROOT => Parent(index, s) \in 1 .. n
        BY <1>1, <3>1, ParentAbove DEF Rooted
      <4> QED BY <4>1
    <3>3. s # ROOT => Agree(Parent(index, s))
      BY <1>9, <3>2
    <3> HIDE DEF s
    <3>4. Agree(s)
      BY <1>7, <3>1, <3>3
    <3> QED BY <3>4 DEF s
  <2>3. \A s \in 1 .. k + 1 : s \in 1 .. k \/ s = k + 1
    OBVIOUS
  <2> QED BY <1>9, <2>1, <2>2, <2>3
<1>10. Agree(from)
  <2>1. \A k \in 0 .. n : k \in S
    <3> HIDE DEF S
    <3> QED BY <1>1, <1>8, <1>9, Upwards
  <2>2. n \in S
    BY <1>1, <2>1
  <2> QED BY <1>1, <1>2, <2>2
<1>11. \/ New(from) = Old(from) \/ New(from) > ref.seen
       \/ \E i \in {New(from), Old(from)} \ {0} : SymbolName(i) # index.symbols[i].name
  BY <1>10 DEF Agree
<1>12. OwnedResolveName(ref.name, ref.scope) = New(from) /\ ref.resolved = Old(from)
  BY <1>2, <1>3 DEF from
<1> HIDE DEF New, Old
<1>13. \/ OwnedResolveName(ref.name, ref.scope) = ref.resolved
       \/ OwnedResolveName(ref.name, ref.scope) > ref.seen
       \/ \E i \in {OwnedResolveName(ref.name, ref.scope), ref.resolved} \ {0} :
            SymbolName(i) # index.symbols[i].name
  BY <1>11, <1>12
<1> QED BY <1>13 DEF ref
-------------------------------------------------------------------------------
(***************************************************************************)
(* PositionalIndex: the search finds an innermost entry in every table,    *)
(* however long, at every offset.                                          *)
(***************************************************************************)
TableOK == /\ entries \in Seq(Entry) /\ offset \in Nat
           /\ SortedByStart(entries)
           /\ \A i \in 1 .. Len(entries) : entries[i].index > 0
CursorOK == /\ search \in {"idle", "scanning", "done"}
            /\ cursor \in 0 .. Len(entries)
BestOK == best = None \/ \E i \in 1 .. Len(entries) : best = entries[i] /\ Covers(best)

\* What the scan has passed is later than the offset, or does not contain it,
\* or is no narrower than the best.
Passed == \A i \in cursor + 1 .. Len(entries) :
            Covers(entries[i]) => best # None /\ Width(best) <= Width(entries[i])
Ahead == search = "scanning" => \A i \in 1 .. cursor : entries[i].start <= offset

SearchInv == TableOK /\ CursorOK /\ BestOK /\ Passed /\ Ahead /\ FindsInnermost

LEMMA InitSearch == SearchInit => SearchInv
  BY DEF SearchInit, SearchInv, TableOK, CursorOK, BestOK, Passed, Ahead,
         FindsInnermost, SortedByStart, Entry

LEMMA BeginSearch ==
  ASSUME NEW es \in Seq(Entry), NEW o \in Nat, SortedByStart(es),
         \A i \in 1 .. Len(es) : es[i].index > 0, Begin(es, o)
  PROVE  SearchInv'
<1>1. PICK k \in 0 .. Len(es) : IsPartition(es, o, k) /\ cursor' = k
  BY DEF Begin
<1>2. TableOK' /\ CursorOK' /\ BestOK' /\ FindsInnermost'
  BY <1>1 DEF Begin, TableOK, CursorOK, BestOK, FindsInnermost, SortedByStart
<1>3. Passed' /\ Ahead'
  <2>1. \A i \in k + 1 .. Len(es) : ~ (es[i].start <= o)
    <3> SUFFICES ASSUME NEW i \in k + 1 .. Len(es) PROVE ~ (es[i].start <= o)
      OBVIOUS
    <3>1. i \in 1 .. Len(es) /\ es[i] \in Entry
      OBVIOUS
    <3> QED BY <1>1, <3>1 DEF IsPartition, Entry
  <2> QED BY <1>1, <2>1 DEF Begin, Passed, Ahead, Covers, IsPartition
<1> QED BY <1>2, <1>3 DEF SearchInv

LEMMA LookSearch == SearchInv /\ Look => SearchInv'
<1> SUFFICES ASSUME SearchInv, Look PROVE SearchInv'
  OBVIOUS
<1> DEFINE e == entries[cursor]
<1>1. cursor \in 1 .. Len(entries) /\ e \in Entry /\ e.start <= offset
  BY DEF SearchInv, TableOK, CursorOK, Ahead, Look
<1>2. TableOK' /\ CursorOK' /\ Ahead' /\ FindsInnermost'
  BY <1>1 DEF SearchInv, TableOK, CursorOK, Ahead, Look, FindsInnermost, SortedByStart
<1>3. None # e
  BY <1>1 DEF SearchInv, TableOK, None
<1>4. BestOK'
  BY <1>1 DEF SearchInv, BestOK, Look, Improves, Covers, Entry
<1>5. Passed'
  <2> SUFFICES ASSUME NEW i \in cursor .. Len(entries), Covers(entries[i])
               PROVE  best' # None /\ Width(best') <= Width(entries[i])
    BY <1>1 DEF Passed, Look, Covers, Width
  <2>1. entries[i] \in Entry
    BY <1>1 DEF SearchInv, TableOK
  <2>2. best = None \/ best \in Entry
    BY DEF SearchInv, BestOK, TableOK
  <2>3. CASE i = cursor
    BY <1>1, <1>3, <2>1, <2>2, <2>3 DEF Look, Improves, Covers, Width, Entry
  <2>4. CASE i # cursor
    <3>1. best # None /\ Width(best) <= Width(entries[i])
      BY <1>1, <2>4 DEF SearchInv, Passed
    <3> QED BY <1>1, <1>3, <2>1, <2>2, <3>1, SMTT(20) DEF Look, Improves, Width, Entry
  <2> QED BY <2>3, <2>4
<1> QED BY <1>2, <1>4, <1>5 DEF SearchInv

LEMMA FinishSearch == SearchInv /\ Finish => SearchInv'
<1> SUFFICES ASSUME SearchInv, Finish PROVE SearchInv'
  OBVIOUS
<1>1. TableOK' /\ CursorOK' /\ BestOK' /\ Passed' /\ Ahead'
  BY DEF SearchInv, TableOK, CursorOK, BestOK, Passed, Ahead, Finish, SortedByStart,
         Covers, Width
<1>2. ASSUME NEW i \in 1 .. Len(entries), Covers(entries[i])
      PROVE  best # None /\ Width(best) <= Width(entries[i])
  <2>1. entries[i] \in Entry
    BY DEF SearchInv, TableOK
  <2>2. CASE i > cursor
    BY <1>2, <2>2 DEF SearchInv, Passed, CursorOK
  <2>3. CASE i <= cursor
    <3>1. cursor \in 1 .. Len(entries) /\ entries[cursor] \in Entry
      BY <2>3 DEF SearchInv, CursorOK, TableOK
    <3>2. best # None /\ offset - entries[cursor].start >= Width(best)
      BY <3>1 DEF Finish, TooFar
    <3>3. best \in Entry
      BY <3>2 DEF SearchInv, BestOK, TableOK
    <3>4. entries[i].start <= entries[cursor].start
      <4>1. \A j, k \in 1 .. Len(entries) : j < k => entries[j].start <= entries[k].start
        BY DEF SearchInv, TableOK, SortedByStart
      <4>2. entries[i].start \in Nat /\ i \in Nat /\ cursor \in Nat
        BY <2>1, <3>1 DEF Entry
      <4> QED BY <2>3, <3>1, <4>1, <4>2
    <3>5. offset \in Nat
      BY DEF SearchInv, TableOK
    <3> QED BY <1>2, <2>1, <3>1, <3>2, <3>3, <3>4, <3>5, SMTT(20) DEF Covers, Width, Entry
  <2> QED BY <2>2, <2>3 DEF SearchInv, CursorOK
<1>3. FindsInnermost'
  BY <1>2 DEF SearchInv, BestOK, Finish, FindsInnermost, Covers, Width
<1> QED BY <1>1, <1>3 DEF SearchInv

LEMMA StutterSearch == SearchInv /\ UNCHANGED searchVars => SearchInv'
  BY DEF SearchInv, TableOK, CursorOK, BestOK, Passed, Ahead, FindsInnermost,
         SortedByStart, Covers, Width, searchVars

(***************************************************************************)
(* Whatever the table, PositionalIndex::find_innermost finds an innermost  *)
(* entry, though it stops at the first entry that starts too far before    *)
(* the offset.                                                             *)
(***************************************************************************)
THEOREM SearchFindsInnermost == SearchSpec => []FindsInnermost
<1>1. SearchInv /\ [BeginAny \/ Scan]_searchVars => SearchInv'
  BY BeginSearch, LookSearch, FinishSearch, StutterSearch DEF BeginAny, Scan
<1>2. SearchInv => FindsInnermost
  BY DEF SearchInv
<1> QED BY InitSearch, <1>1, <1>2, PTL DEF SearchSpec
-------------------------------------------------------------------------------
(***************************************************************************)
(* The places of a stretch at which names are used, and those at which     *)
(* they are bound: what a visit adds lies at the ones and the others.      *)
(***************************************************************************)
UseAt(ref, U) == ref.range.start \in U /\ ref.range.end = ref.range.start + 1
BoundAt(symbol, D) == /\ symbol.selection.start \in D
                      /\ symbol.selection.end = symbol.selection.start + 1
                      /\ symbol.range.start = symbol.selection.start

Listed(ix) == /\ "symbols" \in DOMAIN ix /\ "references" \in DOMAIN ix
              /\ \E S : ix.symbols \in Seq(S)
              /\ \E S : ix.references \in Seq(S)

Marks(ix, jx, U, D) ==
  /\ Listed(jx)
  /\ \A i \in DOMAIN jx.symbols :
       \/ i \in DOMAIN ix.symbols /\ jx.symbols[i] = ix.symbols[i]
       \/ BoundAt(jx.symbols[i], D)
  /\ \A r \in DOMAIN jx.references :
       \/ r \in DOMAIN ix.references /\ jx.references[r] = ix.references[r]
       \/ UseAt(jx.references[r], U)

\* In a stretch, with no place of both kinds.
MarksApart(ix, jx, lo, hi) ==
  \E U, D \in SUBSET (lo .. hi - 1) : U \cap D = {} /\ Marks(ix, jx, U, D)

LEMMA IndexListed == \A ix \in Index : Listed(ix)
<1> SUFFICES ASSUME NEW ix \in Index PROVE Listed(ix)
  OBVIOUS
<1>1. "symbols" \in DOMAIN ix /\ "references" \in DOMAIN ix
  BY DEF Index
<1>2. ix.symbols \in Seq(Symbol) /\ ix.references \in Seq(Reference)
  BY DEF Index
<1> QED BY <1>1, <1>2 DEF Listed

LEMMA OneMore ==
  ASSUME NEW q, NEW S, q \in Seq(S), NEW x
  PROVE  /\ \E T : Append(q, x) \in Seq(T)
         /\ \A i \in DOMAIN Append(q, x) :
              \/ i \in DOMAIN q /\ Append(q, x)[i] = q[i]
              \/ Append(q, x)[i] = x
<1> DEFINE T == S \cup {x}
<1>1. q \in Seq(T) /\ x \in T
  <2>1. S \subseteq T /\ x \in T
    OBVIOUS
  <2> HIDE DEF T
  <2> QED BY <2>1
<1> HIDE DEF T
<1> DEFINE r == Append(q, x)
<1>2. /\ r \in Seq(T) /\ Len(q) \in Nat
      /\ DOMAIN q = 1 .. Len(q) /\ DOMAIN r = 1 .. Len(q) + 1
      /\ r[Len(q) + 1] = x /\ \A i \in 1 .. Len(q) : r[i] = q[i]
  BY <1>1, Appended
<1> HIDE DEF r
<1>3. ASSUME NEW i \in DOMAIN r PROVE (i \in DOMAIN q /\ r[i] = q[i]) \/ r[i] = x
  BY <1>2
<1> QED BY <1>2, <1>3 DEF r

LEMMA MarksNothing ==
  ASSUME NEW ix, Listed(ix), NEW U, NEW D
  PROVE  Marks(ix, ix, U, D)
BY DEF Marks

LEMMA MarksWider ==
  ASSUME NEW ix, NEW jx, NEW U, NEW D, NEW W, NEW F,
         Marks(ix, jx, U, D), U \subseteq W, D \subseteq F
  PROVE  Marks(ix, jx, W, F)
<1>1. /\ \A symbol : BoundAt(symbol, D) => BoundAt(symbol, F)
      /\ \A ref : UseAt(ref, U) => UseAt(ref, W)
  BY DEF BoundAt, UseAt
<1> QED BY <1>1 DEF Marks

LEMMA MarksOn ==
  ASSUME NEW ix, NEW jx, NEW kx, NEW U, NEW D, Marks(ix, jx, U, D), Marks(jx, kx, U, D)
  PROVE  Marks(ix, kx, U, D)
<1>1. ASSUME NEW i \in DOMAIN kx.symbols
      PROVE  \/ i \in DOMAIN ix.symbols /\ kx.symbols[i] = ix.symbols[i]
             \/ BoundAt(kx.symbols[i], D)
  BY DEF Marks
<1>2. ASSUME NEW r \in DOMAIN kx.references
      PROVE  \/ r \in DOMAIN ix.references /\ kx.references[r] = ix.references[r]
             \/ UseAt(kx.references[r], U)
  BY DEF Marks
<1> QED BY <1>1, <1>2 DEF Marks

LEMMA ApartOn ==
  ASSUME NEW ix, NEW jx, NEW kx, NEW a \in Nat, NEW b \in Nat, NEW c \in Nat, NEW d \in Nat,
         MarksApart(ix, jx, a, b), MarksApart(jx, kx, c, d), b <= c \/ d <= a,
         NEW lo \in Nat, NEW hi \in Nat, lo <= a, lo <= c, b <= hi, d <= hi
  PROVE  MarksApart(ix, kx, lo, hi)
<1>1. PICK U \in SUBSET (a .. b - 1), D \in SUBSET (a .. b - 1) :
        U \cap D = {} /\ Marks(ix, jx, U, D)
  BY DEF MarksApart
<1>2. PICK V \in SUBSET (c .. d - 1), E \in SUBSET (c .. d - 1) :
        V \cap E = {} /\ Marks(jx, kx, V, E)
  BY DEF MarksApart
<1> DEFINE W == U \cup V
           F == D \cup E
<1>3. W \in SUBSET (lo .. hi - 1) /\ F \in SUBSET (lo .. hi - 1)
  <2>1. a .. b - 1 \subseteq lo .. hi - 1 /\ c .. d - 1 \subseteq lo .. hi - 1
    OBVIOUS
  <2> QED BY <2>1
<1>4. W \cap F = {}
  <2>1. (a .. b - 1) \cap (c .. d - 1) = {}
    OBVIOUS
  <2> QED BY <1>1, <1>2, <2>1
<1>5. U \subseteq W /\ V \subseteq W /\ D \subseteq F /\ E \subseteq F
  OBVIOUS
<1> HIDE DEF W, F
<1>6. Marks(ix, kx, W, F)
  <2>1. Marks(ix, jx, W, F)
    BY <1>1, <1>5, MarksWider
  <2>2. Marks(jx, kx, W, F)
    BY <1>2, <1>5, MarksWider
  <2> QED BY <2>1, <2>2, MarksOn
<1> QED BY <1>3, <1>4, <1>6 DEF MarksApart

LEMMA ApartWider ==
  ASSUME NEW ix, NEW jx, NEW a \in Nat, NEW b \in Nat, MarksApart(ix, jx, a, b),
         NEW lo \in Nat, NEW hi \in Nat, lo <= a, b <= hi
  PROVE  MarksApart(ix, jx, lo, hi)
<1>1. a .. b - 1 \subseteq lo .. hi - 1
  OBVIOUS
<1> QED BY <1>1 DEF MarksApart
-------------------------------------------------------------------------------
LEMMA SymbolMarks ==
  ASSUME NEW ix, Listed(ix), NEW name, NEW kind, NEW at, NEW range, range.start = at,
         NEW U, NEW D, at \in D
  PROVE  Marks(ix, AddSymbol(ix, name, kind, range, Whole(at, at + 1)), U, D)
<1> DEFINE new == [name |-> name, kind |-> kind, range |-> range,
                   selection |-> Whole(at, at + 1), scope |-> ix.current]
           jx == AddSymbol(ix, name, kind, range, Whole(at, at + 1))
<1>1. BoundAt(new, D)
  BY DEF BoundAt, Whole
<1>2. jx = [ix EXCEPT !.symbols = Append(@, new)]
  BY DEF AddSymbol
<1> HIDE DEF jx, new
<1>3. /\ jx.symbols = Append(ix.symbols, new) /\ jx.references = ix.references
      /\ DOMAIN jx = DOMAIN ix
  BY <1>2 DEF Listed
<1>4. PICK S : ix.symbols \in Seq(S)
  BY DEF Listed
<1>5. /\ \E T : jx.symbols \in Seq(T)
      /\ \A i \in DOMAIN jx.symbols :
           (i \in DOMAIN ix.symbols /\ jx.symbols[i] = ix.symbols[i]) \/ jx.symbols[i] = new
  <2> DEFINE q == ix.symbols
  <2>1. q \in Seq(S) /\ jx.symbols = Append(q, new)
    BY <1>3, <1>4
  <2> HIDE DEF q
  <2>2. /\ \E T : Append(q, new) \in Seq(T)
        /\ \A i \in DOMAIN Append(q, new) :
             (i \in DOMAIN q /\ Append(q, new)[i] = q[i]) \/ Append(q, new)[i] = new
    BY <2>1, OneMore
  <2> QED BY <2>1, <2>2 DEF q
<1>6. Listed(jx)
  BY <1>3, <1>5 DEF Listed
<1> QED BY <1>1, <1>3, <1>5, <1>6 DEF Marks, jx

LEMMA ReferenceMarks ==
  ASSUME NEW ix, Listed(ix), NEW name, NEW at, NEW U, NEW D, name = Missing \/ at \in U
  PROVE  Marks(ix, AddReference(ix, name, at), U, D)
<1>1. CASE name = Missing
  <2>1. AddReference(ix, name, at) = ix
    BY <1>1 DEF AddReference
  <2> QED BY <2>1, MarksNothing
<1>2. CASE name # Missing
  <2> DEFINE to == ResolveName(ix, name, ix.current)
             new == [name |-> name, range |-> Span(at, at + 1), resolved |-> to,
                     scope |-> ix.current, seen |-> Len(ix.symbols),
                     entered |-> Len(ix.scopes)]
             jx == AddReference(ix, name, at)
  <2>1. jx = [ix EXCEPT !.references = Append(@, new)]
    BY <1>2 DEF AddReference
  <2> HIDE DEF to, jx
  <2>2. UseAt(new, U)
    BY <1>2 DEF UseAt, Span
  <2> HIDE DEF new
  <2>3. /\ jx.references = Append(ix.references, new) /\ jx.symbols = ix.symbols
        /\ DOMAIN jx = DOMAIN ix
    BY <2>1 DEF Listed
  <2>4. PICK S : ix.references \in Seq(S)
    BY DEF Listed
  <2>5. /\ \E T : jx.references \in Seq(T)
        /\ \A r \in DOMAIN jx.references :
             \/ r \in DOMAIN ix.references /\ jx.references[r] = ix.references[r]
             \/ jx.references[r] = new
    <3> DEFINE q == ix.references
    <3>1. q \in Seq(S) /\ jx.references = Append(q, new)
      BY <2>3, <2>4
    <3> HIDE DEF q
    <3>2. /\ \E T : Append(q, new) \in Seq(T)
          /\ \A r \in DOMAIN Append(q, new) :
               (r \in DOMAIN q /\ Append(q, new)[r] = q[r]) \/ Append(q, new)[r] = new
      BY <3>1, OneMore
    <3> QED BY <3>1, <3>2 DEF q
  <2>6. Listed(jx)
    BY <2>3, <2>5 DEF Listed
  <2> QED BY <2>2, <2>3, <2>5, <2>6 DEF Marks, jx
<1> QED BY <1>1, <1>2

LEMMA AssignMarks ==
  ASSUME NEW ix, Listed(ix), NEW name, NEW at, NEW U, NEW D, name = Missing \/ at \in D
  PROVE  Marks(ix, AssignName(ix, name, at), U, D)
<1> DEFINE jx == AssignName(ix, name, at)
           kx == AddSymbol(ix, name, "Variable", Span(at, at + 1), Whole(at, at + 1))
           has == LET to == ResolveName(ix, name, ix.current)
                  IN  to # 0 /\ ix.symbols[to].scope = ix.current
<1>1. jx = ix \/ (name # Missing /\ jx = kx)
  <2>1. CASE name = Missing \/ has
    BY <2>1 DEF AssignName
  <2>2. CASE ~ (name = Missing \/ has)
    BY <2>2 DEF AssignName
  <2> QED BY <2>1, <2>2
<1> HIDE DEF jx
<1>2. CASE jx = ix
  BY <1>2, MarksNothing DEF jx
<1>3. CASE name # Missing /\ jx = kx
  <2>1. Span(at, at + 1).start = at /\ at \in D
    BY <1>3 DEF Span
  <2>2. Marks(ix, kx, U, D)
    BY <2>1, SymbolMarks
  <2> QED BY <1>3, <2>2 DEF jx
<1> QED BY <1>1, <1>2, <1>3

LEMMA ParameterMarks ==
  ASSUME NEW ix, Listed(ix), NEW name, NEW at, NEW end, NEW U, NEW D, at \in D
  PROVE  Marks(ix, AddParameter(ix, name, at, end), U, D)
<1> DEFINE range == Span(at, end)
<1>1. range.start = at
  BY DEF Span
<1>2. AddParameter(ix, name, at, end)
        = AddSymbol(ix, name, "Parameter", range, Whole(at, at + 1))
  BY DEF AddParameter
<1> HIDE DEF range
<1> QED BY <1>1, <1>2, SymbolMarks

\* A step of a visit uses and binds at places of the one and the other kind.
StepAt(step, U, D) ==
  \/ step.op = "reference" /\ (step.name = Missing \/ step.at \in U)
  \/ step.op = "target" /\ (step.name = Missing \/ step.at \in D)
  \/ step.op = "parameter" /\ step.at \in D

StepsAt(steps, U, D) == /\ Len(steps) \in Nat
                        /\ \A k \in 1 .. Len(steps) : StepAt(steps[k], U, D)

LEMMA DoMarks ==
  ASSUME NEW ix, Listed(ix), NEW step, NEW U, NEW D, StepAt(step, U, D)
  PROVE  Marks(ix, Do(ix, step), U, D)
<1>1. CASE step.op = "reference"
  <2>1. Do(ix, step) = AddReference(ix, step.name, step.at)
    BY <1>1 DEF Do
  <2> QED BY <1>1, <2>1, ReferenceMarks DEF StepAt
<1>2. CASE step.op = "target"
  <2>1. Do(ix, step) = AssignName(ix, step.name, step.at)
    BY <1>2 DEF Do
  <2> QED BY <1>2, <2>1, AssignMarks DEF StepAt
<1>3. CASE step.op = "parameter"
  <2> DEFINE end == step.at + 2
  <2>1. Do(ix, step) = AddParameter(ix, step.name, step.at, end)
    BY <1>3 DEF Do
  <2> HIDE DEF end
  <2> QED BY <1>3, <2>1, ParameterMarks DEF StepAt
<1> QED BY <1>1, <1>2, <1>3 DEF StepAt

\* A run of visits, each of which marks alike.
LEMMA RunMarks ==
  ASSUME NEW n \in Nat, NEW g, NEW U, NEW D, Listed(g[0]),
         \A k \in 1 .. n : Listed(g[k - 1]) => Marks(g[k - 1], g[k], U, D)
  PROVE  Marks(g[0], g[n], U, D)
<1> DEFINE S == {k \in 0 .. n : Marks(g[0], g[k], U, D)}
<1>1. 0 \in S
  BY MarksNothing
<1>2. ASSUME NEW k \in 0 .. n - 1, k \in S PROVE k + 1 \in S
  <2>1. k + 1 \in 1 .. n /\ k + 1 \in 0 .. n /\ (k + 1) - 1 = k
    OBVIOUS
  <2>2. Marks(g[0], g[k], U, D) /\ Listed(g[k])
    BY <1>2 DEF Marks
  <2>3. Marks(g[k], g[k + 1], U, D)
    BY <2>1, <2>2
  <2>4. Marks(g[0], g[k + 1], U, D)
    BY <2>2, <2>3, MarksOn
  <2> QED BY <2>1, <2>4
<1>3. n \in S
  <2> HIDE DEF S
  <2>1. \A k \in 0 .. n : k \in S
    BY <1>1, <1>2, Upwards
  <2> QED BY <2>1
<1> QED BY <1>3

LEMMA VisitMarks ==
  ASSUME NEW ix, Listed(ix), NEW steps, NEW U, NEW D, StepsAt(steps, U, D)
  PROVE  Marks(ix, Visit(ix, steps), U, D)
<1> DEFINE n == Len(steps)
<1>1. n \in Nat /\ \A k \in 1 .. n : StepAt(steps[k], U, D)
  BY DEF StepsAt
<1>2. PICK g : /\ g[0] = ix /\ Visit(ix, steps) = g[n]
               /\ \A k \in 1 .. n : g[k] = Do(g[k - 1], steps[k])
  <2>1. Len(steps) \in Nat
    BY DEF StepsAt
  <2>2. PICK g : /\ g[0] = ix /\ Visit(ix, steps) = g[Len(steps)]
                 /\ \A k \in 1 .. Len(steps) : g[k] = Do(g[k - 1], steps[k])
    BY <2>1, VisitRuns
  <2> WITNESS g
  <2> QED BY <2>2
<1> HIDE DEF n
<1>3. \A k \in 1 .. n : Listed(g[k - 1]) => Marks(g[k - 1], g[k], U, D)
  BY <1>1, <1>2, DoMarks
<1> QED BY <1>1, <1>2, <1>3, RunMarks
-------------------------------------------------------------------------------
\* Entering and leaving a scope marks nothing.
LEMMA ScopeMarks ==
  ASSUME NEW ix, Listed(ix), NEW kind, NEW range
  PROVE  LET sx == AddScope(ix, kind, range)
         IN  /\ Listed(sx)
             /\ \A jx, U, D : Marks(sx, jx, U, D) =>
                  Marks(ix, jx, U, D) /\ Marks(ix, Leave(jx), U, D)
<1> DEFINE sx == AddScope(ix, kind, range)
<1>1. sx.symbols = ix.symbols /\ sx.references = ix.references /\ DOMAIN sx = DOMAIN ix
  BY DEF AddScope, Listed
<1> HIDE DEF sx
<1>2. Listed(sx)
  BY <1>1 DEF Listed
<1>3. ASSUME NEW jx, NEW U, NEW D, Marks(sx, jx, U, D)
      PROVE  Marks(ix, jx, U, D) /\ Marks(ix, Leave(jx), U, D)
  <2> DEFINE lx == Leave(jx)
  <2>1. /\ lx.symbols = jx.symbols /\ lx.references = jx.references
        /\ DOMAIN lx = DOMAIN jx
    BY <1>3 DEF Leave, Marks, Listed
  <2> HIDE DEF lx
  <2>2. Listed(lx)
    BY <1>3, <2>1 DEF Marks, Listed
  <2>3. Marks(ix, jx, U, D)
    BY <1>1, <1>3 DEF Marks
  <2>4. Marks(ix, lx, U, D)
    BY <2>1, <2>2, <2>3 DEF Marks
  <2> QED BY <2>3, <2>4 DEF lx
<1> QED BY <1>2, <1>3 DEF sx

LEMMA StepPlaces ==
  ASSUME NEW U, NEW D, NEW at
  PROVE  /\ \A name : at \in U => StepAt(Ref(name, at), U, D)
         /\ \A name : at \in D => StepAt(Bind(name, at), U, D)
         /\ \A name : at \in D => StepAt(Param(name, at), U, D)
         /\ StepAt(Ref(Missing, at), U, D)
<1>1. ASSUME NEW name, at \in U PROVE StepAt(Ref(name, at), U, D)
  BY <1>1 DEF StepAt, Ref
<1>2. ASSUME NEW name, at \in D PROVE StepAt(Bind(name, at), U, D)
  BY <1>2 DEF StepAt, Bind
<1>3. StepAt(Ref(Missing, at), U, D)
  BY DEF StepAt, Ref
<1>4. ASSUME NEW name, at \in D PROVE StepAt(Param(name, at), U, D)
  BY <1>4 DEF StepAt, Param
<1> QED BY <1>1, <1>2, <1>3, <1>4

\* The places an expression binds names at; all others of its words are uses.
Bound(e, at) == IF e.form \in {"walrus", "lambda"} THEN {at}
                ELSE IF e.form = "comprehension" THEN {at + 1} ELSE {}

LEMMA BoundWithin ==
  ASSUME ScopeIndexAssumption, NEW e \in Expression, NEW at \in Nat, NEW hi \in Nat,
         hi = at + Len(Words(e))
  PROVE  Bound(e, at) \subseteq at .. hi - 1
<1>1. /\ e.form \in {"walrus", "lambda"} => hi >= at + 1
      /\ e.form = "comprehension" => hi >= at + 2
  <2> DEFINE n == Len(Words(e))
  <2>1. n \in Nat /\ (e.form \in DOMAIN Arity /\ e.form # "uses" => n = Arity[e.form])
    BY ExpressionParts
  <2>2. /\ e.form = "walrus" => n = 2
        /\ e.form = "lambda" => n = 3
        /\ e.form = "comprehension" => n = 4
    BY <2>1, Arities
  <2> HIDE DEF n
  <2>3. hi = at + n
    BY DEF n
  <2> QED BY <2>1, <2>2, <2>3
<1> QED BY <1>1 DEF Bound

LEMMA ExprMarks ==
  ASSUME ScopeIndexAssumption, NEW ix, Listed(ix), NEW e \in Expression, NEW at \in Nat,
         NEW hi \in Nat, hi = at + Len(Words(e)), NEW U, NEW D,
         Bound(e, at) \subseteq D, (at .. hi - 1) \ Bound(e, at) \subseteq U
  PROVE  Marks(ix, VisitExpr(ix, e, at), U, D)
<1> DEFINE n == e.names
           R(i, place) == Ref(n[i], at + place)
           B == Bound(e, at)
<1>1. /\ Len(n) \in Nat /\ DOMAIN n = 1 .. Len(n) /\ Len(Words(e)) \in Nat
      /\ e.form \in DOMAIN Arity \cup {"uses", "tuple"}
      /\ \A i \in DOMAIN n : /\ n[i] \in Names \cup {Missing}
                             /\ n[i] # Missing => i <= Len(Words(e))
      /\ e.form # "uses" => /\ Len(Words(e)) = Len(n)
                            /\ \A i \in DOMAIN n : n[i] \in Names
      /\ e.form \in DOMAIN Arity => Len(n) = Arity[e.form]
  BY ExpressionParts
<1>2. /\ e.form \in {"walrus", "lambda"} => B = {at}
      /\ e.form = "comprehension" => B = {at + 1}
      /\ e.form \notin {"walrus", "lambda", "comprehension"} => B = {}
  BY DEF Bound
<1>3. B \subseteq D /\ \A x \in at .. hi - 1 : x \in U \/ x \in B
  OBVIOUS
<1> HIDE DEF n, B
<1>4. CASE e.form = "choice"
  <2> DEFINE steps == <<R(2, 1), R(1, 0), R(3, 2)>>
  <2>1. hi = at + 3
    BY <1>1, <1>4, Arities
  <2>2. VisitExpr(ix, e, at) = Visit(ix, steps)
    BY <1>4 DEF VisitExpr, n
  <2>3. at + 1 \in U /\ at + 0 \in U /\ at + 2 \in U
    BY <1>2, <1>3, <1>4, <2>1
  <2>4. StepAt(R(2, 1), U, D) /\ StepAt(R(1, 0), U, D) /\ StepAt(R(3, 2), U, D)
    BY <2>3, StepPlaces
  <2> HIDE DEF R
  <2>5. StepsAt(steps, U, D)
    BY <2>4 DEF StepsAt
  <2> HIDE DEF steps
  <2> QED BY <2>2, <2>5, VisitMarks
<1>5. CASE e.form = "walrus"
  <2> DEFINE steps == <<R(2, 1), Bind(n[1], at)>>
  <2>1. hi = at + 2
    BY <1>1, <1>5, Arities
  <2>2. VisitExpr(ix, e, at) = Visit(ix, steps)
    BY <1>5 DEF VisitExpr, n
  <2>3. at + 1 \in U /\ at \in D
    BY <1>2, <1>3, <1>5, <2>1
  <2>4. StepAt(R(2, 1), U, D) /\ StepAt(Bind(n[1], at), U, D)
    BY <2>3, StepPlaces
  <2> HIDE DEF R
  <2>5. StepsAt(steps, U, D)
    BY <2>4 DEF StepsAt
  <2> HIDE DEF steps
  <2> QED BY <2>2, <2>5, VisitMarks
<1>6. CASE e.form = "lambda"
  <2> DEFINE steps == <<Param(n[1], at), R(2, 1), R(2, 1), R(3, 2)>>
             sx == AddScope(ix, "Lambda", Span(at, at + 3))
  <2>1. hi = at + 3
    BY <1>1, <1>6, Arities
  <2>2. VisitExpr(ix, e, at) = Leave(Visit(sx, steps))
    BY <1>6 DEF VisitExpr, n
  <2>3. at + 1 \in U /\ at + 2 \in U /\ at \in D
    BY <1>2, <1>3, <1>6, <2>1
  <2>4. /\ StepAt(Param(n[1], at), U, D) /\ StepAt(R(2, 1), U, D) /\ StepAt(R(3, 2), U, D)
    BY <2>3, StepPlaces
  <2> HIDE DEF R
  <2>5. StepsAt(steps, U, D)
    BY <2>4 DEF StepsAt
  <2> HIDE DEF steps
  <2>6. Marks(sx, Visit(sx, steps), U, D)
    BY <2>5, VisitMarks, ScopeMarks
  <2> QED BY <2>2, <2>6, ScopeMarks
<1>7. CASE e.form = "comprehension"
  <2> DEFINE steps == <<R(3, 2), Bind(n[2], at + 1), R(4, 3), R(1, 0)>>
             sx == AddScope(ix, "Comprehension", Span(at, at + 4))
  <2>1. hi = at + 4
    BY <1>1, <1>7, Arities
  <2>2. VisitExpr(ix, e, at) = Leave(Visit(sx, steps))
    BY <1>7 DEF VisitExpr, n
  <2>3. at + 2 \in U /\ at + 3 \in U /\ at + 0 \in U /\ at + 1 \in D
    BY <1>2, <1>3, <1>7, <2>1
  <2>4. /\ StepAt(R(3, 2), U, D) /\ StepAt(R(4, 3), U, D) /\ StepAt(R(1, 0), U, D)
        /\ StepAt(Bind(n[2], at + 1), U, D)
    BY <2>3, StepPlaces
  <2> HIDE DEF R
  <2>5. StepsAt(steps, U, D)
    BY <2>4 DEF StepsAt
  <2> HIDE DEF steps
  <2>6. Marks(sx, Visit(sx, steps), U, D)
    BY <2>5, VisitMarks, ScopeMarks
  <2> QED BY <2>2, <2>6, ScopeMarks
<1>8. CASE e.form \notin {"choice", "walrus", "lambda", "comprehension"}
  <2> DEFINE steps == [i \in DOMAIN n |-> R(i, i - 1)]
  <2>1. VisitExpr(ix, e, at) = Visit(ix, steps)
    BY <1>8 DEF VisitExpr, n
  <2>2. ASSUME NEW i \in DOMAIN n PROVE n[i] # Missing => at + (i - 1) \in U
    BY <1>1, <1>2, <1>3, <1>8
  <2>3. ASSUME NEW i \in DOMAIN n PROVE StepAt(R(i, i - 1), U, D)
    <3> DEFINE b == at + (i - 1)
    <3>1. n[i] # Missing => b \in U
      BY <2>2
    <3> HIDE DEF b
    <3>2. StepAt(Ref(n[i], b), U, D)
      BY <3>1, StepPlaces
    <3> QED BY <3>2 DEF b
  <2> HIDE DEF R
  <2>4. StepsAt(steps, U, D)
    <3>1. steps \in Seq({R(i, i - 1) : i \in DOMAIN n}) /\ Len(steps) = Len(n)
      BY <1>1, IsASeq
    <3> QED BY <1>1, <2>3, <3>1 DEF StepsAt
  <2> HIDE DEF steps
  <2> QED BY <2>1, <2>4, VisitMarks
<1> QED BY <1>4, <1>5, <1>6, <1>7, <1>8

LEMMA ExprApart ==
  ASSUME ScopeIndexAssumption, NEW ix, Listed(ix), NEW e \in Expression, NEW at \in Nat,
         NEW hi \in Nat, hi = at + Len(Words(e))
  PROVE  MarksApart(ix, VisitExpr(ix, e, at), at, hi)
<1> DEFINE D == Bound(e, at)
           U == (at .. hi - 1) \ Bound(e, at)
<1>1. U \in SUBSET (at .. hi - 1) /\ D \in SUBSET (at .. hi - 1) /\ U \cap D = {}
  BY BoundWithin
<1>2. Bound(e, at) \subseteq D /\ (at .. hi - 1) \ Bound(e, at) \subseteq U
  OBVIOUS
<1> HIDE DEF U, D
<1>3. Marks(ix, VisitExpr(ix, e, at), U, D)
  BY <1>2, ExprMarks
<1> QED BY <1>1, <1>3 DEF MarksApart

LEMMA TargetApart ==
  ASSUME ScopeIndexAssumption, NEW ix, Listed(ix), NEW e \in Expression, NEW at \in Nat,
         NEW hi \in Nat, hi = at + Len(Words(e))
  PROVE  MarksApart(ix, VisitTarget(ix, e, at), at, hi)
<1> DEFINE n == e.names
           B(i) == Bind(n[i], at + i - 1)
<1>1. CASE e.form \in {"name", "tuple"}
  <2> DEFINE U == {}
             D == at .. hi - 1
             steps == [i \in DOMAIN n |-> B(i)]
  <2>1. /\ Len(n) \in Nat /\ DOMAIN n = 1 .. Len(n) /\ Len(Words(e)) = Len(n)
    BY <1>1, ExpressionParts
  <2>2. VisitTarget(ix, e, at) = Visit(ix, steps)
    BY <1>1 DEF VisitTarget
  <2> HIDE DEF n
  <2>3. U \in SUBSET (at .. hi - 1) /\ D \in SUBSET (at .. hi - 1) /\ U \cap D = {}
    OBVIOUS
  <2>4. ASSUME NEW i \in DOMAIN n PROVE at + i - 1 \in D
    BY <2>1
  <2> HIDE DEF U, D
  <2>5. \A i \in DOMAIN n : StepAt(B(i), U, D)
    BY <2>4, StepPlaces
  <2> HIDE DEF B
  <2>6. StepsAt(steps, U, D)
    <3>1. steps \in Seq({B(i) : i \in DOMAIN n}) /\ Len(steps) = Len(n)
      BY <2>1, IsASeq
    <3> QED BY <2>1, <2>5, <3>1 DEF StepsAt
  <2> HIDE DEF steps
  <2>7. Marks(ix, Visit(ix, steps), U, D)
    BY <2>6, VisitMarks
  <2> QED BY <2>2, <2>3, <2>7 DEF MarksApart
<1>2. CASE e.form \notin {"name", "tuple"}
  <2>1. VisitTarget(ix, e, at) = VisitExpr(ix, e, at)
    BY <1>2 DEF VisitTarget
  <2> QED BY <2>1, ExprApart
<1> QED BY <1>1, <1>2

-------------------------------------------------------------------------------
\* Stretches one behind the other: what each binds is no use of another.
Stretched(n, E, B) == /\ n \in Nat /\ \A k \in 0 .. n : E[k] \in Nat
                      /\ \A j, k \in 0 .. n : j <= k => E[j] <= E[k]
                      /\ \A k \in 1 .. n : B[k] \subseteq E[k - 1] .. E[k] - 1
BoundIn(n, B) == UNION {B[k] : k \in 1 .. n}
UsedIn(n, E, B) == (E[0] .. E[n] - 1) \ BoundIn(n, B)

LEMMA StretchesApart ==
  ASSUME NEW n, NEW E, NEW B, Stretched(n, E, B), NEW U, NEW D,
         D = BoundIn(n, B), U = UsedIn(n, E, B)
  PROVE  /\ U \in SUBSET (E[0] .. E[n] - 1) /\ D \in SUBSET (E[0] .. E[n] - 1)
         /\ U \cap D = {}
         /\ \A k \in 1 .. n : B[k] \subseteq D /\ (E[k - 1] .. E[k] - 1) \ B[k] \subseteq U
<1>0. /\ n \in Nat /\ \A k \in 0 .. n : E[k] \in Nat
      /\ \A j, k \in 0 .. n : j <= k => E[j] <= E[k]
      /\ \A k \in 1 .. n : B[k] \subseteq E[k - 1] .. E[k] - 1
      /\ D = UNION {B[k] : k \in 1 .. n} /\ U = (E[0] .. E[n] - 1) \ D
  BY DEF Stretched, BoundIn, UsedIn
<1>1. ASSUME NEW k \in 1 .. n, NEW x \in E[k - 1] .. E[k] - 1 PROVE x \in E[0] .. E[n] - 1
  <2>1. k - 1 \in 0 .. n /\ k \in 0 .. n /\ 0 \in 0 .. n /\ n \in 0 .. n /\ 0 <= k - 1 /\ k <= n
    BY <1>0
  <2>2. /\ E[0] <= E[k - 1] /\ E[k] <= E[n] /\ E[0] \in Nat /\ E[k - 1] \in Nat
        /\ E[k] \in Nat /\ E[n] \in Nat
    BY <1>0, <2>1
  <2> QED BY <2>2
<1>2. ASSUME NEW j \in 1 .. n, NEW k \in 1 .. n, NEW x \in E[k - 1] .. E[k] - 1, x \in B[j]
      PROVE  j = k
  <2> SUFFICES ASSUME j # k PROVE FALSE
    OBVIOUS
  <2>1. /\ j - 1 \in 0 .. n /\ j \in 0 .. n /\ k - 1 \in 0 .. n /\ k \in 0 .. n
        /\ j <= k - 1 \/ k <= j - 1
    BY <1>0
  <2>2. E[j] <= E[k - 1] \/ E[k] <= E[j - 1]
    BY <1>0, <2>1
  <2>3. x \in E[j - 1] .. E[j] - 1
    BY <1>0, <1>2
  <2>4. E[j] \in Nat /\ E[j - 1] \in Nat /\ E[k] \in Nat /\ E[k - 1] \in Nat
    BY <1>0, <2>1
  <2> QED BY <2>2, <2>3, <2>4
<1>3. D \in SUBSET (E[0] .. E[n] - 1)
  <2> SUFFICES ASSUME NEW k \in 1 .. n, NEW x \in B[k] PROVE x \in E[0] .. E[n] - 1
    BY <1>0
  <2> QED BY <1>0, <1>1
<1>4. ASSUME NEW k \in 1 .. n
      PROVE  B[k] \subseteq D /\ (E[k - 1] .. E[k] - 1) \ B[k] \subseteq U
  <2>1. B[k] \subseteq D
    BY <1>0
  <2>2. ASSUME NEW x \in E[k - 1] .. E[k] - 1, x \notin B[k] PROVE x \in U
    <3>1. x \notin D
      BY <1>0, <1>2, <2>2
    <3> QED BY <1>0, <1>1, <2>2, <3>1
  <2> QED BY <2>1, <2>2
<1>5. U \in SUBSET (E[0] .. E[n] - 1) /\ U \cap D = {}
  BY <1>0
<1> QED BY <1>3, <1>4, <1>5

\* What rises at every step rises.
LEMMA Rising ==
  ASSUME NEW n \in Nat, NEW E, \A k \in 0 .. n : E[k] \in Nat,
         \A k \in 1 .. n : E[k - 1] <= E[k]
  PROVE  \A j, k \in 0 .. n : j <= k => E[j] <= E[k]
<1> DEFINE S == {k \in 0 .. n : \A j \in 0 .. k : E[j] <= E[k]}
<1>1. 0 \in S
  OBVIOUS
<1>2. ASSUME NEW k \in 0 .. n - 1, k \in S PROVE k + 1 \in S
  <2>1. k + 1 \in 1 .. n /\ k + 1 \in 0 .. n /\ (k + 1) - 1 = k /\ k \in 0 .. n
    OBVIOUS
  <2>2. E[k] <= E[k + 1] /\ E[k] \in Nat /\ E[k + 1] \in Nat
    BY <2>1
  <2>3. ASSUME NEW j \in 0 .. k + 1 PROVE E[j] <= E[k + 1]
    <3>1. CASE j = k + 1
      BY <2>2, <3>1
    <3>2. CASE j \in 0 .. k
      <4>1. E[j] <= E[k] /\ E[j] \in Nat
        BY <1>2, <3>2
      <4> QED BY <2>2, <4>1
    <3> QED BY <3>1, <3>2
  <2> QED BY <2>1, <2>3
<1>3. \A k \in 0 .. n : k \in S
  <2> HIDE DEF S
  <2> QED BY <1>1, <1>2, Upwards
<1> QED BY <1>3

LEMMA ExprsApart ==
  ASSUME ScopeIndexAssumption, NEW ix, Listed(ix), NEW es \in Seq(Expression),
         NEW at \in Nat, NEW hi \in Nat, hi = at + Len(AllWords(es))
  PROVE  MarksApart(ix, VisitExprs(ix, es, at), at, hi)
<1> DEFINE n == Len(es)
           words == ExprsWords(es)
           E == [k \in 0 .. n |-> at + Len(words[k])]
           B == [k \in 1 .. n |-> Bound(es[k], E[k - 1])]
           D == BoundIn(n, B)
           U == UsedIn(n, E, B)
<1>1. /\ n \in Nat /\ \A k \in 1 .. n : es[k] \in Expression
      /\ words[0] = <<>> /\ Len(<<>>) = 0
      /\ \A k \in 0 .. n : Len(words[k]) \in Nat
      /\ \A k \in 1 .. n : Len(words[k - 1]) + Len(Words(es[k])) = Len(words[k])
      /\ AllWords(es) = words[n]
  BY ExprsWordsLen
<1>2. PICK g : /\ g[0] = ix /\ VisitExprs(ix, es, at) = g[n]
               /\ \A k \in 1 .. n : g[k] = VisitExpr(g[k - 1], es[k], at + Len(words[k - 1]))
  <2>1. Len(es) \in Nat
    BY <1>1
  <2>2. PICK g : ExprsRun(g, ix, es, at)
    BY <2>1, VisitExprsRun
  <2> WITNESS g
  <2> QED BY <2>2 DEF ExprsRun
<1>3. /\ \A k \in 0 .. n : E[k] = at + Len(words[k]) /\ E[k] \in Nat
      /\ E[0] = at /\ E[n] = hi
  <2>1. 0 \in 0 .. n /\ n \in 0 .. n
    BY <1>1
  <2> HIDE DEF n, words, B, D, U
  <2>2. \A k \in 0 .. n : E[k] = at + Len(words[k])
    OBVIOUS
  <2> HIDE DEF E
  <2>3. \A k \in 0 .. n : E[k] \in Nat
    BY <1>1, <2>2
  <2>4. E[0] = at
    <3>1. E[0] = at + Len(words[0]) /\ Len(words[0]) = 0
      BY <1>1, <2>1, <2>2
    <3> QED BY <3>1
  <2>5. E[n] = hi
    <3>1. E[n] = at + Len(words[n]) /\ AllWords(es) = words[n]
      BY <1>1, <2>1, <2>2
    <3> QED BY <3>1
  <2> QED BY <2>2, <2>3, <2>4, <2>5
<1> HIDE DEF E, n, words
<1>4. \A k \in 1 .. n : B[k] = Bound(es[k], E[k - 1])
  OBVIOUS
<1> HIDE DEF B
<1>5. ASSUME NEW k \in 1 .. n
      PROVE  /\ k - 1 \in 0 .. n /\ k \in 0 .. n /\ E[k - 1] \in Nat /\ E[k] \in Nat
             /\ E[k] = E[k - 1] + Len(Words(es[k])) /\ es[k] \in Expression
             /\ E[k - 1] <= E[k] /\ B[k] \subseteq E[k - 1] .. E[k] - 1
  <2> DEFINE l == Len(Words(es[k]))
             a == Len(words[k - 1])
             b == Len(words[k])
  <2>1. k - 1 \in 0 .. n /\ k \in 0 .. n
    BY <1>1
  <2>2. /\ l \in Nat /\ es[k] \in Expression /\ a \in Nat /\ b \in Nat /\ a + l = b
        /\ E[k] = at + b /\ E[k - 1] = at + a
    BY <1>1, <1>3, <2>1, WordsTyped
  <2> HIDE DEF a, b, l
  <2>3. E[k] = E[k - 1] + l /\ E[k - 1] <= E[k] /\ E[k - 1] \in Nat /\ E[k] \in Nat
    BY <2>2
  <2> DEFINE from == E[k - 1]
             to == E[k]
  <2>4. /\ from \in Nat /\ to \in Nat /\ to = from + Len(Words(es[k])) /\ es[k] \in Expression
    BY <2>2, <2>3 DEF l
  <2> HIDE DEF from, to
  <2>5. Bound(es[k], from) \subseteq from .. to - 1
    BY <2>4, BoundWithin
  <2> QED BY <1>4, <2>1, <2>2, <2>3, <2>5 DEF from, to, l
<1>6. \A j, k \in 0 .. n : j <= k => E[j] <= E[k]
  BY <1>1, <1>3, <1>5, Rising
<1>7. /\ U \in SUBSET (at .. hi - 1) /\ D \in SUBSET (at .. hi - 1) /\ U \cap D = {}
      /\ \A k \in 1 .. n : B[k] \subseteq D /\ (E[k - 1] .. E[k] - 1) \ B[k] \subseteq U
  <2>1. Stretched(n, E, B)
    BY <1>1, <1>3, <1>5, <1>6 DEF Stretched
  <2>2. D = BoundIn(n, B) /\ U = UsedIn(n, E, B)
    OBVIOUS
  <2> HIDE DEF U, D
  <2>3. /\ U \in SUBSET (E[0] .. E[n] - 1) /\ D \in SUBSET (E[0] .. E[n] - 1) /\ U \cap D = {}
        /\ \A k \in 1 .. n : B[k] \subseteq D /\ (E[k - 1] .. E[k] - 1) \ B[k] \subseteq U
    BY <2>1, <2>2, StretchesApart
  <2> QED BY <1>3, <2>3
<1> HIDE DEF U, D
<1>8. ASSUME NEW k \in 1 .. n, Listed(g[k - 1]) PROVE Marks(g[k - 1], g[k], U, D)
  <2> DEFINE from == E[k - 1]
             to == E[k]
  <2>1. g[k] = VisitExpr(g[k - 1], es[k], from)
    BY <1>2, <1>3, <1>5
  <2>2. /\ from \in Nat /\ to \in Nat /\ to = from + Len(Words(es[k])) /\ es[k] \in Expression
        /\ Bound(es[k], from) \subseteq D /\ (from .. to - 1) \ Bound(es[k], from) \subseteq U
    BY <1>4, <1>5, <1>7
  <2> HIDE DEF from, to
  <2> QED BY <1>8, <2>1, <2>2, ExprMarks
<1>9. Marks(ix, g[n], U, D)
  BY <1>1, <1>2, <1>8, RunMarks
<1> QED BY <1>2, <1>7, <1>9 DEF MarksApart

\* The places a parameter binds names at.
ParamBound(p, at) ==
  {at} \cup (Bound(p.annotation, at + 1)
             \cup Bound(p.default, (at + Len(ParamWords(p))) - Len(Words(p.default))))

LEMMA ParamMarks ==
  ASSUME ScopeIndexAssumption, NEW p \in Parameters, NEW at \in Nat, NEW end \in Nat,
         end = at + Len(ParamWords(p))
  PROVE  /\ at < end /\ ParamBound(p, at) \subseteq at .. end - 1
         /\ \A U, D : /\ ParamBound(p, at) \subseteq D
                      /\ (at .. end - 1) \ ParamBound(p, at) \subseteq U
              => \A ix : Listed(ix) =>
                   /\ Marks(ix, VisitParameter(ix, p, at), U, D)
                   /\ Marks(ix, VisitExpr(ix, p.default, end - Len(Words(p.default))), U, D)
<1> DEFINE from == end - Len(Words(p.default))
           first == at + 1
           B == ParamBound(p, at)
           A == Bound(p.annotation, first)
           F == Bound(p.default, from)
<1>1. /\ p.annotation \in Expression /\ p.default \in Expression
      /\ from \in Nat /\ first \in Nat /\ at < first /\ first <= from /\ from <= end
      /\ from = first + Len(Words(p.annotation)) /\ end = from + Len(Words(p.default))
  <2> DEFINE a == Len(Words(p.annotation))
             d == Len(Words(p.default))
  <2>1. /\ p.annotation \in Expression /\ p.default \in Expression
        /\ a \in Nat /\ d \in Nat /\ end = at + ((1 + a) + d)
    BY ParamParts
  <2> HIDE DEF a, d
  <2>2. /\ end - d \in Nat /\ at + 1 \in Nat /\ at < at + 1 /\ at + 1 <= end - d
        /\ end - d <= end /\ end - d = (at + 1) + a /\ end = (end - d) + d
    BY <2>1
  <2> QED BY <2>1, <2>2 DEF a, d
<1>2. B = {at} \cup (A \cup F)
  BY DEF ParamBound
<1> HIDE DEF from, first, B
<1>3. A \subseteq first .. from - 1 /\ F \subseteq from .. end - 1
  BY <1>1, BoundWithin
<1> HIDE DEF A, F
<1>4. at < end /\ B \subseteq at .. end - 1
  <2>1. at < end
    BY <1>1
  <2>2. at \in at .. end - 1 /\ first .. from - 1 \subseteq at .. end - 1
        /\ from .. end - 1 \subseteq at .. end - 1
    BY <1>1
  <2> QED BY <1>2, <1>3, <2>1, <2>2
<1>5. ASSUME NEW U, NEW D, B \subseteq D, (at .. end - 1) \ B \subseteq U,
             NEW ix, Listed(ix)
      PROVE  /\ Marks(ix, VisitParameter(ix, p, at), U, D)
             /\ Marks(ix, VisitExpr(ix, p.default, from), U, D)
  <2>1. at \in D /\ A \subseteq D /\ F \subseteq D
    BY <1>2, <1>5
  <2>2. (first .. from - 1) \ A \subseteq U
    <3>1. ASSUME NEW x \in first .. from - 1, x \notin A PROVE x \in at .. end - 1 /\ x \notin B
      <4>1. x \in at .. end - 1 /\ x # at /\ x \notin from .. end - 1
        BY <1>1
      <4> QED BY <1>2, <1>3, <3>1, <4>1
    <3> QED BY <1>5, <3>1
  <2>3. (from .. end - 1) \ F \subseteq U
    <3>1. ASSUME NEW x \in from .. end - 1, x \notin F PROVE x \in at .. end - 1 /\ x \notin B
      <4>1. x \in at .. end - 1 /\ x # at /\ x \notin first .. from - 1
        BY <1>1
      <4> QED BY <1>2, <1>3, <3>1, <4>1
    <3> QED BY <1>5, <3>1
  <2> DEFINE nx == AddParameter(ix, p.name, at, end)
             tx == VisitExpr(nx, p.annotation, first)
             kx == VisitExpr(tx, p.default, from)
             jx == VisitParameter(ix, p, at)
  <2>4. jx = IF p.keyword THEN tx ELSE kx
    BY DEF VisitParameter, from, first
  <2> HIDE DEF jx
  <2>5. Marks(ix, nx, U, D)
    BY <1>5, <2>1, ParameterMarks
  <2> HIDE DEF nx
  <2>6. Listed(nx)
    BY <2>5 DEF Marks
  <2>7. Marks(nx, tx, U, D)
    BY <1>1, <2>1, <2>2, <2>6, ExprMarks DEF A
  <2> HIDE DEF tx
  <2>8. Listed(tx) /\ Marks(ix, tx, U, D)
    <3>1. Marks(ix, tx, U, D)
      BY <2>5, <2>7, MarksOn
    <3> QED BY <3>1 DEF Marks
  <2>9. \A mx : Listed(mx) => Marks(mx, VisitExpr(mx, p.default, from), U, D)
    BY <1>1, <2>1, <2>3, ExprMarks DEF F
  <2>10. Marks(ix, kx, U, D)
    <3>1. Marks(tx, kx, U, D)
      BY <2>8, <2>9
    <3> HIDE DEF kx
    <3> QED BY <2>8, <3>1, MarksOn
  <2>11. Marks(ix, jx, U, D)
    BY <2>4, <2>8, <2>10
  <2>12. Marks(ix, VisitExpr(ix, p.default, from), U, D)
    BY <1>5, <2>9
  <2> QED BY <2>11, <2>12 DEF jx
<1> QED BY <1>4, <1>5 DEF from, B

LEMMA ParametersApart ==
  ASSUME ScopeIndexAssumption, NEW ix, Listed(ix), NEW params \in Seq(Parameters),
         NEW at \in Nat, NEW hi \in Nat, hi = at + Len(ParamsWords(params)[Len(params)])
  PROVE  MarksApart(ix, VisitParameters(ix, params, at), at, hi)
<1> DEFINE n == Len(params)
           words == ParamsWords(params)
           E == [k \in 0 .. n |-> at + Len(words[k])]
           B == [k \in 1 .. n |-> ParamBound(params[k], E[k - 1])]
           D == BoundIn(n, B)
           U == UsedIn(n, E, B)
           From(k) == DefaultAt(params, at, k)
<1>1. /\ n \in Nat /\ \A k \in 1 .. n : params[k] \in Parameters
      /\ words[0] = <<>> /\ Len(<<>>) = 0
      /\ \A k \in 0 .. n : Len(words[k]) \in Nat
      /\ \A k \in 1 .. n : Len(words[k - 1]) + Len(ParamWords(params[k])) = Len(words[k])
  BY ParamsWordsLen
<1>2. PICK g : /\ g[0] = ix /\ VisitParameters(ix, params, at) = g[2 * n]
               /\ \A k \in 1 .. 2 * n :
                    g[k] = IF k <= n
                           THEN VisitParameter(g[k - 1], params[k], at + Len(words[k - 1]))
                           ELSE VisitExpr(g[k - 1], params[k - n].default, From(k - n))
  <2>1. Len(params) \in Nat
    BY <1>1
  <2>2. PICK g : ParametersRun(g, ix, params, at)
    BY <2>1, VisitParametersRun
  <2> WITNESS g
  <2> QED BY <2>2 DEF ParametersRun
<1>3. /\ \A k \in 0 .. n : E[k] = at + Len(words[k]) /\ E[k] \in Nat
      /\ E[0] = at /\ E[n] = hi
  <2>1. 0 \in 0 .. n /\ n \in 0 .. n
    BY <1>1
  <2>2. hi = at + Len(words[n])
    OBVIOUS
  <2> HIDE DEF n, words
  <2>3. \A k \in 0 .. n : E[k] = at + Len(words[k])
    OBVIOUS
  <2> HIDE DEF E
  <2>4. \A k \in 0 .. n : E[k] \in Nat
    <3>1. \A k \in 0 .. n : Len(words[k]) \in Nat
      BY <1>1
    <3> QED BY <2>3, <3>1
  <2>5. E[0] = at
    <3>1. Len(words[0]) = 0
      BY <1>1
    <3>2. E[0] = at + Len(words[0])
      BY <2>1, <2>3
    <3> QED BY <3>1, <3>2
  <2>6. E[n] = hi
    BY <2>1, <2>2, <2>3
  <2> QED BY <2>3, <2>4, <2>5, <2>6
<1>4. \A k \in 1 .. n : k \in 0 .. n /\ From(k) = E[k] - Len(Words(params[k].default))
  <2>1. \A k \in 1 .. n : k \in 0 .. n
    BY <1>1
  <2>2. \A k \in 1 .. n : E[k] = at + Len(words[k])
    BY <1>3, <2>1
  <2> HIDE DEF E
  <2> QED BY <2>1, <2>2 DEF DefaultAt
<1> HIDE DEF E, n, words, From
<1>5. \A k \in 1 .. n : B[k] = ParamBound(params[k], E[k - 1])
  OBVIOUS
<1> HIDE DEF B
<1>6. ASSUME NEW k \in 1 .. n
      PROVE  /\ k - 1 \in 0 .. n /\ k \in 0 .. n /\ E[k - 1] \in Nat /\ E[k] \in Nat
             /\ E[k] = E[k - 1] + Len(ParamWords(params[k])) /\ params[k] \in Parameters
             /\ E[k - 1] <= E[k] /\ B[k] \subseteq E[k - 1] .. E[k] - 1
  <2> DEFINE l == Len(ParamWords(params[k]))
             a == Len(words[k - 1])
             b == Len(words[k])
  <2>1. k - 1 \in 0 .. n /\ k \in 0 .. n
    BY <1>1
  <2>2. /\ params[k] \in Parameters /\ a \in Nat /\ b \in Nat /\ a + l = b
        /\ E[k] = at + b /\ E[k - 1] = at + a
    BY <1>1, <1>3, <2>1
  <2>3. l \in Nat
    <3>1. ParamWords(params[k]) \in Seq(Word)
      BY <2>2, ParamParts
    <3> QED BY <3>1, LenProperties
  <2> HIDE DEF a, b, l
  <2>4. E[k] = E[k - 1] + l /\ E[k - 1] <= E[k] /\ E[k - 1] \in Nat /\ E[k] \in Nat
    BY <2>2, <2>3
  <2> DEFINE from == E[k - 1]
             to == E[k]
  <2>5. from \in Nat /\ to \in Nat /\ to = from + Len(ParamWords(params[k]))
    BY <2>4 DEF l
  <2> HIDE DEF from, to
  <2>6. ParamBound(params[k], from) \subseteq from .. to - 1
    BY <2>2, <2>5, ParamMarks
  <2> QED BY <1>5, <2>1, <2>2, <2>4, <2>6 DEF from, to, l
<1>7. \A j, k \in 0 .. n : j <= k => E[j] <= E[k]
  BY <1>1, <1>3, <1>6, Rising
<1>8. /\ U \in SUBSET (at .. hi - 1) /\ D \in SUBSET (at .. hi - 1) /\ U \cap D = {}
      /\ \A k \in 1 .. n : B[k] \subseteq D /\ (E[k - 1] .. E[k] - 1) \ B[k] \subseteq U
  <2>1. Stretched(n, E, B)
    BY <1>1, <1>3, <1>6, <1>7 DEF Stretched
  <2>2. D = BoundIn(n, B) /\ U = UsedIn(n, E, B)
    OBVIOUS
  <2> HIDE DEF U, D
  <2>3. /\ U \in SUBSET (E[0] .. E[n] - 1) /\ D \in SUBSET (E[0] .. E[n] - 1) /\ U \cap D = {}
        /\ \A k \in 1 .. n : B[k] \subseteq D /\ (E[k - 1] .. E[k] - 1) \ B[k] \subseteq U
    BY <2>1, <2>2, StretchesApart
  <2> QED BY <1>3, <2>3
<1> HIDE DEF U, D
<1>9. ASSUME NEW k \in 1 .. n, NEW mx, Listed(mx)
      PROVE  /\ Marks(mx, VisitParameter(mx, params[k], E[k - 1]), U, D)
             /\ Marks(mx, VisitExpr(mx, params[k].default, From(k)), U, D)
  <2> DEFINE from == E[k - 1]
             to == E[k]
             p == params[k]
             default == to - Len(Words(p.default))
  <2>1. /\ from \in Nat /\ to \in Nat /\ to = from + Len(ParamWords(p)) /\ p \in Parameters
        /\ ParamBound(p, from) \subseteq D /\ (from .. to - 1) \ ParamBound(p, from) \subseteq U
    BY <1>5, <1>6, <1>8
  <2>2. From(k) = default
    BY <1>4
  <2> HIDE DEF from, to, p
  <2>3. /\ Marks(mx, VisitParameter(mx, p, from), U, D)
        /\ Marks(mx, VisitExpr(mx, p.default, default), U, D)
    BY <1>9, <2>1, ParamMarks
  <2> HIDE DEF default
  <2> QED BY <2>2, <2>3 DEF from, p
<1> DEFINE m == 2 * n
<1>10. ASSUME NEW k \in 1 .. m, Listed(g[k - 1]) PROVE Marks(g[k - 1], g[k], U, D)
  <2>1. CASE k <= n
    <3>1. k \in 1 .. n
      BY <1>1, <2>1
    <3>2. g[k] = VisitParameter(g[k - 1], params[k], E[k - 1])
      BY <1>2, <1>3, <1>6, <2>1, <3>1
    <3> QED BY <1>9, <1>10, <3>1, <3>2
  <2>2. CASE ~ k <= n
    <3> DEFINE j == k - n
    <3>1. j \in 1 .. n
      BY <1>1, <2>2
    <3>2. g[k] = VisitExpr(g[k - 1], params[j].default, From(j))
      BY <1>2, <2>2
    <3> HIDE DEF j
    <3> QED BY <1>9, <1>10, <3>1, <3>2
  <2> QED BY <2>1, <2>2
<1>11. m \in Nat /\ g[0] = ix /\ VisitParameters(ix, params, at) = g[m]
  BY <1>1, <1>2
<1> HIDE DEF m
<1>12. Marks(g[0], g[m], U, D)
  BY <1>10, <1>11, RunMarks
<1> QED BY <1>8, <1>11, <1>12 DEF MarksApart
-------------------------------------------------------------------------------
(***************************************************************************)
(* PositionalIndex::build: the table it makes holds every range once, with *)
(* its id, by start.                                                       *)
(***************************************************************************)
Earlier(table, turned, i, j) ==
  \/ table[i].start < table[j].start
  \/ table[i].start = table[j].start /\ IF turned THEN i > j ELSE i < j
PlaceOf(table, turned, i) ==
  Cardinality({j \in DOMAIN table : Earlier(table, turned, j, i)}) + 1
EntryOf(table, i) == [start |-> table[i].start, end |-> table[i].end, index |-> i]

LEMMA PlacesOf ==
  ASSUME NEW table, NEW turned \in BOOLEAN, NEW n \in Nat, DOMAIN table = 1 .. n,
         \A i \in 1 .. n : table[i].start \in Nat
  PROVE  /\ \A i \in 1 .. n : PlaceOf(table, turned, i) \in 1 .. n
         /\ \A i, j \in 1 .. n :
              Earlier(table, turned, i, j) =>
                PlaceOf(table, turned, i) < PlaceOf(table, turned, j)
         /\ \A i, j \in 1 .. n :
              i # j => Earlier(table, turned, i, j) \/ Earlier(table, turned, j, i)
<1> DEFINE B(i) == {j \in 1 .. n : Earlier(table, turned, j, i)}
<1>1. \A i \in 1 .. n : PlaceOf(table, turned, i) = Cardinality(B(i)) + 1
  BY DEF PlaceOf
<1>2. IsFiniteSet(1 .. n) /\ Cardinality(1 .. n) = n
  BY FS_Interval
<1>3. \A i, j \in 1 .. n :
        i # j => Earlier(table, turned, i, j) \/ Earlier(table, turned, j, i)
  BY DEF Earlier
<1>4. \A i \in 1 .. n : ~ Earlier(table, turned, i, i)
  BY DEF Earlier
<1>5. \A i, j, k \in 1 .. n : Earlier(table, turned, i, j) /\ Earlier(table, turned, j, k)
                                => Earlier(table, turned, i, k)
  BY DEF Earlier
<1>6. ASSUME NEW i \in 1 .. n
      PROVE  IsFiniteSet(B(i)) /\ Cardinality(B(i)) \in 0 .. n - 1
  <2> DEFINE S == (1 .. n) \ {i}
  <2>1. IsFiniteSet(S) /\ Cardinality(S) = n - 1
    <3>1. /\ IsFiniteSet((1 .. n) \ {i})
          /\ Cardinality((1 .. n) \ {i})
               = IF i \in 1 .. n THEN Cardinality(1 .. n) - 1 ELSE Cardinality(1 .. n)
      BY <1>2, FS_RemoveElement
    <3> QED BY <1>2, <3>1
  <2>2. B(i) \in SUBSET S
    BY <1>4
  <2> HIDE DEF B, S
  <2>3. IsFiniteSet(B(i)) /\ Cardinality(B(i)) <= n - 1
    BY <2>1, <2>2, FS_Subset
  <2>4. Cardinality(B(i)) \in Nat
    BY <2>3, FS_CardinalityType
  <2> QED BY <2>3, <2>4
<1>7. ASSUME NEW i \in 1 .. n, NEW j \in 1 .. n, Earlier(table, turned, i, j)
      PROVE  Cardinality(B(i)) < Cardinality(B(j))
  <2>1. B(i) \in SUBSET B(j) /\ i \in B(j) /\ i \notin B(i)
    BY <1>4, <1>5, <1>7
  <2> HIDE DEF B
  <2>2. IsFiniteSet(B(j)) /\ Cardinality(B(i)) \in Nat /\ Cardinality(B(j)) \in Nat
    <3>1. /\ IsFiniteSet(B(j))
          /\ Cardinality(B(i)) \in 0 .. n - 1 /\ Cardinality(B(j)) \in 0 .. n - 1
      BY <1>6
    <3> QED BY <3>1
  <2>3. /\ Cardinality(B(i)) <= Cardinality(B(j))
        /\ Cardinality(B(j)) = Cardinality(B(i)) => B(j) = B(i)
    BY <2>1, <2>2, FS_Subset
  <2>4. B(j) # B(i)
    BY <2>1
  <2> QED BY <2>2, <2>3, <2>4
<1> HIDE DEF B
<1>8. \A i \in 1 .. n : PlaceOf(table, turned, i) \in 1 .. n
  <2> TAKE i \in 1 .. n
  <2>1. PlaceOf(table, turned, i) = Cardinality(B(i)) + 1
    BY <1>1
  <2>2. Cardinality(B(i)) \in 0 .. n - 1
    BY <1>6
  <2> QED BY <2>1, <2>2
<1>9. ASSUME NEW i \in 1 .. n, NEW j \in 1 .. n, Earlier(table, turned, i, j)
      PROVE  PlaceOf(table, turned, i) < PlaceOf(table, turned, j)
  <2>1. Cardinality(B(i)) < Cardinality(B(j))
    BY <1>7, <1>9
  <2>2. Cardinality(B(i)) \in Nat /\ Cardinality(B(j)) \in Nat
    BY <1>6
  <2> QED BY <1>1, <2>1, <2>2
<1> QED BY <1>3, <1>8, <1>9

LEMMA SortedIs ==
  ASSUME NEW table, NEW turned \in BOOLEAN, NEW n \in Nat, DOMAIN table = 1 .. n,
         \A i \in 1 .. n : table[i].start \in Nat /\ table[i].end \in Nat
  PROVE  LET es == Sorted(table, turned)
         IN  /\ es \in Seq(Entry) /\ Len(es) = n /\ SortedByStart(es)
             /\ \A k \in 1 .. n : \E i \in 1 .. n : es[k] = EntryOf(table, i)
             /\ \A i \in 1 .. n : \E k \in 1 .. n : es[k] = EntryOf(table, i)
<1> DEFINE es == Sorted(table, turned)
           P(i) == PlaceOf(table, turned, i)
           at(k) == CHOOSE i \in 1 .. n : P(i) = k
<1>1. /\ \A i \in 1 .. n : P(i) \in 1 .. n
      /\ \A i, j \in 1 .. n : Earlier(table, turned, i, j) => P(i) < P(j)
      /\ \A i, j \in 1 .. n :
           i # j => Earlier(table, turned, i, j) \/ Earlier(table, turned, j, i)
  BY PlacesOf
<1>2. es = [k \in 1 .. n |-> EntryOf(table, at(k))]
  BY DEF Sorted, PlaceOf, Earlier, EntryOf
<1> HIDE DEF es, P
<1>3. ASSUME NEW i \in 1 .. n, NEW j \in 1 .. n, P(i) = P(j) PROVE i = j
  <2>1. P(i) \in Int /\ ~ P(i) < P(j) /\ ~ P(j) < P(i)
    BY <1>1, <1>3
  <2> QED BY <1>1, <2>1
<1> DEFINE f == [i \in 1 .. n |-> P(i)]
<1>4. \A k \in 1 .. n : \E i \in 1 .. n : P(i) = k
  <2> DEFINE S == 1 .. n
  <2>1. IsFiniteSet(S)
    BY FS_Interval
  <2>2. f \in Injection(S, S)
    <3>1. f \in [S -> S] /\ \A i, j \in S : f[i] = f[j] => i = j
      BY <1>1, <1>3
    <3> QED BY <3>1, Fun_IsInj
  <2> HIDE DEF f, S
  <2>3. f \in Surjection(S, S)
    <3>1. Cardinality(S) = Cardinality(S) <=> f \in Surjection(S, S)
      BY <2>1, <2>2, FS_Injection
    <3> QED BY <3>1
  <2>4. \A k \in S : \E i \in S : f[i] = k
    BY <2>3, Fun_SurjectionProperties
  <2> QED BY <2>4 DEF f, S
<1>5. \A k \in 1 .. n : at(k) \in 1 .. n /\ P(at(k)) = k
  BY <1>4
<1> HIDE DEF at
<1>6. \A i \in 1 .. n : at(P(i)) = i
  BY <1>1, <1>3, <1>5
<1>7. \A i \in 1 .. n : /\ EntryOf(table, i) \in Entry
                        /\ EntryOf(table, i).start = table[i].start
  BY DEF EntryOf, Entry
<1>8. es \in Seq(Entry) /\ Len(es) = n
  <2>1. es \in [1 .. n -> Entry]
    BY <1>2, <1>5, <1>7
  <2> QED BY <2>1, SeqDef, LenProperties
<1>9. SortedByStart(es)
  <2> SUFFICES ASSUME NEW j \in 1 .. n, NEW k \in 1 .. n, j < k
               PROVE  es[j].start <= es[k].start
    BY <1>8 DEF SortedByStart
  <2>1. es[j].start = table[at(j)].start /\ es[k].start = table[at(k)].start
    BY <1>2, <1>5, <1>7
  <2>2. ~ Earlier(table, turned, at(k), at(j)) /\ at(j) # at(k)
    <3>1. at(j) \in 1 .. n /\ at(k) \in 1 .. n /\ P(at(j)) = j /\ P(at(k)) = k
      BY <1>5
    <3>2. Earlier(table, turned, at(k), at(j)) => k < j
      BY <1>1, <3>1
    <3> QED BY <3>1, <3>2
  <2>3. Earlier(table, turned, at(j), at(k))
    BY <1>1, <1>5, <2>2
  <2>4. table[at(j)].start \in Nat /\ table[at(k)].start \in Nat
    BY <1>5
  <2> QED BY <2>1, <2>3, <2>4 DEF Earlier
<1>10. \A k \in 1 .. n : \E i \in 1 .. n : es[k] = EntryOf(table, i)
  BY <1>2, <1>5
<1>11. \A i \in 1 .. n : \E k \in 1 .. n : es[k] = EntryOf(table, i)
  BY <1>1, <1>2, <1>6
<1> QED BY <1>8, <1>9, <1>10, <1>11 DEF es
-------------------------------------------------------------------------------
(***************************************************************************)
(* Uses and names are at places of their own, except for the symbols that  *)
(* name_range, or the handler's range, may put in a use's way.             *)
(***************************************************************************)
Excused(symbol, words) ==
  \/ words[symbol.selection.start + 1] = "except"
  \/ /\ symbol.kind \in {"Function", "Method", "Class"}
     /\ \A w \in symbol.range.start .. symbol.selection.start :
          words[w + 1] \notin {"def", "class"}

\* A symbol's selection is a word, but that of a handler's name.
Placed(symbol, words, here) ==
  /\ symbol.selection.start \in 0 .. here - 1
  /\ symbol.range.start \in 0 .. symbol.selection.start
  /\ words[symbol.selection.start + 1] # "except" =>
       symbol.selection.end = symbol.selection.start + 1

Used(ref, here) == UseAt(ref, 0 .. here - 1)

Clear(ix, symbol, words) ==
  \/ Excused(symbol, words)
  \/ \A r \in DOMAIN ix.references : ix.references[r].range.start # symbol.selection.start

Distinct(ix, words, here) ==
  /\ \A i \in DOMAIN ix.symbols : /\ Placed(ix.symbols[i], words, here)
                                  /\ Clear(ix, ix.symbols[i], words)
  /\ \A r \in DOMAIN ix.references : Used(ix.references[r], here)

\* What was there stays, and what is new lies after it.
NewUses(ix, jx, U) ==
  \A r \in DOMAIN jx.references :
    \/ r \in DOMAIN ix.references /\ jx.references[r] = ix.references[r]
    \/ UseAt(jx.references[r], U)
NewNames(ix, jx, words, a, hi, U) ==
  \A i \in DOMAIN jx.symbols :
    \/ i \in DOMAIN ix.symbols /\ jx.symbols[i] = ix.symbols[i]
    \/ LET symbol == jx.symbols[i]
       IN  /\ Placed(symbol, words, hi) /\ a <= symbol.selection.start
           /\ Excused(symbol, words) \/ symbol.selection.start \notin U

LEMMA DistinctBy ==
  ASSUME NEW ix, NEW jx, NEW words, NEW a \in Nat, NEW hi \in Nat, a <= hi,
         Distinct(ix, words, a), NEW U \in SUBSET (a .. hi - 1),
         NewUses(ix, jx, U), NewNames(ix, jx, words, a, hi, U)
  PROVE  Distinct(jx, words, hi)
<1>1. ASSUME NEW r \in DOMAIN jx.references
      PROVE  /\ Used(jx.references[r], hi)
             /\ jx.references[r].range.start \in 0 .. a - 1
                  \/ jx.references[r].range.start \in U
             /\ jx.references[r].range.start \in 0 .. a - 1 =>
                  r \in DOMAIN ix.references /\ jx.references[r] = ix.references[r]
  <2> DEFINE ref == jx.references[r]
  <2>1. CASE r \in DOMAIN ix.references /\ ref = ix.references[r]
    <3>1. Used(ref, a)
      BY <2>1 DEF Distinct
    <3> HIDE DEF ref
    <3>2. ref.range.start \in 0 .. a - 1 /\ Used(ref, hi)
      BY <3>1 DEF Used, UseAt
    <3> QED BY <2>1, <3>2 DEF ref
  <2>2. CASE UseAt(ref, U)
    <3> HIDE DEF ref
    <3>1. /\ ref.range.start \in U /\ ref.range.end = ref.range.start + 1
          /\ ref.range.start \in a .. hi - 1
      BY <2>2 DEF UseAt
    <3>2. ref.range.start \notin 0 .. a - 1 /\ ref.range.start \in 0 .. hi - 1
      BY <3>1
    <3>3. Used(ref, hi)
      BY <3>1, <3>2 DEF Used, UseAt
    <3> QED BY <3>1, <3>2, <3>3 DEF ref
  <2> QED BY <2>1, <2>2 DEF NewUses
<1>2. ASSUME NEW i \in DOMAIN jx.symbols
      PROVE  Placed(jx.symbols[i], words, hi) /\ Clear(jx, jx.symbols[i], words)
  <2> DEFINE symbol == jx.symbols[i]
  <2>1. CASE i \in DOMAIN ix.symbols /\ symbol = ix.symbols[i]
    <3>1. Placed(symbol, words, a) /\ Clear(ix, symbol, words)
      BY <2>1 DEF Distinct
    <3> HIDE DEF symbol
    <3>2. Placed(symbol, words, hi) /\ symbol.selection.start \in 0 .. a - 1
      BY <3>1 DEF Placed
    <3>3. ASSUME ~ Excused(symbol, words), NEW r \in DOMAIN jx.references
          PROVE  jx.references[r].range.start # symbol.selection.start
      BY <1>1, <3>1, <3>2, <3>3 DEF Clear
    <3> QED BY <3>2, <3>3 DEF symbol, Clear
  <2>2. CASE /\ Placed(symbol, words, hi) /\ a <= symbol.selection.start
             /\ Excused(symbol, words) \/ symbol.selection.start \notin U
    <3> HIDE DEF symbol
    <3>1. symbol.selection.start \notin 0 .. a - 1
      BY <2>2
    <3>2. ASSUME ~ Excused(symbol, words), NEW r \in DOMAIN jx.references
          PROVE  jx.references[r].range.start # symbol.selection.start
      BY <1>1, <2>2, <3>1, <3>2
    <3> QED BY <2>2, <3>2 DEF symbol, Clear
  <2> QED BY <2>1, <2>2 DEF NewNames
<1> QED BY <1>1, <1>2 DEF Distinct

LEMMA DistinctMarks ==
  ASSUME NEW ix, NEW jx, NEW words, NEW a \in Nat, NEW hi \in Nat, a <= hi,
         Distinct(ix, words, a), MarksApart(ix, jx, a, hi)
  PROVE  Distinct(jx, words, hi)
<1>1. PICK U \in SUBSET (a .. hi - 1), D \in SUBSET (a .. hi - 1) :
        U \cap D = {} /\ Marks(ix, jx, U, D)
  BY DEF MarksApart
<1>2. NewUses(ix, jx, U)
  BY <1>1 DEF Marks, NewUses
<1>3. \A symbol : BoundAt(symbol, D) => /\ Placed(symbol, words, hi)
                                        /\ a <= symbol.selection.start
                                        /\ symbol.selection.start \notin U
  <2> SUFFICES ASSUME NEW symbol, BoundAt(symbol, D)
               PROVE  /\ Placed(symbol, words, hi) /\ a <= symbol.selection.start
                      /\ symbol.selection.start \notin U
    OBVIOUS
  <2>1. /\ symbol.selection.start \in D /\ symbol.selection.start \in a .. hi - 1
        /\ symbol.selection.end = symbol.selection.start + 1
        /\ symbol.range.start = symbol.selection.start
    BY DEF BoundAt
  <2> QED BY <1>1, <2>1 DEF Placed
<1>4. NewNames(ix, jx, words, a, hi, U)
  BY <1>1, <1>3 DEF Marks, NewNames
<1> QED BY <1>2, <1>4, DistinctBy

LEMMA DistinctGrows ==
  ASSUME NEW S, NEW words \in Seq(S), NEW more \in Seq(S), NEW ix,
         Distinct(ix, words, Len(words))
  PROVE  Distinct(ix, words \o more, Len(words))
<1> DEFINE n == Len(words)
           all == words \o more
<1>1. n \in Nat /\ \A k \in 0 .. n - 1 : all[k + 1] = words[k + 1]
  BY ConcatProperties, LenProperties
<1> HIDE DEF n, all
<1>2. ASSUME NEW i \in DOMAIN ix.symbols
      PROVE  Placed(ix.symbols[i], all, n) /\ Clear(ix, ix.symbols[i], all)
  <2> DEFINE symbol == ix.symbols[i]
  <2>1. Placed(symbol, words, n) /\ Clear(ix, symbol, words)
    BY DEF Distinct, n
  <2> HIDE DEF symbol
  <2>2. /\ symbol.selection.start \in 0 .. n - 1
        /\ symbol.range.start .. symbol.selection.start \subseteq 0 .. n - 1
    BY <1>1, <2>1 DEF Placed
  <2>3. /\ all[symbol.selection.start + 1] = words[symbol.selection.start + 1]
        /\ \A w \in symbol.range.start .. symbol.selection.start : all[w + 1] = words[w + 1]
    BY <1>1, <2>2
  <2>4. Placed(symbol, all, n)
    BY <2>1, <2>3 DEF Placed
  <2>5. Excused(symbol, words) => Excused(symbol, all)
    BY <2>3 DEF Excused
  <2>6. Clear(ix, symbol, all)
    BY <2>1, <2>5 DEF Clear
  <2> QED BY <2>4, <2>6 DEF symbol
<1>3. \A r \in DOMAIN ix.references : Used(ix.references[r], n)
  BY DEF Distinct, n
<1>4. Distinct(ix, all, n)
  BY <1>2, <1>3 DEF Distinct
<1> QED BY <1>4 DEF n, all

\* The symbols and references are the same, up to ends.
LEMMA DistinctSame ==
  ASSUME NEW ix, NEW jx, NEW words, NEW here, Distinct(ix, words, here),
         jx.references = ix.references, DOMAIN jx.symbols = DOMAIN ix.symbols,
         \A i \in DOMAIN ix.symbols :
           /\ jx.symbols[i].kind = ix.symbols[i].kind
           /\ jx.symbols[i].range.start = ix.symbols[i].range.start
           /\ jx.symbols[i].selection.start = ix.symbols[i].selection.start
           /\ ix.symbols[i].selection.end # Open =>
                jx.symbols[i].selection.end = ix.symbols[i].selection.end
  PROVE  Distinct(jx, words, here)
<1>1. ASSUME NEW i \in DOMAIN jx.symbols
      PROVE  Placed(jx.symbols[i], words, here) /\ Clear(jx, jx.symbols[i], words)
  <2>1. Placed(ix.symbols[i], words, here) /\ Clear(ix, ix.symbols[i], words)
    BY DEF Distinct
  <2>2. /\ words[ix.symbols[i].selection.start + 1] # "except" =>
             /\ ix.symbols[i].selection.end = ix.symbols[i].selection.start + 1
             /\ ix.symbols[i].selection.start \in Nat
    BY <2>1 DEF Placed
  <2>3. Placed(jx.symbols[i], words, here)
    BY <2>1, <2>2 DEF Placed, Open
  <2>4. Clear(jx, jx.symbols[i], words)
    BY <2>1 DEF Clear, Excused
  <2> QED BY <2>3, <2>4
<1>2. \A r \in DOMAIN jx.references : Used(jx.references[r], here)
  BY DEF Distinct
<1> QED BY <1>1, <1>2 DEF Distinct

LEMMA DistinctEnded ==
  ASSUME NEW ix \in Index, NEW block, NEW words, NEW here, Distinct(ix, words, here)
  PROVE  LET jx == Ended(ix, block)
         IN  /\ Distinct(jx, words, here) /\ Distinct(Leave(jx), words, here)
             /\ Listed(jx)
<1> DEFINE jx == Ended(ix, block)
           lx == Leave(jx)
           symbol(i) == IF i = block.symbol THEN EndSymbol(ix.symbols[i])
                        ELSE ix.symbols[i]
           syms == [i \in DOMAIN ix.symbols |-> symbol(i)]
           scs == [s \in DOMAIN ix.scopes |-> IF s = block.scope THEN EndScope(ix.scopes[s])
                                              ELSE ix.scopes[s]]
<1>1. jx = [ix EXCEPT !.symbols = syms, !.scopes = scs]
  BY DEF Ended, Index
<1>2. ASSUME NEW i \in DOMAIN ix.symbols
      PROVE  /\ symbol(i).kind = ix.symbols[i].kind
             /\ symbol(i).range.start = ix.symbols[i].range.start
             /\ symbol(i).selection.start = ix.symbols[i].selection.start
             /\ ix.symbols[i].selection.end # Open =>
                  symbol(i).selection.end = ix.symbols[i].selection.end
  <2> DEFINE old == ix.symbols[i]
  <2>1. old \in Symbol /\ old.range \in Ends /\ old.selection \in Selected
    BY IndexParts DEF Symbol
  <2>2. CASE i = block.symbol
    <3>1. symbol(i) = EndSymbol(old)
      BY <2>2
    <3> HIDE DEF old, symbol
    <3> DEFINE end == IF old.selection.end = Open THEN Here ELSE old.selection.end
               a == [old.range EXCEPT !.end = Here]
               b == [old.selection EXCEPT !.end = end]
    <3>2. symbol(i) = [old EXCEPT !.range = a, !.selection = b]
      BY <2>1, <3>1 DEF Symbol, Ends, Selected, EndSymbol
    <3>3. a.start = old.range.start /\ b.start = old.selection.start /\ b.end = end
      <4> HIDE DEF end
      <4> QED BY <2>1 DEF Ends, Selected
    <3>4. old.selection.end # Open => end = old.selection.end
      OBVIOUS
    <3> HIDE DEF a, b, end
    <3>5. /\ symbol(i).kind = old.kind /\ symbol(i).range = a /\ symbol(i).selection = b
      BY <2>1, <3>2 DEF Symbol
    <3> QED BY <3>3, <3>4, <3>5 DEF old
  <2>3. CASE i # block.symbol
    <3>1. symbol(i) = old
      BY <2>3
    <3> HIDE DEF symbol
    <3> QED BY <3>1
  <2> QED BY <2>2, <2>3
<1>3. jx.symbols = syms /\ jx.references = ix.references /\ DOMAIN jx = DOMAIN ix
  <2> HIDE DEF syms, scs, jx
  <2> QED BY <1>1 DEF Index
<1>4. /\ DOMAIN jx.symbols = DOMAIN ix.symbols
      /\ \A i \in DOMAIN ix.symbols : jx.symbols[i] = symbol(i)
  <2> HIDE DEF jx, symbol
  <2> QED BY <1>3
<1> HIDE DEF jx, symbol, syms
<1>5. Distinct(jx, words, here)
  BY <1>2, <1>3, <1>4, DistinctSame
<1>6. lx.symbols = jx.symbols /\ lx.references = jx.references
  BY <1>3 DEF Leave, Index
<1> HIDE DEF lx
<1>7. Distinct(lx, words, here)
  BY <1>5, <1>6, DistinctSame
<1>8. Listed(jx)
  <2>1. /\ DOMAIN ix.symbols = 1 .. Len(ix.symbols) /\ Len(ix.symbols) \in Nat
        /\ ix.references \in Seq(Reference)
    BY IndexParts
  <2> DEFINE S == {syms[i] : i \in 1 .. Len(ix.symbols)}
             n == Len(ix.symbols)
  <2>2. syms \in [1 .. n -> S]
    <3>1. syms = [i \in 1 .. n |-> syms[i]]
      BY <2>1 DEF syms
    <3> QED BY <3>1
  <2> HIDE DEF S, n
  <2>3. syms \in Seq(S)
    BY <2>1, <2>2, SeqDef DEF n
  <2>4. "symbols" \in DOMAIN jx /\ "references" \in DOMAIN jx
    BY <1>3 DEF Index
  <2> QED BY <1>3, <2>1, <2>3, <2>4 DEF Listed
<1> QED BY <1>5, <1>7, <1>8 DEF jx, lx
-------------------------------------------------------------------------------
-------------------------------------------------------------------------------
(***************************************************************************)
(* Every statement keeps uses and names apart.                             *)
(***************************************************************************)
UsesApart == Distinct(index, text, Here)

LEMMA TextGoesOn ==
  ASSUME IInv, UsesApart, NEW words \in Seq(Word), Statement(words)
  PROVE  /\ Distinct(index, text', Here) /\ index \in Index /\ Listed(index)
         /\ Here \in Nat /\ Len(words) \in Nat
         /\ Len(text') = Here + Len(words) /\ Here' = Here + Len(words)
         /\ \A k \in 1 .. Len(words) : text'[Here + k] = words[k]
<1>1. /\ text \in Seq(Word) /\ index \in Index
  BY GoodParts DEF IInv
<1>2. Listed(index)
  BY <1>1, IndexListed
<1>3. /\ Here \in Nat /\ Len(words) \in Nat /\ Here' = Here + Len(words)
  BY <1>1, StatementTaken
<1>4. text' = text \o words /\ Here = Len(text) /\ Here' = Len(text')
  BY DEF Statement, Here
<1>5. Distinct(index, text \o words, Len(text))
  BY <1>1, <1>4, DistinctGrows DEF UsesApart
<1>6. ASSUME NEW k \in 1 .. Len(words) PROVE (text \o words)[Here + k] = words[k]
  <2>1. /\ Here + k \in 1 .. Len(text) + Len(words) /\ ~ (Here + k <= Len(text))
        /\ (Here + k) - Len(text) = k
    BY <1>3, <1>4
  <2>2. \A i \in 1 .. Len(text) + Len(words) :
          (text \o words)[i] = IF i <= Len(text) THEN text[i] ELSE words[i - Len(text)]
    BY <1>1, ConcatProperties
  <2> QED BY <2>1, <2>2
<1> QED BY <1>1, <1>2, <1>3, <1>4, <1>5, <1>6

LEMMA ApartTaken ==
  ASSUME IInv, UsesApart, NEW words \in Seq(Word), Statement(words), NEW jx, index' = jx,
         NEW hi, hi = Here + Len(words), MarksApart(index, jx, Here, hi)
  PROVE  UsesApart'
<1> DEFINE more == text'
<1>1. /\ Distinct(index, more, Here) /\ Here \in Nat /\ hi \in Nat /\ Here <= hi /\ Here' = hi
  <2>1. /\ Distinct(index, more, Here) /\ Here \in Nat /\ Len(words) \in Nat
        /\ Here' = Here + Len(words)
    BY TextGoesOn
  <2> QED BY <2>1
<1> HIDE DEF more
<1>2. Distinct(jx, more, hi)
  BY <1>1, DistinctMarks
<1>3. UsesApart' = Distinct(index', text', Here')
  BY DEF UsesApart
<1> QED BY <1>1, <1>2, <1>3 DEF more

\* Two parts of a statement, in either order.
LEMMA PartsApart ==
  ASSUME ScopeIndexAssumption, NEW ix, Listed(ix), NEW t \in Expression, NEW e \in Expression,
         NEW a \in Nat, NEW b \in Nat, NEW lo \in Nat, NEW hi \in Nat, lo <= a, lo <= b,
         a + Len(Words(t)) <= hi, b + Len(Words(e)) <= hi,
         a + Len(Words(t)) <= b \/ b + Len(Words(e)) <= a
  PROVE  /\ MarksApart(ix, VisitTarget(VisitExpr(ix, e, b), t, a), lo, hi)
         /\ MarksApart(ix, VisitExpr(VisitExpr(ix, e, b), t, a), lo, hi)
<1> DEFINE c == a + Len(Words(t))
           d == b + Len(Words(e))
           jx == VisitExpr(ix, e, b)
           kx == VisitTarget(jx, t, a)
           lx == VisitExpr(jx, t, a)
<1>1. c \in Nat /\ d \in Nat /\ c <= hi /\ d <= hi /\ (c <= b \/ d <= a)
  BY WordsTyped
<1>2. MarksApart(ix, jx, b, d)
  BY <1>1, ExprApart
<1> HIDE DEF jx
<1>3. Listed(jx)
  BY <1>2 DEF MarksApart, Marks
<1>4. MarksApart(jx, kx, a, c) /\ MarksApart(jx, lx, a, c)
  BY <1>1, <1>3, ExprApart, TargetApart
<1> HIDE DEF kx, lx, c, d
<1>5. MarksApart(ix, kx, lo, hi)
  BY <1>1, <1>2, <1>4, ApartOn
<1>6. MarksApart(ix, lx, lo, hi)
  BY <1>1, <1>2, <1>4, ApartOn
<1> QED BY <1>5, <1>6 DEF jx, kx, lx

LEMMA UseApart == ScopeIndexAssumption /\ IInv /\ UsesApart /\ VisitUse => UsesApart'
<1> SUFFICES ASSUME ScopeIndexAssumption, IInv, UsesApart, VisitUse PROVE UsesApart'
  OBVIOUS
<1>1. PICK e \in Exprs : Simple(Words(e), VisitExpr(index, e, Here))
  BY DEF VisitUse
<1> DEFINE jx == VisitExpr(index, e, Here)
           words == Words(e)
           hi == Here + Len(words)
<1>2. e \in Expression /\ Statement(words) /\ index' = jx
  BY <1>1 DEF ScopeIndexAssumption, Simple
<1>3. words \in Seq(Word)
  BY <1>2, WordsTyped
<1>4. Listed(index) /\ Here \in Nat /\ hi \in Nat
  <2>1. Listed(index) /\ Here \in Nat /\ Len(words) \in Nat
    BY <1>2, <1>3, TextGoesOn
  <2> QED BY <2>1
<1>5. MarksApart(index, jx, Here, hi)
  BY <1>2, <1>4, ExprApart
<1> HIDE DEF jx, words
<1> QED BY <1>2, <1>3, <1>5, ApartTaken

LEMMA InertApart ==
  ScopeIndexAssumption /\ IInv /\ UsesApart /\ (VisitInert \/ VisitTry) => UsesApart'
<1> SUFFICES ASSUME ScopeIndexAssumption, IInv, UsesApart, VisitInert \/ VisitTry
             PROVE  UsesApart'
  OBVIOUS
<1>1. PICK word \in Reserved : Statement(<<word>>) /\ index' = index
  <2>1. CASE VisitInert
    <3>1. "pass" \in Reserved
      BY DEF Reserved
    <3> QED BY <2>1, <3>1 DEF VisitInert, Simple
  <2>2. CASE VisitTry
    <3>1. "try" \in Reserved
      BY DEF Reserved
    <3> QED BY <2>2, <3>1 DEF VisitTry, Plain
  <2> QED BY <2>1, <2>2
<1> DEFINE words == <<word>>
           hi == Here + Len(words)
<1>2. words \in Seq(Word) /\ Statement(words)
  BY <1>1, WordsTyped
<1> HIDE DEF words
<1>3. MarksApart(index, index, Here, hi)
  <2>1. Listed(index)
    BY <1>2, TextGoesOn
  <2>2. Marks(index, index, {}, {})
    BY <2>1, MarksNothing
  <2>3. {} \in SUBSET (Here .. hi - 1) /\ {} \cap {} = {}
    OBVIOUS
  <2> QED BY <2>2, <2>3 DEF MarksApart
<1> QED BY <1>1, <1>2, <1>3, ApartTaken

LEMMA AssignApart ==
  ScopeIndexAssumption /\ IInv /\ UsesApart /\ (VisitAssign \/ VisitAugAssign) => UsesApart'
<1> SUFFICES ASSUME ScopeIndexAssumption, IInv, UsesApart, VisitAssign \/ VisitAugAssign
             PROVE  UsesApart'
  OBVIOUS
<1>1. PICK t \in Targets, e \in Exprs :
        /\ Statement(Words(t) \o Words(e))
        /\ \/ index' = VisitTarget(VisitExpr(index, e, Here + Len(Words(t))), t, Here)
           \/ index' = VisitExpr(VisitExpr(index, t, Here), e, Here + Len(Words(t)))
  BY DEF VisitAssign, VisitAugAssign, Simple
<1>2. t \in Expression /\ e \in Expression
  BY DEF ScopeIndexAssumption
<1> DEFINE words == Words(t) \o Words(e)
           b == Here + Len(Words(t))
           hi == Here + Len(words)
<1>3. /\ words \in Seq(Word) /\ Len(words) = Len(Words(t)) + Len(Words(e))
      /\ Len(Words(t)) \in Nat /\ Len(Words(e)) \in Nat
  BY <1>2, WordsTyped
<1>4. Statement(words)
  BY <1>1
<1> HIDE DEF words
<1>5. /\ Listed(index) /\ Here \in Nat /\ b \in Nat /\ hi \in Nat /\ Here <= b
      /\ b + Len(Words(e)) <= hi /\ Here + Len(Words(t)) <= hi
      /\ Here + Len(Words(t)) <= b /\ Here <= Here
  <2>1. Listed(index) /\ Here \in Nat
    BY <1>3, <1>4, TextGoesOn
  <2> QED BY <1>3, <2>1
<1> HIDE DEF b, hi
<1>6. MarksApart(index, VisitTarget(VisitExpr(index, e, b), t, Here), Here, hi)
  BY <1>2, <1>5, PartsApart
<1>7. MarksApart(index, VisitExpr(VisitExpr(index, t, Here), e, b), Here, hi)
  BY <1>2, <1>5, PartsApart
<1>8. PICK jx : index' = jx /\ MarksApart(index, jx, Here, hi)
  BY <1>1, <1>6, <1>7 DEF b
<1> QED BY <1>3, <1>4, <1>8, ApartTaken DEF hi

\* A statement of its keyword and what follows.
LEMMA AfterKeyword ==
  ASSUME ScopeIndexAssumption, NEW word \in Reserved, NEW q \in Seq(Word), NEW r \in Seq(Word)
  PROVE  /\ <<word>> \o q \in Seq(Word) /\ Len(<<word>> \o q) = 1 + Len(q)
         /\ <<word>> \o q \o r \in Seq(Word)
         /\ Len(<<word>> \o q \o r) = (1 + Len(q)) + Len(r)
         /\ Len(q) \in Nat /\ Len(r) \in Nat
<1>1. <<word>> \in Seq(Word) /\ Len(<<word>>) = 1 /\ Len(q) \in Nat /\ Len(r) \in Nat
  BY WordsTyped
<1>2. <<word>> \o q \in Seq(Word) /\ Len(<<word>> \o q) = 1 + Len(q)
  BY <1>1, ConcatProperties
<1>3. /\ <<word>> \o q \o r \in Seq(Word)
      /\ Len(<<word>> \o q \o r) = Len(<<word>> \o q) + Len(r)
  BY <1>2, ConcatProperties
<1> QED BY <1>1, <1>2, <1>3

LEMMA AnnAssignApart ==
  ScopeIndexAssumption /\ IInv /\ UsesApart /\ VisitAnnAssign => UsesApart'
<1> SUFFICES ASSUME ScopeIndexAssumption, IInv, UsesApart, VisitAnnAssign PROVE UsesApart'
  OBVIOUS
<1>1. PICK t \in Targets, annotation \in Names, e \in Exprs :
        LET at == Here + Len(Words(t))
            value == VisitExpr(AddReference(index, annotation, at), e, at + 1)
        IN  Simple(Words(t) \o <<annotation>> \o Words(e), VisitTarget(value, t, Here))
  BY DEF VisitAnnAssign
<1> DEFINE words == Words(t) \o <<annotation>> \o Words(e)
           at == Here + Len(Words(t))
           b  == at + 1
           hi == Here + Len(words)
           ax == AddReference(index, annotation, at)
           jx == VisitTarget(VisitExpr(ax, e, b), t, Here)
<1>2. t \in Expression /\ e \in Expression
  BY DEF ScopeIndexAssumption
<1>3. Statement(words) /\ index' = jx
  BY <1>1 DEF Simple
<1>4. /\ words \in Seq(Word) /\ Len(words) = (Len(Words(t)) + 1) + Len(Words(e))
      /\ Len(Words(t)) \in Nat /\ Len(Words(e)) \in Nat
  <2>1. /\ Words(t) \in Seq(Word) /\ Words(e) \in Seq(Word) /\ <<annotation>> \in Seq(Word)
        /\ Len(Words(t)) \in Nat /\ Len(Words(e)) \in Nat /\ Len(<<annotation>>) = 1
    BY <1>2, WordsTyped
  <2>2. /\ Words(t) \o <<annotation>> \in Seq(Word)
        /\ Len(Words(t) \o <<annotation>>) = Len(Words(t)) + 1
    BY <2>1, ConcatProperties
  <2>3. words \in Seq(Word) /\ Len(words) = Len(Words(t) \o <<annotation>>) + Len(Words(e))
    BY <2>1, <2>2, ConcatProperties
  <2> QED BY <2>1, <2>2, <2>3
<1> HIDE DEF words
<1> DEFINE c == Here + Len(Words(t))
           d == b + Len(Words(e))
<1>5. /\ Listed(index) /\ Here \in Nat /\ at \in Nat /\ b \in Nat /\ hi \in Nat
      /\ c \in Nat /\ d \in Nat /\ at + 1 = b /\ Here <= at /\ Here <= b /\ Here <= Here
      /\ at <= hi /\ b <= hi /\ d <= hi /\ c <= at /\ c <= hi /\ c <= b
  <2>1. Listed(index) /\ Here \in Nat
    BY <1>3, <1>4, TextGoesOn
  <2> QED BY <1>4, <2>1
<1> HIDE DEF hi, b, at, jx
\* The annotation, and on either side of it the value and the target.
<1>6. MarksApart(index, ax, at, b)
  <2>1. Marks(index, ax, {at}, {})
    BY <1>5, ReferenceMarks
  <2>2. {at} \in SUBSET (at .. b - 1) /\ {} \in SUBSET (at .. b - 1) /\ {at} \cap {} = {}
    BY <1>5
  <2> QED BY <2>1, <2>2 DEF MarksApart
<1> HIDE DEF ax
<1> DEFINE vx == VisitExpr(ax, e, b)
           kx == VisitTarget(vx, t, Here)
<1>7. Listed(ax)
  BY <1>6 DEF MarksApart, Marks
<1>8. MarksApart(ax, vx, b, d)
  BY <1>2, <1>5, <1>7, ExprApart
<1> HIDE DEF vx
<1>9. Listed(vx)
  BY <1>8 DEF MarksApart, Marks
<1>10. MarksApart(vx, kx, Here, c)
  BY <1>2, <1>5, <1>9, TargetApart
<1> HIDE DEF kx, c, d
<1>11. MarksApart(index, vx, at, hi)
  <2>1. at <= at /\ at <= b /\ b <= hi /\ d <= hi /\ b <= b
    BY <1>5
  <2> QED BY <1>5, <1>6, <1>8, <2>1, ApartOn
<1>12. MarksApart(index, kx, Here, hi)
  <2>1. hi <= hi
    BY <1>5
  <2> QED BY <1>5, <1>10, <1>11, <2>1, ApartOn
<1>13. jx = kx
  BY DEF jx, kx, vx, b
<1> QED BY <1>3, <1>4, <1>12, <1>13, ApartTaken DEF hi

LEMMA BranchApart == ScopeIndexAssumption /\ IInv /\ UsesApart /\ VisitBranch => UsesApart'
<1> SUFFICES ASSUME ScopeIndexAssumption, IInv, UsesApart, VisitBranch PROVE UsesApart'
  OBVIOUS
<1>1. PICK e \in Exprs : Plain("branch", <<"if">> \o Words(e), VisitExpr(index, e, Here + 1))
  BY DEF VisitBranch
<1> DEFINE words == <<"if">> \o Words(e)
           at == Here + 1
           hi == Here + Len(words)
           jx == VisitExpr(index, e, at)
<1>2. e \in Expression /\ Statement(words) /\ index' = jx
  BY <1>1 DEF ScopeIndexAssumption, Plain
<1>3. words \in Seq(Word) /\ Len(words) = 1 + Len(Words(e)) /\ Len(Words(e)) \in Nat
  <2>1. "if" \in Reserved /\ Words(e) \in Seq(Word)
    BY <1>2, WordsTyped DEF Reserved
  <2> QED BY <2>1, AfterKeyword
<1> HIDE DEF words
<1>4. /\ Listed(index) /\ Here \in Nat /\ at \in Nat /\ hi \in Nat
      /\ hi = at + Len(Words(e)) /\ Here <= at /\ hi <= hi
  <2>1. Listed(index) /\ Here \in Nat
    BY <1>2, <1>3, TextGoesOn
  <2> QED BY <1>3, <2>1
<1> HIDE DEF at, hi
<1>5. MarksApart(index, jx, at, hi)
  BY <1>2, <1>4, ExprApart
<1> HIDE DEF jx
<1>6. MarksApart(index, jx, Here, hi)
  BY <1>4, <1>5, ApartWider
<1> QED BY <1>2, <1>3, <1>6, ApartTaken DEF hi

LEMMA ForApart == ScopeIndexAssumption /\ IInv /\ UsesApart /\ VisitFor => UsesApart'
<1> SUFFICES ASSUME ScopeIndexAssumption, IInv, UsesApart, VisitFor PROVE UsesApart'
  OBVIOUS
<1>1. PICK t \in Targets, e \in Exprs :
        Plain("for", <<"for">> \o Words(t) \o Words(e),
              VisitTarget(VisitExpr(index, e, Here + 1 + Len(Words(t))), t, Here + 1))
  BY DEF VisitFor
<1> DEFINE words == <<"for">> \o Words(t) \o Words(e)
           a == Here + 1
           b == Here + 1 + Len(Words(t))
           hi == Here + Len(words)
           jx == VisitTarget(VisitExpr(index, e, b), t, a)
<1>2. t \in Expression /\ e \in Expression /\ Statement(words) /\ index' = jx
  BY <1>1 DEF ScopeIndexAssumption, Plain
<1>3. /\ words \in Seq(Word) /\ Len(words) = (1 + Len(Words(t))) + Len(Words(e))
      /\ Len(Words(t)) \in Nat /\ Len(Words(e)) \in Nat
  <2>1. "for" \in Reserved /\ Words(t) \in Seq(Word) /\ Words(e) \in Seq(Word)
    BY <1>2, WordsTyped DEF Reserved
  <2> QED BY <2>1, AfterKeyword
<1> HIDE DEF words
<1>4. /\ Listed(index) /\ Here \in Nat /\ a \in Nat /\ b \in Nat /\ hi \in Nat
      /\ Here <= a /\ Here <= b /\ a + Len(Words(t)) <= hi /\ b + Len(Words(e)) <= hi
      /\ a + Len(Words(t)) <= b
  <2>1. Listed(index) /\ Here \in Nat
    BY <1>2, <1>3, TextGoesOn
  <2> QED BY <1>3, <2>1
<1> HIDE DEF a, b, hi
<1>5. MarksApart(index, jx, Here, hi)
  BY <1>2, <1>4, PartsApart
<1> HIDE DEF jx
<1> QED BY <1>2, <1>3, <1>5, ApartTaken DEF hi

LEMMA WithApart == ScopeIndexAssumption /\ IInv /\ UsesApart /\ VisitWith => UsesApart'
<1> SUFFICES ASSUME ScopeIndexAssumption, IInv, UsesApart, VisitWith PROVE UsesApart'
  OBVIOUS
<1>1. PICK t \in Targets, e \in Exprs :
        Plain("with", <<"with">> \o Words(e) \o Words(t),
              VisitTarget(VisitExpr(index, e, Here + 1), t, Here + 1 + Len(Words(e))))
  BY DEF VisitWith
<1> DEFINE words == <<"with">> \o Words(e) \o Words(t)
           a == Here + 1 + Len(Words(e))
           b == Here + 1
           hi == Here + Len(words)
           jx == VisitTarget(VisitExpr(index, e, b), t, a)
<1>2. t \in Expression /\ e \in Expression /\ Statement(words) /\ index' = jx
  BY <1>1 DEF ScopeIndexAssumption, Plain
<1>3. /\ words \in Seq(Word) /\ Len(words) = (1 + Len(Words(e))) + Len(Words(t))
      /\ Len(Words(t)) \in Nat /\ Len(Words(e)) \in Nat
  <2>1. "with" \in Reserved /\ Words(t) \in Seq(Word) /\ Words(e) \in Seq(Word)
    BY <1>2, WordsTyped DEF Reserved
  <2> QED BY <2>1, AfterKeyword
<1> HIDE DEF words
<1>4. /\ Listed(index) /\ Here \in Nat /\ a \in Nat /\ b \in Nat /\ hi \in Nat
      /\ Here <= a /\ Here <= b /\ a + Len(Words(t)) <= hi /\ b + Len(Words(e)) <= hi
      /\ b + Len(Words(e)) <= a
  <2>1. Listed(index) /\ Here \in Nat
    BY <1>2, <1>3, TextGoesOn
  <2> QED BY <1>3, <2>1
<1> HIDE DEF a, b, hi
<1>5. MarksApart(index, jx, Here, hi)
  BY <1>2, <1>4, PartsApart
<1> HIDE DEF jx
<1> QED BY <1>2, <1>3, <1>5, ApartTaken DEF hi

\* The end of a body, and of the module, move only ends.
LEMMA EndsApart == IInv /\ UsesApart /\ (EndBody \/ FinishModule) => UsesApart'
<1> SUFFICES ASSUME IInv, UsesApart, EndBody \/ FinishModule PROVE UsesApart'
  OBVIOUS
<1>1. index \in Index
  BY GoodParts DEF IInv
<1>2. PICK block : /\ index' = Ended(index, block) \/ index' = Leave(Ended(index, block))
                   /\ text' = text
  BY DEF EndBody, FinishModule
<1> DEFINE here == Here
<1>3. /\ Distinct(Ended(index, block), text, here)
      /\ Distinct(Leave(Ended(index, block)), text, here)
  <2>1. Distinct(index, text, here)
    BY DEF UsesApart
  <2> HIDE DEF here
  <2> QED BY <1>1, <2>1, DistinctEnded
<1>4. Here' = here /\ UsesApart' = Distinct(index', text', Here')
  BY <1>2 DEF Here, UsesApart
<1> QED BY <1>2, <1>3, <1>4

-------------------------------------------------------------------------------
(***************************************************************************)
(* The statements that bind a name by name_range, or by the whole of it.   *)
(***************************************************************************)
Adding(ix, jx, U, D, kind, range, selection) ==
  /\ Listed(jx)
  /\ \A i \in DOMAIN jx.symbols :
       \/ i \in DOMAIN ix.symbols /\ jx.symbols[i] = ix.symbols[i]
       \/ BoundAt(jx.symbols[i], D)
       \/ /\ jx.symbols[i].kind = kind /\ jx.symbols[i].range = range
          /\ jx.symbols[i].selection = selection
  /\ \A r \in DOMAIN jx.references :
       \/ r \in DOMAIN ix.references /\ jx.references[r] = ix.references[r]
       \/ UseAt(jx.references[r], U)

LEMMA SymbolAdding ==
  ASSUME NEW ix, Listed(ix), NEW name, NEW kind, NEW range, NEW selection, NEW U, NEW D
  PROVE  Adding(ix, AddSymbol(ix, name, kind, range, selection), U, D, kind, range, selection)
<1> DEFINE new == [name |-> name, kind |-> kind, range |-> range,
                   selection |-> selection, scope |-> ix.current]
           jx == AddSymbol(ix, name, kind, range, selection)
<1>1. new.kind = kind /\ new.range = range /\ new.selection = selection
  OBVIOUS
<1>2. jx = [ix EXCEPT !.symbols = Append(@, new)]
  BY DEF AddSymbol
<1> HIDE DEF jx, new
<1>3. /\ jx.symbols = Append(ix.symbols, new) /\ jx.references = ix.references
      /\ DOMAIN jx = DOMAIN ix
  BY <1>2 DEF Listed
<1>4. PICK S : ix.symbols \in Seq(S)
  BY DEF Listed
<1>5. /\ \E T : jx.symbols \in Seq(T)
      /\ \A i \in DOMAIN jx.symbols :
           (i \in DOMAIN ix.symbols /\ jx.symbols[i] = ix.symbols[i]) \/ jx.symbols[i] = new
  <2> DEFINE q == ix.symbols
  <2>1. q \in Seq(S) /\ jx.symbols = Append(q, new)
    BY <1>3, <1>4
  <2> HIDE DEF q
  <2>2. /\ \E T : Append(q, new) \in Seq(T)
        /\ \A i \in DOMAIN Append(q, new) :
             (i \in DOMAIN q /\ Append(q, new)[i] = q[i]) \/ Append(q, new)[i] = new
    BY <2>1, OneMore
  <2> QED BY <2>1, <2>2 DEF q
<1>6. Listed(jx)
  BY <1>3, <1>5 DEF Listed
<1> QED BY <1>1, <1>3, <1>5, <1>6 DEF Adding, jx

LEMMA AddingOn ==
  ASSUME NEW ix, NEW jx, NEW kx, NEW U, NEW D, NEW kind, NEW range, NEW selection
  PROVE  /\ Marks(ix, jx, U, D) => Adding(ix, jx, U, D, kind, range, selection)
         /\ Marks(ix, jx, U, D) /\ Adding(jx, kx, U, D, kind, range, selection)
              => Adding(ix, kx, U, D, kind, range, selection)
         /\ Adding(ix, jx, U, D, kind, range, selection) /\ Marks(jx, kx, U, D)
              => Adding(ix, kx, U, D, kind, range, selection)
<1>1. Marks(ix, jx, U, D) => Adding(ix, jx, U, D, kind, range, selection)
  BY DEF Marks, Adding
<1>2. ASSUME Marks(ix, jx, U, D), Adding(jx, kx, U, D, kind, range, selection)
      PROVE  Adding(ix, kx, U, D, kind, range, selection)
  <2>1. ASSUME NEW i \in DOMAIN kx.symbols
        PROVE  \/ i \in DOMAIN ix.symbols /\ kx.symbols[i] = ix.symbols[i]
               \/ BoundAt(kx.symbols[i], D)
               \/ /\ kx.symbols[i].kind = kind /\ kx.symbols[i].range = range
                  /\ kx.symbols[i].selection = selection
    BY <1>2 DEF Marks, Adding
  <2>2. ASSUME NEW r \in DOMAIN kx.references
        PROVE  \/ r \in DOMAIN ix.references /\ kx.references[r] = ix.references[r]
               \/ UseAt(kx.references[r], U)
    BY <1>2 DEF Marks, Adding
  <2> QED BY <1>2, <2>1, <2>2 DEF Adding
<1>3. ASSUME Adding(ix, jx, U, D, kind, range, selection), Marks(jx, kx, U, D)
      PROVE  Adding(ix, kx, U, D, kind, range, selection)
  <2>1. ASSUME NEW i \in DOMAIN kx.symbols
        PROVE  \/ i \in DOMAIN ix.symbols /\ kx.symbols[i] = ix.symbols[i]
               \/ BoundAt(kx.symbols[i], D)
               \/ /\ kx.symbols[i].kind = kind /\ kx.symbols[i].range = range
                  /\ kx.symbols[i].selection = selection
    BY <1>3 DEF Marks, Adding
  <2>2. ASSUME NEW r \in DOMAIN kx.references
        PROVE  \/ r \in DOMAIN ix.references /\ kx.references[r] = ix.references[r]
               \/ UseAt(kx.references[r], U)
    BY <1>3 DEF Marks, Adding
  <2> QED BY <1>3, <2>1, <2>2 DEF Marks, Adding
<1> QED BY <1>1, <1>2, <1>3

\* The one symbol may be in the way of no use, or is excused.
OutOfTheWay(more, U, kind, range, selection) ==
  \/ more[selection.start + 1] = "except"
  \/ /\ kind \in {"Function", "Method", "Class"}
     /\ \A w \in range.start .. selection.start : more[w + 1] \notin {"def", "class"}
  \/ selection.start \notin U

LEMMA AddingTaken ==
  ASSUME text \in Seq(Word), NEW ix, Distinct(ix, text, Here), NEW words \in Seq(Word),
         Statement(words), NEW hi, hi = Here + Len(words), NEW jx, index' = jx,
         NEW U \in SUBSET (Here .. hi - 1), NEW D \in SUBSET (Here .. hi - 1), U \cap D = {},
         NEW kind, NEW range, NEW selection, Adding(ix, jx, U, D, kind, range, selection),
         selection.start \in Here .. hi - 1, range.start \in Here .. selection.start,
         text'[selection.start + 1] # "except" => selection.end = selection.start + 1,
         OutOfTheWay(text', U, kind, range, selection)
  PROVE  UsesApart'
<1> DEFINE more == text'
           a == Here
<1>1. /\ a \in Nat /\ hi \in Nat /\ a <= hi /\ Here' = hi /\ Distinct(ix, more, a)
  <2>1. Here \in Nat /\ Len(words) \in Nat /\ Here' = Here + Len(words)
    BY StatementTaken
  <2>2. text' = text \o words /\ Here = Len(text)
    BY DEF Statement, Here
  <2>3. Distinct(ix, text \o words, Len(text))
    BY <2>2, DistinctGrows
  <2> QED BY <2>1, <2>2, <2>3
<1>2. /\ U \in SUBSET (a .. hi - 1) /\ D \in SUBSET (a .. hi - 1)
      /\ selection.start \in a .. hi - 1 /\ range.start \in a .. selection.start
      /\ more[selection.start + 1] # "except" => selection.end = selection.start + 1
      /\ OutOfTheWay(more, U, kind, range, selection)
  <2>1. OutOfTheWay(more, U, kind, range, selection)
    OBVIOUS
  <2>2. more[selection.start + 1] # "except" => selection.end = selection.start + 1
    OBVIOUS
  <2> HIDE DEF more
  <2>3. /\ U \in SUBSET (a .. hi - 1) /\ D \in SUBSET (a .. hi - 1)
        /\ selection.start \in a .. hi - 1 /\ range.start \in a .. selection.start
    BY <1>1
  <2> QED BY <2>1, <2>2, <2>3
<1> HIDE DEF more, a
<1>3. NewUses(ix, jx, U)
  BY DEF Adding, NewUses
<1>4. \A symbol : BoundAt(symbol, D) => /\ Placed(symbol, more, hi)
                                        /\ a <= symbol.selection.start
                                        /\ symbol.selection.start \notin U
  <2> SUFFICES ASSUME NEW symbol, BoundAt(symbol, D)
               PROVE  /\ Placed(symbol, more, hi) /\ a <= symbol.selection.start
                      /\ symbol.selection.start \notin U
    OBVIOUS
  <2>1. /\ symbol.selection.start \in D /\ symbol.selection.start \in a .. hi - 1
        /\ symbol.selection.end = symbol.selection.start + 1
        /\ symbol.range.start = symbol.selection.start
    BY <1>2 DEF BoundAt
  <2> QED BY <1>1, <2>1 DEF Placed
<1>5. ASSUME NEW symbol, symbol.kind = kind, symbol.range = range,
             symbol.selection = selection
      PROVE  /\ Placed(symbol, more, hi) /\ a <= symbol.selection.start
             /\ Excused(symbol, more) \/ symbol.selection.start \notin U
  <2>1. Placed(symbol, more, hi) /\ a <= symbol.selection.start
    BY <1>1, <1>2, <1>5 DEF Placed
  <2>2. Excused(symbol, more) \/ symbol.selection.start \notin U
    BY <1>2, <1>5 DEF Excused, OutOfTheWay
  <2> QED BY <2>1, <2>2
<1>6. NewNames(ix, jx, more, a, hi, U)
  BY <1>4, <1>5 DEF Adding, NewNames
<1>7. Distinct(jx, more, hi)
  BY <1>1, <1>2, <1>3, <1>6, DistinctBy
<1>8. UsesApart' = Distinct(index', text', Here')
  BY DEF UsesApart
<1> QED BY <1>1, <1>7, <1>8 DEF more

LEMMA NameRangeAtMost ==
  ASSUME NEW words, NEW name, NEW first \in Nat, NEW last \in Nat,
         NEW k \in first .. last - 1, words[k + 1] = name
  PROVE  LET selection == NameRange(words, name, first, last)
         IN  selection.start \in first .. k /\ selection.end = selection.start + 1
<1> DEFINE Found(i, half) == <<words[i + 1], name, half>> \in Within
           holds == {i \in first .. last - 1 :
                       words[i + 1] = name \/ Found(i, 1) \/ Found(i, 2)}
           at == IF holds = {} THEN first ELSE Min(holds)
           part == CASE words[at + 1] = name -> 0
                     [] words[at + 1] # name /\ Found(at, 1) -> 1
                     [] OTHER -> 2
           least == Min(holds)
<1>1. NameRange(words, name, first, last) = [start |-> at, end |-> at + 1, half |-> part]
  BY DEF NameRange
<1>2. k \in holds /\ holds \subseteq Nat /\ holds \subseteq first .. last - 1
  OBVIOUS
<1> HIDE DEF holds, part
<1>3. at = least
  BY <1>2
<1>4. least \in holds /\ least <= k
  BY <1>2, LeastOf
<1> HIDE DEF at, least
<1>5. at \in first .. k
  BY <1>2, <1>3, <1>4
<1> QED BY <1>1, <1>5

LEMMA FirstOf ==
  ASSUME NEW S, NEW q \in Seq(S), NEW r \in Seq(S), NEW k \in 1 .. Len(q)
  PROVE  /\ q \o r \in Seq(S) /\ Len(q \o r) = Len(q) + Len(r) /\ Len(q) \in Nat
         /\ Len(r) \in Nat /\ (q \o r)[k] = q[k]
<1>1. /\ q \o r \in Seq(S) /\ Len(q \o r) = Len(q) + Len(r)
      /\ Len(q) \in Nat /\ Len(r) \in Nat
      /\ \A i \in 1 .. Len(q) + Len(r) :
           (q \o r)[i] = IF i <= Len(q) THEN q[i] ELSE r[i - Len(q)]
  BY ConcatProperties, LenProperties
<1>2. k \in 1 .. Len(q) + Len(r) /\ k <= Len(q)
  BY <1>1
<1> QED BY <1>1, <1>2

LEMMA ImportApart == ScopeIndexAssumption /\ IInv /\ UsesApart /\ VisitImport => UsesApart'
<1> SUFFICES ASSUME ScopeIndexAssumption, IInv, UsesApart, VisitImport PROVE UsesApart'
  OBVIOUS
<1>1. PICK name \in Names, kind \in {"Import", "ImportedSymbol"}, alias \in {<<>>, <<"os", "as">>} :
        LET words == <<"import">> \o alias \o <<name>>
            range == Span(Here + 1, Here + Len(words))
        IN  /\ Statement(words)
            /\ index' = AddSymbol(index, name, kind, range,
                                  NameRange(text', name, range.start, range.end))
            /\ blocks' = Filled
  BY DEF VisitImport
<1> DEFINE words == <<"import">> \o alias \o <<name>>
           hi == Here + Len(words)
           lo == Here + 1
           range == Span(lo, hi)
           selection == NameRange(text', name, lo, hi)
           jx == AddSymbol(index, name, kind, range, selection)
<1>2. words \in Seq(Word) /\ Len(words) >= 2
  <2>1. "import" \in Reserved /\ <<name>> \in Seq(Word) /\ Len(<<name>>) = 1
    BY WordsTyped DEF Reserved
  <2>2. alias \in Seq(Word)
    <3>1. <<"os", "as">> \in Seq(Word)
      <4>1. "os" \in Word /\ "as" \in Word
        BY DEF Word, Reserved
      <4> HIDE DEF Word
      <4> QED BY <4>1
    <3> HIDE DEF Word
    <3>2. <<>> \in Seq(Word)
      BY EmptySeq
    <3>3. CASE alias = <<>>
      BY <3>2, <3>3
    <3>4. CASE alias = <<"os", "as">>
      BY <3>1, <3>4
    <3> QED BY <3>3, <3>4
  <2>3. /\ words \in Seq(Word) /\ Len(words) = (1 + Len(alias)) + Len(<<name>>)
        /\ Len(alias) \in Nat
    BY <2>1, <2>2, AfterKeyword
  <2> QED BY <2>1, <2>3
<1>3. Statement(words) /\ index' = jx
  <2>1. Span(lo, hi).start = lo /\ Span(lo, hi).end = hi
    BY DEF Span
  <2> HIDE DEF words
  <2> QED BY <1>1, <2>1 DEF words
<1> HIDE DEF words
<1>4. /\ Listed(index) /\ text \in Seq(Word) /\ Distinct(index, text, Here)
      /\ Here \in Nat /\ lo \in Nat /\ hi \in Nat /\ lo < hi /\ lo = Here + 1
  <2>1. Listed(index) /\ Here \in Nat /\ Len(words) \in Nat
    BY <1>2, <1>3, TextGoesOn
  <2> QED BY <1>2, <2>1 DEF IInv, UsesApart
<1> HIDE DEF lo, hi
<1>5. /\ selection \in Selected /\ selection.end = selection.start + 1
      /\ lo <= selection.start /\ selection.start < hi
  BY <1>4, NameRangeIn
<1> HIDE DEF selection
<1>6. range.start = lo /\ selection.start \in Nat
  BY <1>5 DEF Span, Selected
<1> HIDE DEF range
<1>7. Adding(index, jx, {}, {}, kind, range, selection)
  BY <1>4, SymbolAdding
<1> HIDE DEF jx
<1> DEFINE more == text'
<1>8. /\ selection.start \in Here .. hi - 1 /\ range.start \in Here .. selection.start
      /\ OutOfTheWay(more, {}, kind, range, selection)
  BY <1>4, <1>5, <1>6 DEF OutOfTheWay
<1>9. more[selection.start + 1] # "except" => selection.end = selection.start + 1
  BY <1>5
<1>10. {} \in SUBSET (Here .. hi - 1) /\ {} \cap {} = {} /\ hi = Here + Len(words)
  BY DEF hi
<1> QED BY <1>2, <1>3, <1>4, <1>7, <1>8, <1>9, <1>10, AddingTaken

LEMMA HandlerApart == ScopeIndexAssumption /\ IInv /\ UsesApart /\ VisitHandler => UsesApart'
<1> SUFFICES ASSUME ScopeIndexAssumption, IInv, UsesApart, VisitHandler PROVE UsesApart'
  OBVIOUS
<1> DEFINE ex == Ended(index, Last(blocks))
<1>1. PICK type \in Names, name \in Names \cup {Missing} :
        LET before == AddReference(ex, type, Here + 1)
            named == AddSymbol(before, name, "Variable", Span(Here, Open), Whole(Here, Open))
        IN  /\ Statement(<<"except", type>> \o IF name = Missing THEN <<>> ELSE <<name>>)
            /\ index' = IF name = Missing THEN before ELSE named
            /\ blocks' = Append(Front(blocks), Block("except", IF name = Missing THEN 0
                                                                ELSE Len(named.symbols), 0))
  BY DEF VisitHandler
<1> DEFINE rest == IF name = Missing THEN <<>> ELSE <<name>>
           words == <<"except", type>> \o rest
           hi == Here + Len(words)
           range == Span(Here, Open)
           whole == Whole(Here, Open)
           place == Here + 1
           before == AddReference(ex, type, place)
           named == AddSymbol(before, name, "Variable", range, whole)
           jx == IF name = Missing THEN before ELSE named
           U == {place}
<1>2. words \in Seq(Word) /\ Len(words) \in Nat /\ Len(words) >= 2 /\ words[1] = "except"
  <2>1. <<"except", type>> \in Seq(Word) /\ Len(<<"except", type>>) = 2
    <3>1. "except" \in Word /\ type \in Word
      BY DEF Word, Reserved
    <3> HIDE DEF Word
    <3> QED BY <3>1
  <2>2. rest \in Seq(Word) /\ Len(rest) \in Nat
    <3>1. CASE name = Missing
      <4> HIDE DEF Word
      <4>1. <<>> \in Seq(Word)
        BY EmptySeq
      <4> QED BY <3>1, <4>1, LenProperties
    <3>2. CASE name # Missing
      <4>1. name \in Names
        BY <3>2
      <4>2. <<name>> \in Seq(Word) /\ Len(<<name>>) = 1
        BY <4>1, WordsTyped
      <4> QED BY <3>2, <4>2
    <3> QED BY <3>1, <3>2
  <2> HIDE DEF rest
  <2>3. /\ words \in Seq(Word) /\ Len(words) = 2 + Len(rest)
        /\ words[1] = <<"except", type>>[1]
    <3> DEFINE q == <<"except", type>>
               r == rest
    <3>1. q \in Seq(Word) /\ r \in Seq(Word) /\ Len(q) = 2 /\ Len(r) \in Nat
      BY <2>1, <2>2
    <3> HIDE DEF q, r
    <3>2. /\ q \o r \in Seq(Word) /\ Len(q \o r) = Len(q) + Len(r)
          /\ (q \o r)[1] = q[1]
      <4>1. /\ q \o r \in Seq(Word) /\ Len(q \o r) = Len(q) + Len(r)
            /\ \A i \in 1 .. Len(q) + Len(r) :
                 (q \o r)[i] = IF i <= Len(q) THEN q[i] ELSE r[i - Len(q)]
        BY <3>1, ConcatProperties
      <4>2. 1 \in 1 .. Len(q) + Len(r) /\ 1 <= Len(q)
        BY <3>1
      <4> QED BY <4>1, <4>2
    <3> QED BY <3>1, <3>2 DEF q, r
  <2>4. <<"except", type>>[1] = "except"
    OBVIOUS
  <2> HIDE DEF words
  <2> QED BY <2>2, <2>3, <2>4
<1>3. Statement(words) /\ index' = jx
  BY <1>1
<1> HIDE DEF words
<1> DEFINE more == text'
<1>4. /\ text \in Seq(Word) /\ Here \in Nat /\ hi \in Nat /\ Here + 1 < hi
      /\ more[Here + 1] = "except" /\ index \in Index
  <2>1. /\ Here \in Nat /\ Len(words) \in Nat /\ index \in Index
        /\ \A k \in 1 .. Len(words) : text'[Here + k] = words[k]
    BY <1>2, <1>3, TextGoesOn
  <2>2. 1 \in 1 .. Len(words)
    BY <1>2
  <2>3. Here + 1 < hi /\ hi \in Nat
    BY <1>2, <2>1
  <2> QED BY <1>2, <2>1, <2>2, <2>3 DEF IInv
<1>5. Distinct(ex, text, Here) /\ Listed(ex)
  <2> DEFINE block == Last(blocks)
             here == Here
  <2>1. Distinct(index, text, here)
    BY DEF UsesApart
  <2> HIDE DEF block, here
  <2>2. Distinct(Ended(index, block), text, here) /\ Listed(Ended(index, block))
    BY <1>4, <2>1, DistinctEnded
  <2> QED BY <2>2 DEF block, here
<1> HIDE DEF ex, hi
<1>6. /\ U \in SUBSET (Here .. hi - 1) /\ {} \in SUBSET (Here .. hi - 1) /\ U \cap {} = {}
      /\ place \in U
  BY <1>4
<1> HIDE DEF U, place
<1>7. Marks(ex, before, U, {})
  BY <1>5, <1>6, ReferenceMarks
<1> HIDE DEF before
<1>8. range.start = Here /\ whole.start = Here
  BY DEF Span, Whole
<1> HIDE DEF range, whole
<1>9. Adding(ex, jx, U, {}, "Variable", range, whole)
  <2>1. Listed(before)
    BY <1>7 DEF Marks
  <2>2. Adding(before, named, U, {}, "Variable", range, whole)
    BY <2>1, SymbolAdding
  <2> HIDE DEF named
  <2>3. Adding(ex, named, U, {}, "Variable", range, whole)
    BY <1>7, <2>2, AddingOn
  <2>4. Adding(ex, before, U, {}, "Variable", range, whole)
    BY <1>7, AddingOn
  <2> QED BY <2>3, <2>4
<1> HIDE DEF jx
<1>10. /\ whole.start \in Here .. hi - 1 /\ range.start \in Here .. whole.start
       /\ OutOfTheWay(more, U, "Variable", range, whole)
  BY <1>4, <1>8 DEF OutOfTheWay
<1>11. more[whole.start + 1] # "except" => whole.end = whole.start + 1
  BY <1>4, <1>8
<1>12. hi = Here + Len(words)
  BY DEF hi
<1> QED BY <1>2, <1>3, <1>4, <1>5, <1>6, <1>9, <1>10, <1>11, <1>12, AddingTaken

LEMMA GatheredIn ==
  ASSUME NEW S, NEW n \in Nat, NEW words, NEW p, words[0] = <<>>,
         \A k \in 1 .. n : p[k] \in Seq(S) /\ words[k] = words[k - 1] \o p[k]
  PROVE  words[n] \in Seq(S)
<1> DEFINE T == {k \in 0 .. n : words[k] \in Seq(S)}
<1>1. 0 \in T
  <2>1. <<>> \in Seq(S) /\ 0 \in 0 .. n
    BY EmptySeq
  <2> QED BY <2>1
<1>2. ASSUME NEW k \in 0 .. n - 1, k \in T PROVE k + 1 \in T
  <2>1. k + 1 \in 1 .. n /\ k + 1 \in 0 .. n /\ (k + 1) - 1 = k
    OBVIOUS
  <2>2. /\ words[k] \in Seq(S) /\ p[k + 1] \in Seq(S)
        /\ words[k + 1] = words[k] \o p[k + 1]
    BY <1>2, <2>1
  <2>3. words[k + 1] \in Seq(S)
    BY <2>2, ConcatProperties
  <2> QED BY <2>1, <2>3
<1>3. n \in T
  <2> HIDE DEF T
  <2>1. \A k \in 0 .. n : k \in T
    BY <1>1, <1>2, Upwards
  <2> QED BY <2>1
<1> QED BY <1>3

\* The words of a definition as far as its name: no decorator is a keyword.
HeadOf(es, word, name) == AllWords(es) \o <<word, name>>
HeadOK(head, n, word, name) ==
  /\ head \in Seq(Word) /\ n \in Nat /\ Len(head) = n + 2
  /\ head[n + 1] = word /\ head[n + 2] = name
  /\ \A i \in 1 .. n : head[i] \notin {"def", "class"}

LEMMA HeadWords ==
  ASSUME ScopeIndexAssumption, NEW es \in Seq(Expression), NEW word \in {"def", "class"},
         NEW name \in Names
  PROVE  HeadOK(HeadOf(es, word, name), Len(AllWords(es)), word, name)
<1> DEFINE head == HeadOf(es, word, name)
           q == AllWords(es)
           r == <<word, name>>
           n == Len(q)
<1>1. q \in Seq(Names \cup {Missing}) /\ q \in Seq(Word)
  <2> DEFINE S == Names \cup {Missing}
             m == Len(es)
             words == ExprsWords(es)
             p == [k \in 1 .. m |-> Words(es[k])]
  <2>1. /\ m \in Nat /\ \A k \in 1 .. m : es[k] \in Expression
        /\ q = words[m] /\ q \in Seq(Word)
    BY ExprsWordsLen
  <2>2. words[0] = <<>> /\ \A k \in 1 .. m : words[k] = words[k - 1] \o Words(es[k])
    BY <2>1, ExprsWordsDef
  <2>3. \A k \in 1 .. m : p[k] = Words(es[k]) /\ p[k] \in Seq(S)
    BY <2>1, ExpressionParts
  <2> HIDE DEF S, m, words, p, q
  <2>4. \A k \in 1 .. m : p[k] \in Seq(S) /\ words[k] = words[k - 1] \o p[k]
    BY <2>2, <2>3
  <2>5. words[m] \in Seq(S)
    BY <2>1, <2>2, <2>4, GatheredIn
  <2> QED BY <2>1, <2>5 DEF S
<1>2. r \in Seq(Word) /\ Len(r) = 2 /\ r[1] = word /\ r[2] = name
  <2>1. word \in Word /\ name \in Word
    BY DEF Word, Reserved
  <2> HIDE DEF Word
  <2> QED BY <2>1
<1>3. n \in Nat /\ \A i \in 1 .. n : q[i] \in Names \cup {Missing}
  <2> DEFINE S == Names \cup {Missing}
  <2> HIDE DEF S, q
  <2>1. q \in Seq(S)
    BY <1>1 DEF S
  <2>2. n \in Nat /\ \A i \in 1 .. n : q[i] \in S
    BY <2>1, LenProperties, ElementOfSeq
  <2> QED BY <2>2 DEF S
<1>4. \A x \in Names \cup {Missing} : x \notin {"def", "class"}
  BY DEF ScopeIndexAssumption, Missing
<1>5. head = q \o r
  BY DEF HeadOf
<1> HIDE DEF head, q, r
<1>6. /\ head \in Seq(Word) /\ Len(head) = Len(q) + Len(r)
      /\ \A i \in 1 .. Len(q) + Len(r) : head[i] = IF i <= Len(q) THEN q[i] ELSE r[i - Len(q)]
  <2>1. q \in Seq(Word) /\ r \in Seq(Word)
    BY <1>1, <1>2
  <2>2. /\ q \o r \in Seq(Word) /\ Len(q \o r) = Len(q) + Len(r)
        /\ \A i \in 1 .. Len(q) + Len(r) :
             (q \o r)[i] = IF i <= Len(q) THEN q[i] ELSE r[i - Len(q)]
    BY <2>1, ConcatProperties
  <2> QED BY <1>5, <2>2
<1>7. Len(head) = n + 2
  BY <1>2, <1>6
<1>8. head[n + 1] = word
  <2>1. n + 1 \in 1 .. Len(q) + Len(r) /\ ~ (n + 1 <= Len(q)) /\ (n + 1) - Len(q) = 1
    BY <1>2, <1>3
  <2> QED BY <1>2, <1>6, <2>1
<1>9. head[n + 2] = name
  <2>1. n + 2 \in 1 .. Len(q) + Len(r) /\ ~ (n + 2 <= Len(q)) /\ (n + 2) - Len(q) = 2
    BY <1>2, <1>3
  <2> QED BY <1>2, <1>6, <2>1
<1>10. ASSUME NEW i \in 1 .. n PROVE head[i] \notin {"def", "class"}
  <2>1. i \in 1 .. Len(q) + Len(r) /\ i <= Len(q)
    BY <1>2, <1>3
  <2>2. head[i] = q[i]
    BY <1>6, <2>1
  <2> QED BY <1>3, <1>4, <2>2
<1>11. HeadOK(head, n, word, name)
  BY <1>3, <1>6, <1>7, <1>8, <1>9, <1>10 DEF HeadOK
<1> QED BY <1>11 DEF head, q

(***************************************************************************)
(* A definition: the decorators lie before its keyword, where its name may *)
(* be found too early, and what is visited after the name lies behind it.  *)
(***************************************************************************)
LEMMA DefinitionApart ==
  ASSUME ScopeIndexAssumption, IInv, UsesApart, NEW es \in Seq(Expression),
         NEW word \in {"def", "class"}, NEW name \in Names,
         NEW head, head = HeadOf(es, word, name),
         NEW words \in Seq(Word), Statement(words), Len(head) <= Len(words),
         \A k \in 1 .. Len(head) : words[k] = head[k],
         NEW kind \in {"Function", "Method", "Class"}, NEW named,
         named = AddSymbol(VisitExprs(index, es, Here), name, kind, Span(Here, Open),
                           NameRange(text', name, Here, Len(text'))),
         NEW jx, index' = jx, NEW place, place = Here + Len(head),
         NEW hi, hi = Here + Len(words),
         Listed(named) => MarksApart(named, jx, place, hi)
  PROVE  UsesApart'
<1> DEFINE n == Len(AllWords(es))
           lo == Here + n
           more == text'
           dx == VisitExprs(index, es, Here)
           range == Span(Here, Open)
           selection == NameRange(more, name, Here, Len(more))
<1>1. /\ n \in Nat /\ Len(head) = n + 2 /\ head[n + 1] = word /\ head[n + 2] = name
      /\ \A i \in 1 .. n : head[i] \notin {"def", "class"}
  <2>1. HeadOK(head, n, word, name)
    BY HeadWords
  <2> HIDE DEF n
  <2> QED BY <2>1 DEF HeadOK
<1>2. /\ Listed(index) /\ Here \in Nat /\ Len(words) \in Nat /\ Len(more) = hi
      /\ \A k \in 1 .. Len(words) : more[Here + k] = words[k]
  BY TextGoesOn
<1>3. named = AddSymbol(dx, name, kind, range, selection)
  OBVIOUS
<1>4. selection = NameRange(more, name, Here, hi)
  BY <1>2
<1>5. MarksApart(index, dx, Here, lo)
  <2> DEFINE here == Here
  <2>1. here \in Nat /\ lo \in Nat /\ lo = here + Len(AllWords(es))
    BY <1>1, <1>2
  <2> HIDE DEF here, lo
  <2>2. MarksApart(index, VisitExprs(index, es, here), here, lo)
    BY <1>2, <2>1, ExprsApart
  <2> QED BY <2>2 DEF here
<1> HIDE DEF more, n, dx, selection
<1>6. /\ lo \in Nat /\ hi \in Nat /\ place \in Nat /\ Here <= lo /\ place = lo + 2 /\ place <= hi
  BY <1>1, <1>2
<1>7. /\ more[(lo + 1) + 1] = name
      /\ \A x \in Here .. lo - 1 : more[x + 1] \notin {"def", "class"}
  <2>1. \A k \in 1 .. n + 2 : more[Here + k] = head[k]
    <3>1. \A k \in 1 .. n + 2 : k \in 1 .. Len(words) /\ k \in 1 .. Len(head)
      BY <1>1, <1>2
    <3> QED BY <1>2, <3>1
  <2>2. more[(lo + 1) + 1] = name
    <3>1. n + 2 \in 1 .. n + 2 /\ (lo + 1) + 1 = Here + (n + 2)
      BY <1>1, <1>2
    <3>2. more[Here + (n + 2)] = head[n + 2]
      BY <2>1, <3>1
    <3> QED BY <1>1, <3>1, <3>2
  <2>3. ASSUME NEW x \in Here .. lo - 1 PROVE more[x + 1] \notin {"def", "class"}
    <3> DEFINE k == (x + 1) - Here
    <3>1. k \in 1 .. n + 2 /\ k \in 1 .. n /\ Here + k = x + 1
      BY <1>1, <1>2
    <3> HIDE DEF k
    <3> QED BY <1>1, <2>1, <3>1
  <2> QED BY <2>2, <2>3
<1> HIDE DEF lo
<1>8. /\ selection.start \in Here .. lo + 1 /\ selection.end = selection.start + 1
      /\ range.start = Here
  <2> DEFINE here == Here
             k == lo + 1
  <2>1. here \in Nat /\ k \in here .. hi - 1 /\ more[k + 1] = name
    BY <1>2, <1>6, <1>7
  <2>2. selection = NameRange(more, name, here, hi)
    BY <1>4
  <2>3. range.start = here
    BY DEF Span
  <2> HIDE DEF here, k
  <2>4. selection.start \in here .. k /\ selection.end = selection.start + 1
    BY <1>6, <2>1, <2>2, NameRangeAtMost
  <2> QED BY <2>3, <2>4 DEF here, k
<1> HIDE DEF range
<1>9. PICK U1 \in SUBSET (Here .. lo - 1), D1 \in SUBSET (Here .. lo - 1) :
        U1 \cap D1 = {} /\ Marks(index, dx, U1, D1)
  BY <1>5 DEF MarksApart
<1>10. Listed(dx)
  BY <1>9 DEF Marks
<1>11. \A U, D : Adding(dx, named, U, D, kind, range, selection)
  BY <1>3, <1>10, SymbolAdding
<1>12. PICK U2 \in SUBSET (place .. hi - 1), D2 \in SUBSET (place .. hi - 1) :
         U2 \cap D2 = {} /\ Marks(named, jx, U2, D2)
  <2>1. Listed(named)
    BY <1>11 DEF Adding
  <2> QED BY <2>1 DEF MarksApart
<1> DEFINE U == U1 \cup U2
           D == D1 \cup D2
<1>13. /\ U \in SUBSET (Here .. hi - 1) /\ D \in SUBSET (Here .. hi - 1) /\ U \cap D = {}
       /\ \A x \in U : x < lo \/ lo + 2 <= x
  <2>1. /\ Here .. lo - 1 \subseteq Here .. hi - 1 /\ place .. hi - 1 \subseteq Here .. hi - 1
        /\ (Here .. lo - 1) \cap (place .. hi - 1) = {}
    BY <1>2, <1>6
  <2>2. /\ \A x \in Here .. lo - 1 : x < lo
        /\ \A x \in place .. hi - 1 : lo + 2 <= x
    BY <1>2, <1>6
  <2>3. U \in SUBSET (Here .. hi - 1) /\ D \in SUBSET (Here .. hi - 1)
    BY <2>1
  <2>4. U \cap D = {}
    BY <1>9, <1>12, <2>1
  <2>5. \A x \in U : x < lo \/ lo + 2 <= x
    BY <2>2
  <2> QED BY <2>3, <2>4, <2>5
<1>14. U1 \subseteq U /\ D1 \subseteq D /\ U2 \subseteq U /\ D2 \subseteq D
  OBVIOUS
<1> HIDE DEF U, D
<1>15. Marks(index, dx, U, D) /\ Marks(named, jx, U, D)
  BY <1>9, <1>12, <1>14, MarksWider
<1>16. Adding(index, jx, U, D, kind, range, selection)
  <2>1. Adding(dx, named, U, D, kind, range, selection)
    BY <1>11
  <2>2. Adding(index, named, U, D, kind, range, selection)
    BY <1>15, <2>1, AddingOn
  <2> QED BY <1>15, <2>2, AddingOn
<1>17. OutOfTheWay(more, U, kind, range, selection)
  <2>1. CASE selection.start < lo
    <3>1. range.start .. selection.start \subseteq Here .. lo - 1
      BY <1>2, <1>6, <1>8, <2>1
    <3>2. \A w \in range.start .. selection.start : more[w + 1] \notin {"def", "class"}
      BY <1>7, <3>1
    <3> QED BY <3>2 DEF OutOfTheWay
  <2>2. CASE ~ (selection.start < lo)
    <3>1. ~ (lo + 2 <= selection.start)
      BY <1>2, <1>6, <1>8
    <3>2. selection.start \notin U
      BY <1>13, <2>2, <3>1
    <3> QED BY <3>2 DEF OutOfTheWay
  <2> QED BY <2>1, <2>2
<1>18. /\ selection.start \in Here .. hi - 1 /\ range.start \in Here .. selection.start
       /\ more[selection.start + 1] # "except" => selection.end = selection.start + 1
  <2>1. selection.start \in Here .. hi - 1 /\ Here \in Here .. selection.start
    BY <1>2, <1>6, <1>8
  <2> QED BY <1>8, <2>1
<1>19. text \in Seq(Word) /\ Distinct(index, text, Here)
  BY DEF IInv, UsesApart
<1> QED BY <1>13, <1>16, <1>17, <1>18, <1>19, AddingTaken DEF more

LEMMA ClassApart == ScopeIndexAssumption /\ IInv /\ UsesApart /\ VisitClass => UsesApart'
<1> SUFFICES ASSUME ScopeIndexAssumption, IInv, UsesApart, VisitClass PROVE UsesApart'
  OBVIOUS
<1>1. PICK name \in Names, header \in Headers :
        LET head == AllWords(header.decorators) \o <<"class", name>>
            decorated == VisitExprs(index, header.decorators, Here)
            range == Span(Here, Open)
            named == AddSymbol(decorated, name, "Class", range,
                               NameRange(text', name, Here, Len(text')))
        IN  /\ Statement(head \o AllWords(header.bases))
            /\ index' = AddScope(VisitExprs(named, header.bases, Here + Len(head)), "Class", range)
            /\ blocks' = Append(Filled, Block("class", Len(named.symbols), index'.current))
  BY DEF VisitClass
<1> DEFINE word == "class"
           es == header.decorators
           head == HeadOf(es, word, name)
           rest == AllWords(header.bases)
           words == head \o rest
           kind == "Class"
           range == Span(Here, Open)
           named == AddSymbol(VisitExprs(index, es, Here), name, kind, range,
                              NameRange(text', name, Here, Len(text')))
           place == Here + Len(head)
           hi == Here + Len(words)
           ax == VisitExprs(named, header.bases, place)
           jx == AddScope(ax, "Class", range)
<1>2. es \in Seq(Expression) /\ header.bases \in Seq(Expression) /\ word \in {"def", "class"}
  BY DEF ScopeIndexAssumption, Header
<1>3. Statement(words) /\ index' = jx /\ kind \in {"Function", "Method", "Class"}
  BY <1>1 DEF HeadOf
<1> HIDE DEF word
<1>4. head \in Seq(Word) /\ Len(head) \in Nat
  <2> DEFINE n == Len(AllWords(es))
  <2>1. HeadOK(head, n, word, name)
    BY <1>2, HeadWords
  <2> HIDE DEF head, n
  <2> QED BY <2>1 DEF HeadOK
<1>5. rest \in Seq(Word) /\ Len(rest) \in Nat
  BY <1>2, ExprsWordsLen
<1> HIDE DEF head, rest
<1>6. /\ words \in Seq(Word) /\ Len(words) = Len(head) + Len(rest)
      /\ \A k \in 1 .. Len(head) : words[k] = head[k]
  <2>1. \A k \in 1 .. Len(head) : (head \o rest)[k] = head[k]
    BY <1>4, <1>5, FirstOf
  <2>2. head \o rest \in Seq(Word) /\ Len(head \o rest) = Len(head) + Len(rest)
    BY <1>4, <1>5, ConcatProperties
  <2> QED BY <2>1, <2>2
<1> HIDE DEF words
<1>7. Here \in Nat /\ Len(head) <= Len(words)
  <2>1. Here \in Nat
    BY <1>3, <1>6, TextGoesOn
  <2> QED BY <1>4, <1>5, <1>6, <2>1
<1>8. Listed(named) => MarksApart(named, jx, place, hi)
  <2> SUFFICES ASSUME Listed(named) PROVE MarksApart(named, jx, place, hi)
    OBVIOUS
  <2>1. place \in Nat /\ hi \in Nat /\ hi = place + Len(AllWords(header.bases))
    <3>1. place \in Nat /\ hi \in Nat /\ hi = place + Len(rest)
      BY <1>4, <1>5, <1>6, <1>7
    <3> QED BY <3>1 DEF rest
  <2> HIDE DEF named, place, hi
  <2>2. MarksApart(named, ax, place, hi)
    BY <1>2, <2>1, ExprsApart
  <2>3. PICK U \in SUBSET (place .. hi - 1), D \in SUBSET (place .. hi - 1) :
          U \cap D = {} /\ Marks(named, ax, U, D)
    BY <2>2 DEF MarksApart
  <2> HIDE DEF ax
  <2>4. Listed(ax)
    BY <2>3 DEF Marks
  <2>5. Listed(jx) /\ Marks(jx, jx, U, D)
    BY <2>4, ScopeMarks, MarksNothing
  <2>6. Marks(ax, jx, U, D)
    BY <2>4, <2>5, ScopeMarks
  <2> HIDE DEF jx
  <2>7. Marks(named, jx, U, D)
    BY <2>3, <2>6, MarksOn
  <2> QED BY <2>3, <2>7 DEF MarksApart
<1> HIDE DEF jx, kind
<1>9. /\ place = Here + Len(head) /\ hi = Here + Len(words)
      /\ head = HeadOf(es, word, name)
      /\ named = AddSymbol(VisitExprs(index, es, Here), name, kind, Span(Here, Open),
                           NameRange(text', name, Here, Len(text')))
  BY DEF head
<1> HIDE DEF named, place, hi, es, range
<1> QED BY <1>2, <1>3, <1>6, <1>7, <1>8, <1>9, DefinitionApart

LEMMA FunctionApart ==
  ScopeIndexAssumption /\ IInv /\ UsesApart /\ VisitFunction => UsesApart'
<1> SUFFICES ASSUME ScopeIndexAssumption, IInv, UsesApart, VisitFunction PROVE UsesApart'
  OBVIOUS
<1>1. PICK name \in Names, sig \in Signatures :
        LET head == AllWords(sig.decorators) \o <<"def", name>>
            params == ParamsWords(sig.params)[Len(sig.params)]
            words == head \o params \o Words(sig.returns)
            decorated == VisitExprs(index, sig.decorators, Here)
            kind == IF index.scopes[index.current].kind = "Class" THEN "Method" ELSE "Function"
            range == Span(Here, Open)
            named == AddSymbol(decorated, name, kind, range,
                               NameRange(text', name, Here, Len(text')))
        IN  /\ Statement(words)
            /\ index' = VisitExpr(VisitParameters(AddScope(named, "Function", range),
                                                  sig.params, Here + Len(head)),
                                  sig.returns, Here + Len(head) + Len(params))
            /\ blocks' = Append(Filled, Block("def", Len(named.symbols), index'.current))
  BY DEF VisitFunction
<1> DEFINE word == "def"
           es == sig.decorators
           head == HeadOf(es, word, name)
           params == ParamsWords(sig.params)[Len(sig.params)]
           rest == Words(sig.returns)
           words == head \o params \o rest
           kind == IF index.scopes[index.current].kind = "Class" THEN "Method" ELSE "Function"
           range == Span(Here, Open)
           named == AddSymbol(VisitExprs(index, es, Here), name, kind, range,
                              NameRange(text', name, Here, Len(text')))
           place == Here + Len(head)
           last == Here + Len(head) + Len(params)
           hi == Here + Len(words)
           sx == AddScope(named, "Function", range)
           px == VisitParameters(sx, sig.params, place)
           rx == VisitExpr(px, sig.returns, last)
<1>2. /\ es \in Seq(Expression) /\ sig.params \in Seq(Parameters)
      /\ sig.returns \in Expression /\ word \in {"def", "class"}
  BY DEF ScopeIndexAssumption, Signature
<1>3. Statement(words) /\ index' = rx /\ kind \in {"Function", "Method", "Class"}
  BY <1>1 DEF HeadOf
<1> HIDE DEF word
<1>4. head \in Seq(Word) /\ Len(head) \in Nat
  <2> DEFINE n == Len(AllWords(es))
  <2>1. HeadOK(head, n, word, name)
    BY <1>2, HeadWords
  <2> HIDE DEF head, n
  <2> QED BY <2>1 DEF HeadOK
<1>5. params \in Seq(Word) /\ Len(params) \in Nat /\ rest \in Seq(Word) /\ Len(rest) \in Nat
  <2>1. params \in Seq(Word) /\ Len(params) \in Nat
    <3> DEFINE n == Len(sig.params)
    <3>1. /\ n \in Nat
          /\ \A k \in 0 .. n : /\ ParamsWords(sig.params)[k] \in Seq(Word)
                               /\ Len(ParamsWords(sig.params)[k]) \in Nat
      BY <1>2, ParamsWordsLen
    <3>2. n \in 0 .. n
      BY <3>1
    <3> QED BY <3>1, <3>2
  <2>2. rest \in Seq(Word) /\ Len(rest) \in Nat
    BY <1>2, WordsTyped
  <2> QED BY <2>1, <2>2
<1> HIDE DEF head, rest, params
<1>6. /\ words \in Seq(Word) /\ Len(words) = (Len(head) + Len(params)) + Len(rest)
      /\ \A k \in 1 .. Len(head) : words[k] = head[k]
  <2> DEFINE front == head \o params
  <2>1. \A k \in 1 .. Len(head) : front[k] = head[k]
    BY <1>4, <1>5, FirstOf
  <2>2. front \in Seq(Word) /\ Len(front) = Len(head) + Len(params)
    BY <1>4, <1>5, ConcatProperties
  <2>3. words = front \o rest
    OBVIOUS
  <2> HIDE DEF front, words
  <2>4. \A k \in 1 .. Len(front) : (front \o rest)[k] = front[k]
    BY <1>5, <2>2, FirstOf
  <2>5. front \o rest \in Seq(Word) /\ Len(front \o rest) = Len(front) + Len(rest)
    BY <1>5, <2>2, ConcatProperties
  <2>6. \A k \in 1 .. Len(head) : k \in 1 .. Len(front)
    BY <1>4, <1>5, <2>2
  <2> QED BY <2>1, <2>2, <2>3, <2>4, <2>5, <2>6
<1> HIDE DEF words
<1>7. /\ Here \in Nat /\ Len(head) <= Len(words) /\ place \in Nat /\ last \in Nat /\ hi \in Nat
      /\ last = place + Len(params) /\ hi = last + Len(rest)
      /\ place <= last /\ last <= hi /\ place <= place /\ hi <= hi /\ last <= last
  <2>1. Here \in Nat
    BY <1>3, <1>6, TextGoesOn
  <2> QED BY <1>4, <1>5, <1>6, <2>1
<1>8. Listed(named) => MarksApart(named, rx, place, hi)
  <2> SUFFICES ASSUME Listed(named) PROVE MarksApart(named, rx, place, hi)
    OBVIOUS
  <2>1. /\ last = place + Len(ParamsWords(sig.params)[Len(sig.params)])
        /\ hi = last + Len(Words(sig.returns))
    BY <1>7 DEF params, rest
  <2> HIDE DEF named, place, hi, last
  <2>2. /\ Listed(sx)
        /\ \A kx, U, D : Marks(sx, kx, U, D) => Marks(named, kx, U, D)
    BY ScopeMarks
  <2> HIDE DEF sx
  <2>3. MarksApart(sx, px, place, last)
    BY <1>2, <1>7, <2>1, <2>2, ParametersApart
  <2> HIDE DEF px
  <2>4. Listed(px)
    BY <2>3 DEF MarksApart, Marks
  <2>5. MarksApart(px, rx, last, hi)
    BY <1>2, <1>7, <2>1, <2>4, ExprApart
  <2> HIDE DEF rx
  <2>6. MarksApart(sx, rx, place, hi)
    BY <1>7, <2>3, <2>5, ApartOn
  <2> QED BY <2>2, <2>6 DEF MarksApart
<1> HIDE DEF rx, kind
<1>9. /\ place = Here + Len(head) /\ hi = Here + Len(words)
      /\ head = HeadOf(es, word, name)
      /\ named = AddSymbol(VisitExprs(index, es, Here), name, kind, Span(Here, Open),
                           NameRange(text', name, Here, Len(text')))
  BY DEF head
<1> HIDE DEF named, place, hi, es, range
<1> QED BY <1>2, <1>3, <1>6, <1>7, <1>8, <1>9, DefinitionApart
-------------------------------------------------------------------------------
(***************************************************************************)
(* The lookups: they search the tables of the index.                       *)
(***************************************************************************)
Looking ==
  /\ SearchInv
  /\ query = "symbol" => \E turned \in BOOLEAN : entries = Sorted(Selections, turned)
  /\ query = "reference" => \E turned \in BOOLEAN : entries = Sorted(References, turned)

FullInv == IInv /\ UsesApart /\ Looking

\* A table of ranges.
Ranges(table, n) == /\ DOMAIN table = 1 .. n
                    /\ \A i \in 1 .. n : table[i].start \in Nat /\ table[i].end \in Nat

LEMMA TablesTyped ==
  ASSUME index \in Index, AllClosed(index)
  PROVE  /\ Ranges(Selections, Len(index.symbols)) /\ Len(index.symbols) \in Nat
         /\ Ranges(References, Len(index.references)) /\ Len(index.references) \in Nat
         /\ Ranges(Scopes, Len(index.scopes)) /\ Len(index.scopes) \in Nat
<1>1. /\ Len(index.symbols) \in Nat /\ DOMAIN index.symbols = 1 .. Len(index.symbols)
      /\ \A i \in DOMAIN index.symbols : index.symbols[i] \in Symbol
      /\ Len(index.references) \in Nat
      /\ DOMAIN index.references = 1 .. Len(index.references)
      /\ \A r \in DOMAIN index.references : index.references[r] \in Reference
      /\ Len(index.scopes) \in Nat /\ DOMAIN index.scopes = 1 .. Len(index.scopes)
      /\ \A s \in DOMAIN index.scopes : index.scopes[s] \in Scope
  BY IndexParts
<1>2. Ranges(Selections, Len(index.symbols))
  <2> DEFINE n == Len(index.symbols)
             range(i) == index.symbols[i].selection
             table == Selections
  <2>1. \A i \in 1 .. n : range(i) \in Selected /\ range(i).end # 0
    BY <1>1 DEF Symbol, AllClosed, Closed, Open
  <2>2. DOMAIN table = 1 .. n /\ \A i \in 1 .. n : table[i] = Exact(range(i), range(i).half)
    BY <1>1 DEF Selections, Symbols
  <2> HIDE DEF n, range, table
  <2>3. ASSUME NEW i \in 1 .. n PROVE table[i].start \in Nat /\ table[i].end \in Nat
    <3> DEFINE r == range(i)
               exact == Exact(r, r.half)
    <3>1. r.start \in Nat /\ r.end \in Nat /\ r.half \in 0 .. 2 /\ r.end # 0
      BY <2>1 DEF Selected
    <3> HIDE DEF r
    <3>2. /\ exact.start \in Int /\ exact.end \in Int
          /\ 2 * r.start <= exact.start /\ 2 * r.end - 1 <= exact.end
      BY <3>1, ExactEnds
    <3> HIDE DEF exact
    <3>3. exact.start \in Nat /\ exact.end \in Nat
      BY <3>1, <3>2
    <3> QED BY <2>2, <3>3 DEF exact, r
  <2> QED BY <2>2, <2>3 DEF Ranges, n, table
<1>3. Ranges(References, Len(index.references))
  <2> DEFINE n == Len(index.references)
             range(i) == index.references[i].range
             table == References
  <2>1. \A i \in 1 .. n : range(i).start \in Nat /\ range(i).end \in Nat
    BY <1>1 DEF Reference, Ends
  <2>2. DOMAIN table = 1 .. n /\ \A i \in 1 .. n : table[i] = Exact(range(i), 0)
    BY <1>1 DEF References
  <2> HIDE DEF n, range, table
  <2>3. ASSUME NEW i \in 1 .. n PROVE table[i].start \in Nat /\ table[i].end \in Nat
    BY <2>1, <2>2, ExactEnds
  <2> QED BY <2>2, <2>3 DEF Ranges, n, table
<1>4. Ranges(Scopes, Len(index.scopes))
  <2> DEFINE n == Len(index.scopes)
             range(i) == index.scopes[i].range
             table == Scopes
  <2>1. \A i \in 1 .. n : range(i).start \in Nat /\ range(i).end \in Nat
    BY <1>1 DEF Scope, Ends
  <2>2. DOMAIN table = 1 .. n /\ \A i \in 1 .. n : table[i] = Exact(range(i), 0)
    BY <1>1 DEF Scopes
  <2> HIDE DEF n, range, table
  <2>3. ASSUME NEW i \in 1 .. n PROVE table[i].start \in Nat /\ table[i].end \in Nat
    BY <2>1, <2>2, ExactEnds
  <2> QED BY <2>2, <2>3 DEF Ranges, n, table
<1> QED BY <1>1, <1>2, <1>3, <1>4

LEMMA LookupBegins ==
  ASSUME NEW table, NEW n \in Nat, Ranges(table, n), NEW o \in Nat, NEW kind,
         Lookup(kind, table, o)
  PROVE  /\ SearchInv' /\ UNCHANGED <<text, index>> /\ query' = kind
         /\ \E turned \in BOOLEAN : entries' = Sorted(table, turned)
<1>1. PICK turned \in BOOLEAN : Begin(Sorted(table, turned), o)
  BY DEF Lookup
<1> DEFINE es == Sorted(table, turned)
<1>2. /\ es \in Seq(Entry) /\ Len(es) = n /\ SortedByStart(es)
      /\ \A k \in 1 .. n : \E i \in 1 .. n : es[k] = EntryOf(table, i)
  BY SortedIs DEF Ranges
<1>3. Begin(es, o)
  BY <1>1
<1> HIDE DEF es
<1>4. \A k \in 1 .. Len(es) : es[k].index > 0
  BY <1>2 DEF EntryOf
<1>5. SearchInv'
  BY <1>2, <1>3, <1>4, BeginSearch
<1>6. entries' = es
  BY <1>3 DEF Begin
<1>7. UNCHANGED <<text, index>> /\ query' = kind
  BY DEF Lookup
<1> QED BY <1>5, <1>6, <1>7 DEF es

LEMMA LookingAgain ==
  ASSUME SearchInv', index' = index, NEW turned \in BOOLEAN,
         \/ query' \notin {"symbol", "reference"}
         \/ query' = "symbol" /\ entries' = Sorted(Selections, turned)
         \/ query' = "reference" /\ entries' = Sorted(References, turned)
  PROVE  Looking'
<1> DEFINE selections == Selections
           references == References
<1>1. Selections' = selections /\ References' = references
  BY DEF Selections, References, Symbols
<1>2. /\ query' = "symbol" => entries' = Sorted(selections, turned)
      /\ query' = "reference" => entries' = Sorted(references, turned)
  OBVIOUS
<1>3. Looking' = (/\ SearchInv'
                  /\ query' = "symbol" =>
                       \E t \in BOOLEAN : entries' = Sorted(Selections', t)
                  /\ query' = "reference" =>
                       \E t \in BOOLEAN : entries' = Sorted(References', t))
  BY DEF Looking
<1> HIDE DEF selections, references
<1> QED BY <1>1, <1>2, <1>3

LEMMA LookupApart == FullInv /\ (Ask \/ AskReference) => UsesApart' /\ Looking'
<1> SUFFICES ASSUME FullInv, Ask \/ AskReference PROVE UsesApart' /\ Looking'
  OBVIOUS
<1>1. /\ index \in Index /\ Here \in Nat /\ offset \in Nat /\ AllClosed(index)
  <2>1. index \in Index /\ text \in Seq(Word)
    BY GoodParts DEF FullInv, IInv
  <2>2. AllClosed(index)
    BY DEF FullInv, IInv, Ask, AskReference
  <2> QED BY <2>1, <2>2, LenProperties DEF FullInv, Looking, SearchInv, TableOK, Here
<1>2. ASSUME NEW kind, NEW table, NEW n \in Nat, Ranges(table, n), NEW o \in Nat,
             Lookup(kind, table, o),
             \/ kind = "symbol" /\ table = Selections
             \/ kind = "scope"
             \/ kind = "reference" /\ table = References
      PROVE  UsesApart' /\ Looking'
  <2>1. /\ SearchInv' /\ UNCHANGED <<text, index>> /\ query' = kind
        /\ \E turned \in BOOLEAN : entries' = Sorted(table, turned)
    BY <1>2, LookupBegins
  <2>2. PICK turned \in BOOLEAN : entries' = Sorted(table, turned)
    BY <2>1
  <2>3. Looking'
    BY <1>2, <2>1, <2>2, LookingAgain
  <2>4. UsesApart'
    <3>1. Here' = Here
      BY <2>1 DEF Here
    <3>2. UsesApart' = Distinct(index', text', Here') /\ Distinct(index, text, Here)
      BY DEF UsesApart, FullInv
    <3> QED BY <2>1, <3>1, <3>2
  <2> QED BY <2>3, <2>4
<1>3. CASE Ask
  <2>1. PICK o \in 0 .. 2 * Here - 1 :
          Lookup("symbol", Selections, o) \/ Lookup("scope", Scopes, o)
    BY <1>3 DEF Ask
  <2>2. o \in Nat
    BY <1>1
  <2>3. CASE Lookup("symbol", Selections, o)
    BY <1>1, <1>2, <2>2, <2>3, TablesTyped
  <2>4. CASE Lookup("scope", Scopes, o)
    BY <1>1, <1>2, <2>2, <2>4, TablesTyped
  <2> QED BY <2>1, <2>3, <2>4
<1>4. CASE AskReference
  <2>1. Lookup("reference", References, offset)
    BY <1>4 DEF AskReference
  <2> QED BY <1>1, <1>2, <2>1, TablesTyped
<1> QED BY <1>3, <1>4

LEMMA ScanApart == FullInv /\ (ScanTable \/ UNCHANGED vars) => UsesApart' /\ Looking'
<1> SUFFICES ASSUME FullInv, ScanTable \/ UNCHANGED vars PROVE UsesApart' /\ Looking'
  OBVIOUS
<1>1. UNCHANGED <<text, index, query>> /\ (Look \/ Finish \/ UNCHANGED searchVars)
  BY DEF ScanTable, Scan, vars, searchVars
<1>2. SearchInv' /\ entries' = entries
  <2>1. SearchInv
    BY DEF FullInv, Looking
  <2>2. entries' = entries
    BY <1>1 DEF Look, Finish, searchVars
  <2> QED BY <1>1, <2>1, <2>2, LookSearch, FinishSearch, StutterSearch
<1>3. Looking'
  <2>1. \/ query \notin {"symbol", "reference"}
        \/ \E turned \in BOOLEAN :
             \/ query = "symbol" /\ entries = Sorted(Selections, turned)
             \/ query = "reference" /\ entries = Sorted(References, turned)
    BY DEF FullInv, Looking
  <2>2. CASE query \notin {"symbol", "reference"}
    <3>1. TRUE \in BOOLEAN
      OBVIOUS
    <3> QED BY <1>1, <1>2, <2>2, <3>1, LookingAgain
  <2>3. CASE \E turned \in BOOLEAN :
               \/ query = "symbol" /\ entries = Sorted(Selections, turned)
               \/ query = "reference" /\ entries = Sorted(References, turned)
    <3>1. PICK turned \in BOOLEAN :
               \/ query' = "symbol" /\ entries' = Sorted(Selections, turned)
               \/ query' = "reference" /\ entries' = Sorted(References, turned)
      BY <1>1, <1>2, <2>3
    <3> QED BY <1>1, <1>2, <3>1, LookingAgain
  <2> QED BY <2>1, <2>2, <2>3
<1>4. UsesApart'
  <2>1. Here' = Here
    BY <1>1 DEF Here
  <2>2. UsesApart' = Distinct(index', text', Here') /\ Distinct(index, text, Here)
    BY DEF UsesApart, FullInv
  <2> QED BY <1>1, <2>1, <2>2
<1> QED BY <1>3, <1>4

\* While the module is visited nothing is looked up.
LEMMA VisitLooks ==
  FullInv /\ (VisitStmt \/ EndBody \/ FinishModule) => Looking'
<1> SUFFICES ASSUME FullInv, VisitStmt \/ EndBody \/ FinishModule PROVE Looking'
  OBVIOUS
<1>1. UNCHANGED searchVars /\ query' \in {"visiting", "none"}
  BY DEF VisitStmt, VisitUse, VisitAssign, VisitAnnAssign, VisitAugAssign, VisitInert,
         VisitImport, VisitFunction, VisitClass, VisitBranch, VisitFor, VisitWith,
         VisitTry, VisitHandler, EndBody, FinishModule, Simple, Plain, Statement
<1>2. SearchInv'
  BY <1>1, StutterSearch DEF FullInv, Looking
<1>3. query' # "symbol" /\ query' # "reference"
  BY <1>1
<1> QED BY <1>2, <1>3 DEF Looking

LEMMA FullInit == Init => FullInv
<1> SUFFICES ASSUME Init PROVE FullInv
  OBVIOUS
<1>1. IInv
  BY InitInv
<1>2. SearchInv
  BY InitSearch DEF Init
<1>3. index.symbols = <<>> /\ index.references = <<>> /\ query = "visiting"
  BY DEF Init
<1>4. DOMAIN index.symbols = {} /\ DOMAIN index.references = {}
  BY <1>3
<1>5. UsesApart
  BY <1>4 DEF UsesApart, Distinct
<1>6. Looking
  BY <1>2, <1>3 DEF Looking
<1> QED BY <1>1, <1>5, <1>6 DEF FullInv

LEMMA FullNext == ScopeIndexAssumption /\ FullInv /\ [Next]_vars => FullInv'
<1> SUFFICES ASSUME ScopeIndexAssumption, FullInv, [Next]_vars PROVE FullInv'
  OBVIOUS
<1>1. IInv /\ UsesApart /\ IInv'
  BY NextInv DEF FullInv
<1>2. CASE VisitStmt
  <2>1. UsesApart'
    BY <1>1, <1>2, UseApart, AssignApart, AnnAssignApart, InertApart, ImportApart,
       FunctionApart, ClassApart, BranchApart, ForApart, WithApart, HandlerApart DEF VisitStmt
  <2> QED BY <1>1, <1>2, <2>1, VisitLooks DEF FullInv
<1>3. CASE EndBody \/ FinishModule
  BY <1>1, <1>3, EndsApart, VisitLooks DEF FullInv
<1>4. CASE Ask \/ AskReference
  BY <1>1, <1>4, LookupApart DEF FullInv
<1>5. CASE ScanTable \/ UNCHANGED vars
  BY <1>1, <1>5, ScanApart DEF FullInv
<1> QED BY <1>2, <1>3, <1>4, <1>5 DEF Next

LEMMA SymbolAnswers ==
  ASSUME FullInv, search = "done", query = "symbol", best # None,
         NEW u \in DOMAIN index.references,
         References[u].start <= offset, offset < References[u].end
  PROVE  /\ FoundSymbol # 0
         /\ Excused(index.symbols[FoundSymbol], text)
<1> DEFINE n == Len(index.symbols)
<1>1. /\ Ranges(Selections, n) /\ n \in Nat /\ DOMAIN index.symbols = 1 .. n
  <2>1. index \in Index /\ AllClosed(index)
    BY GoodParts DEF FullInv, IInv
  <2> QED BY <2>1, TablesTyped, IndexParts
<1> HIDE DEF n
<1>2. PICK turned \in BOOLEAN : entries = Sorted(Selections, turned)
  BY DEF FullInv, Looking
<1>3. Len(entries) = n /\ \A k \in 1 .. n : \E i \in 1 .. n : entries[k] = EntryOf(Selections, i)
  <2> DEFINE table == Selections
             es == Sorted(table, turned)
  <2>1. /\ DOMAIN table = 1 .. n
        /\ \A i \in 1 .. n : table[i].start \in Nat /\ table[i].end \in Nat
    BY <1>1 DEF Ranges
  <2> HIDE DEF table
  <2>2. Len(es) = n /\ \A k \in 1 .. n : \E i \in 1 .. n : es[k] = EntryOf(table, i)
    BY <1>1, <2>1, SortedIs
  <2> QED BY <1>2, <2>2 DEF table
<1>4. PICK k \in 1 .. Len(entries) : best = entries[k] /\ Covers(best)
  BY DEF FullInv, Looking, SearchInv, FindsInnermost
<1>5. PICK i \in 1 .. n : best = EntryOf(Selections, i)
  BY <1>3, <1>4
<1> DEFINE found == index.symbols[i]
           range == found.selection
           exact == Exact(range, range.half)
<1>6. /\ FoundSymbol = i /\ best.start = exact.start /\ best.end = exact.end /\ i # 0
  <2>1. Selections[i] = exact
    BY <1>1 DEF Selections, Symbols
  <2> HIDE DEF exact
  <2> QED BY <1>1, <1>5, <2>1 DEF FoundSymbol, Answer, EntryOf
<1>7. Placed(found, text, Here) /\ Clear(index, found, text)
  BY <1>1 DEF FullInv, UsesApart, Distinct
<1>8. found.selection \in Selected
  <2>1. index \in Index
    BY GoodParts DEF FullInv, IInv
  <2>2. found \in Symbol
    BY <1>1, <2>1, IndexParts
  <2> QED BY <2>2 DEF Symbol
\* The use lies at the word its range is at.
<1> DEFINE use == index.references[u].range
<1>9. /\ use.start \in Nat /\ use.end = use.start + 1
      /\ 2 * use.start <= offset /\ offset < 2 * use.start + 2 /\ offset \in Nat
  <2>1. Used(index.references[u], Here)
    BY DEF FullInv, UsesApart, Distinct
  <2>2. use.start \in Nat /\ use.end = use.start + 1
    BY <2>1 DEF Used, UseAt
  <2>3. References[u] = Exact(use, 0)
    BY DEF References
  <2>4. offset \in Nat
    BY DEF FullInv, Looking, SearchInv, TableOK
  <2> HIDE DEF use
  <2>5. use.end \in Nat
    BY <2>2
  <2>6. References[u].start = 2 * use.start /\ References[u].end = 2 * use.end
    BY <2>2, <2>3, <2>5, ExactEnds
  <2> QED BY <2>2, <2>4, <2>6
<1>10. Excused(found, text)
  <2> SUFFICES ASSUME ~ Excused(found, text) PROVE FALSE
    OBVIOUS
  <2>1. range.end = range.start + 1
    <3>1. text[found.selection.start + 1] # "except"
      BY DEF Excused
    <3> HIDE DEF found
    <3> QED BY <1>7, <3>1 DEF Placed
  <2>2. range.start \in Nat /\ range.end \in Nat /\ range.half \in 0 .. 2
    BY <1>8 DEF Selected
  <2>3. exact.start <= offset /\ offset < exact.end
    BY <1>4, <1>6 DEF Covers
  <2>4. range.start # use.start
    <3> HIDE DEF found
    <3> QED BY <1>7 DEF Clear
  <2> HIDE DEF range, use
  <2>5. /\ exact.start \in Int /\ exact.end \in Int
        /\ 2 * range.start <= exact.start /\ exact.end <= 2 * range.end
    BY <2>2, ExactEnds
  <2> HIDE DEF exact
  <2> DEFINE a == range.start
             b == use.start
             c == exact.start
             d == exact.end
  <2>6. /\ a \in Nat /\ b \in Nat /\ c \in Int /\ d \in Int /\ offset \in Nat /\ a # b
        /\ 2 * a <= c /\ c <= offset /\ offset < d /\ d <= 2 * (a + 1)
        /\ 2 * b <= offset /\ offset < 2 * b + 2
    BY <1>9, <2>1, <2>2, <2>3, <2>4, <2>5
  <2> HIDE DEF a, b, c, d
  <2> QED BY <2>6
<1> QED BY <1>6, <1>10 DEF found

LEMMA ReferenceAnswers ==
  ASSUME FullInv, search = "done", query = "reference",
         NEW u \in DOMAIN index.references,
         References[u].start <= offset, offset < References[u].end
  PROVE  \E r \in DOMAIN index.references :
           /\ References[r].start <= offset /\ offset < References[r].end
           /\ FoundSymbol = index.references[r].resolved
<1> DEFINE n == Len(index.references)
<1>1. /\ Ranges(References, n) /\ n \in Nat /\ DOMAIN index.references = 1 .. n
  <2>1. index \in Index /\ AllClosed(index)
    BY GoodParts DEF FullInv, IInv
  <2> QED BY <2>1, TablesTyped, IndexParts
<1> HIDE DEF n
<1>2. PICK turned \in BOOLEAN : entries = Sorted(References, turned)
  BY DEF FullInv, Looking
<1>3. /\ Len(entries) = n
      /\ \A k \in 1 .. n : \E i \in 1 .. n : entries[k] = EntryOf(References, i)
      /\ \A i \in 1 .. n : \E k \in 1 .. n : entries[k] = EntryOf(References, i)
  <2> DEFINE table == References
             es == Sorted(table, turned)
  <2>1. /\ DOMAIN table = 1 .. n
        /\ \A i \in 1 .. n : table[i].start \in Nat /\ table[i].end \in Nat
    BY <1>1 DEF Ranges
  <2> HIDE DEF table
  <2>2. /\ Len(es) = n
        /\ \A k \in 1 .. n : \E i \in 1 .. n : es[k] = EntryOf(table, i)
        /\ \A i \in 1 .. n : \E k \in 1 .. n : es[k] = EntryOf(table, i)
    BY <1>1, <2>1, SortedIs
  <2> QED BY <1>2, <2>2 DEF table
<1>4. \A r \in 1 .. n : /\ EntryOf(References, r).start = References[r].start
                        /\ EntryOf(References, r).end = References[r].end
                        /\ EntryOf(References, r).index = r
  BY DEF EntryOf
<1>5. best # None
  <2>1. PICK k \in 1 .. n : entries[k] = EntryOf(References, u)
    BY <1>1, <1>3
  <2>2. Covers(entries[k])
    BY <1>1, <1>4, <2>1 DEF Covers
  <2> QED BY <1>3, <2>2 DEF FullInv, Looking, SearchInv, FindsInnermost
<1>6. PICK k \in 1 .. Len(entries) : best = entries[k] /\ Covers(best)
  BY <1>5 DEF FullInv, Looking, SearchInv, FindsInnermost
<1>7. PICK r \in 1 .. n : best = EntryOf(References, r)
  BY <1>3, <1>6
<1>8. References[r].start <= offset /\ offset < References[r].end
  BY <1>4, <1>6, <1>7 DEF Covers
<1>9. FoundSymbol = index.references[r].resolved
  BY <1>4, <1>5, <1>7 DEF FoundSymbol, Answer
<1> QED BY <1>1, <1>8, <1>9

LEMMA InvUseFinds == FullInv => UseFindsItsSymbol
<1> SUFFICES ASSUME FullInv, SymbolIsFound PROVE UseFindsItsSymbol
  BY DEF UseFindsItsSymbol
<1> DEFINE uses == {r \in DOMAIN index.references :
                      References[r].start <= offset /\ offset < References[r].end}
           found == index.symbols[FoundSymbol]
<1>1. \/ uses = {}
      \/ \E r \in uses : FoundSymbol = index.references[r].resolved
      \/ FoundSymbol # 0 /\ Excused(found, text)
  <2> SUFFICES ASSUME NEW u \in DOMAIN index.references,
                      References[u].start <= offset, offset < References[u].end
               PROVE  \/ \E r \in uses : FoundSymbol = index.references[r].resolved
                      \/ FoundSymbol # 0 /\ Excused(found, text)
    OBVIOUS
  <2>1. search = "done" /\ (query = "reference" \/ (query = "symbol" /\ best # None))
    BY DEF SymbolIsFound
  <2>2. CASE query = "reference"
    <3>1. PICK r \in DOMAIN index.references :
            /\ References[r].start <= offset /\ offset < References[r].end
            /\ FoundSymbol = index.references[r].resolved
      BY <2>1, <2>2, ReferenceAnswers
    <3> QED BY <3>1
  <2>3. CASE query = "symbol" /\ best # None
    BY <2>1, <2>3, SymbolAnswers
  <2> QED BY <2>1, <2>2, <2>3
<1> QED BY <1>1 DEF UseFindsItsSymbol, Excused, InDecorators
-------------------------------------------------------------------------------
\* The ids of an index (indexer.rs, scope.rs, symbol.rs) name what exists, and
\* following parents from any scope ends at the module.
THEOREM TypeCorrect == Spec => []TypeOK
<1>1. Init => IInv
  BY InitInv
<1>2. IInv /\ [Next]_vars => IInv'
  BY NextInv, ScopeIndexAssumption
<1>3. IInv => TypeOK
  BY InvTypeOK
<1> QED BY <1>1, <1>2, <1>3, PTL DEF Spec

\* OwnedIndex::resolve_name (owned.rs), asked when the module is complete, and
\* Indexer::visit_name (indexer.rs), which resolved each use when it came to
\* it, agree, but for names bound later and names misread.
THEOREM ResolutionHolds == Spec => []ResolutionStands
<1>1. Init => IInv
  BY InitInv
<1>2. IInv /\ [Next]_vars => IInv'
  BY NextInv, ScopeIndexAssumption
<1>3. IInv => ResolutionStands
  BY InvResolution
<1> QED BY <1>1, <1>2, <1>3, PTL DEF Spec

\* The ranges that Indexer::with_scope (indexer.rs) gives scopes are a tree, but
\* for defaults, visited twice, and for decorators and bases, visited before
\* their function or class; symbols and references lie where scope_at (owned.rs)
\* leads back to their scope, but for those of decorators and bases.
THEOREM ScopesAreNested == Spec => []ScopesNest
<1>1. Init => IInv
  BY InitInv
<1>2. IInv /\ [Next]_vars => IInv'
  BY NextInv, ScopeIndexAssumption
<1>3. IInv => ScopesNest
  BY InvScopesNest
<1> QED BY <1>1, <1>2, <1>3, PTL DEF Spec

\* DocumentQuery::find_symbol_at (handlers/common.rs), asked at a use, returns
\* what Indexer::visit_name resolved the use to, although OwnedIndex looks among
\* the symbols first: but for the name of a handler and that of a function or
\* class found in its decorators, no symbol's selection reaches over a use.
THEOREM UsesFound == Spec => []UseFindsItsSymbol
<1>1. Init => FullInv
  BY FullInit
<1>2. FullInv /\ [Next]_vars => FullInv'
  BY FullNext, ScopeIndexAssumption
<1>3. FullInv => UseFindsItsSymbol
  BY InvUseFinds
<1> QED BY <1>1, <1>2, <1>3, PTL DEF Spec

\* OwnedIndex::symbol_at, scope_at and reference_at (owned.rs) find an innermost
\* range of the tables that PositionalIndex::build sorted, at every offset.
THEOREM LookupsFindInnermost == Spec => []FindsInnermost
<1>1. Init => FullInv
  BY FullInit
<1>2. FullInv /\ [Next]_vars => FullInv'
  BY FullNext, ScopeIndexAssumption
<1>3. FullInv => FindsInnermost
  BY DEF FullInv, Looking, SearchInv
<1> QED BY <1>1, <1>2, <1>3, PTL DEF Spec
===============================================================================
