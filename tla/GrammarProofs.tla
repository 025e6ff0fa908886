---------------------------- MODULE GrammarProofs ----------------------------
(***************************************************************************)
(* Proofs that the parser parses by the grammar.  First, facts about the   *)
(* grammar: a sequence of tokens has one derivation at most, and a         *)
(* derivation of an expression is one of its first operand, followed by    *)
(* the rest.  Then, what the calls in progress have parsed and what they   *)
(* wait for, so that the parser accepts the expressions of the grammar and *)
(* no others, and builds their derivations.                                *)
(***************************************************************************)
EXTENDS ParserProofs

(***************************************************************************)
(* Derives(s, d) says that d gives the trees of all pieces of s.           *)
(***************************************************************************)
Pieces(s) == Nonterminals \X (1 .. Len(s) + 1) \X (0 .. Len(s))

Derives(s, d) == d = [at \in Pieces(s) |-> Trees(s, d, at[1], at[2], at[3])]

(***************************************************************************)
(* The trees of a piece are made of those of pieces that are shorter or,   *)
(* when as long, of a level that binds more: they come later in this       *)
(* order.                                                                  *)
(***************************************************************************)
Size3(lo, hi) == IF hi < lo THEN 0 ELSE 3 * (hi + 1 - lo)

Order(at) ==
  Size3(at[2], at[3]) +
  (IF at[1] = "unary" THEN 0 ELSE IF at[1] = "factor" THEN 1 ELSE 2)

\* A tree with an operator at the root: the operator splits the piece.
Split(s, d, left, operators, right, lo, hi, tree) ==
  \E k \in lo + 1 .. hi - 1 :
    /\ s[k] \in operators
    /\ \E a \in d[<<left, lo, k - 1>>], b \in d[<<right, k + 1, hi>>] : tree = Binary(s[k], a, b)

\* Those are the trees of Binaries.
LEMMA BinaryTrees ==
  ASSUME NEW s, NEW d, NEW lo, NEW hi, NEW left, NEW right, NEW operators, NEW tree
  PROVE  tree \in Binaries(s, d, left, operators, right, lo, hi) <=>
           Split(s, d, left, operators, right, lo, hi, tree)
<1> DEFINE B(k) == {Binary(s[k], parts[1], parts[2]) :
                     parts \in d[<<left, lo, k - 1>>] \X d[<<right, k + 1, hi>>]}
           K == {j \in lo + 1 .. hi - 1 : s[j] \in operators}
<1>1. Binaries(s, d, left, operators, right, lo, hi) = UNION {B(k) : k \in K}
  BY Zenon DEF Binaries
<1>2. \A k : tree \in B(k) <=> \E a \in d[<<left, lo, k - 1>>], b \in d[<<right, k + 1, hi>>] :
                                 tree = Binary(s[k], a, b)
  <2> TAKE k
  <2> DEFINE A == d[<<left, lo, k - 1>>]
             C == d[<<right, k + 1, hi>>]
  <2>1. tree \in B(k) <=> \E parts \in A \X C : tree = Binary(s[k], parts[1], parts[2])
    OBVIOUS
  <2> HIDE DEF A, C, B
  <2>2. (\E parts \in A \X C : tree = Binary(s[k], parts[1], parts[2]))
          <=> \E a \in A, b \in C : tree = Binary(s[k], a, b)
    <3>1. ASSUME NEW a \in A, NEW b \in C, tree = Binary(s[k], a, b)
          PROVE  \E parts \in A \X C : tree = Binary(s[k], parts[1], parts[2])
      <4> WITNESS <<a, b>> \in A \X C
      <4> QED BY <3>1
    <3> QED BY <3>1
  <2> QED BY <2>1, <2>2 DEF A, C
<1> HIDE DEF B
<1>3. tree \in UNION {B(k) : k \in K} <=> \E k \in K : tree \in B(k)
  OBVIOUS
<1> QED BY <1>1, <1>2, <1>3 DEF Split

\* Which does not depend on how longer pieces are derived.
LEMMA BinariesLocal ==
  ASSUME NEW s, NEW f, NEW g, NEW lo, NEW hi, NEW left, NEW right, NEW operators,
         \A k \in lo + 1 .. hi - 1 : /\ f[<<left, lo, k - 1>>] = g[<<left, lo, k - 1>>]
                                     /\ f[<<right, k + 1, hi>>] = g[<<right, k + 1, hi>>]
  PROVE  Binaries(s, f, left, operators, right, lo, hi)
           = Binaries(s, g, left, operators, right, lo, hi)
<1>1. \A tree : Split(s, f, left, operators, right, lo, hi, tree)
                  <=> Split(s, g, left, operators, right, lo, hi, tree)
  BY DEF Split
<1> QED BY <1>1, BinaryTrees

\* So the recursion is well founded.
LEMMA TreesLocal ==
  ASSUME NEW s, Len(s) \in Nat, NEW f, NEW g, NEW at \in Pieces(s),
         \A x \in Pieces(s) : Order(x) < Order(at) => f[x] = g[x]
  PROVE  Trees(s, f, at[1], at[2], at[3]) = Trees(s, g, at[1], at[2], at[3])
<1>1. PICK level \in Nonterminals, lo \in 1 .. Len(s) + 1, hi \in 0 .. Len(s) :
        at = <<level, lo, hi>>
  BY DEF Pieces
<1>2. at[1] = level /\ at[2] = lo /\ at[3] = hi
  BY <1>1
<1>3. Order(at) = Size3(lo, hi) +
                    (IF level = "unary" THEN 0 ELSE IF level = "factor" THEN 1 ELSE 2)
  BY <1>2 DEF Order
<1>4. ASSUME NEW l \in Nonterminals, NEW p \in 1 .. Len(s) + 1, NEW q \in 0 .. Len(s),
             Size3(p, q) + (IF l = "unary" THEN 0 ELSE IF l = "factor" THEN 1 ELSE 2)
               < Order(at)
      PROVE  f[<<l, p, q>>] = g[<<l, p, q>>]
  <2>1. <<l, p, q>> \in Pieces(s)
    BY DEF Pieces
  <2>2. Order(<<l, p, q>>) < Order(at)
    BY <1>4 DEF Order
  <2> QED BY <2>1, <2>2
<1>5. ASSUME NEW p \in lo .. Len(s) + 1, NEW q \in 0 .. hi, lo < p \/ q < hi, lo <= hi,
             NEW l \in Nonterminals
      PROVE  f[<<l, p, q>>] = g[<<l, p, q>>]
  <2>1. Size3(p, q) + 2 < Size3(lo, hi)
    BY <1>5 DEF Size3
  <2>2. Size3(p, q) \in Nat /\ Size3(lo, hi) \in Nat
    BY DEF Size3
  <2> QED BY <1>3, <1>4, <2>1, <2>2
<1>6. ASSUME NEW left \in Nonterminals, NEW right \in Nonterminals, NEW operators
      PROVE  Binaries(s, f, left, operators, right, lo, hi)
               = Binaries(s, g, left, operators, right, lo, hi)
  <2>1. ASSUME NEW k \in lo + 1 .. hi - 1
        PROVE  /\ f[<<left, lo, k - 1>>] = g[<<left, lo, k - 1>>]
               /\ f[<<right, k + 1, hi>>] = g[<<right, k + 1, hi>>]
    <3>1. /\ lo \in lo .. Len(s) + 1 /\ k - 1 \in 0 .. hi /\ k - 1 < hi /\ lo <= hi
          /\ k + 1 \in lo .. Len(s) + 1 /\ hi \in 0 .. hi /\ lo < k + 1
      OBVIOUS
    <3> QED BY <1>5, <3>1
  <2> QED BY <2>1, BinariesLocal
<1>7. "unary" \in Nonterminals /\ "factor" \in Nonterminals /\ "term" \in Nonterminals
  BY DEF Nonterminals
<1>0. Size3(lo, hi) \in Nat
  BY DEF Size3
<1>8. CASE level = "term"
  <2>1. f[<<"factor", lo, hi>>] = g[<<"factor", lo, hi>>]
    BY <1>0, <1>3, <1>4, <1>7, <1>8
  <2> QED BY <1>2, <1>6, <1>7, <1>8, <2>1 DEF Trees
<1>9. CASE level = "factor"
  <2>1. f[<<"unary", lo, hi>>] = g[<<"unary", lo, hi>>]
    BY <1>0, <1>3, <1>4, <1>7, <1>9
  <2> QED BY <1>2, <1>6, <1>7, <1>9, <2>1 DEF Trees
<1>10. CASE level = "unary"
  <2>1. lo < hi => f[<<"unary", lo + 1, hi>>] = g[<<"unary", lo + 1, hi>>]
    <3> SUFFICES ASSUME lo < hi PROVE f[<<"unary", lo + 1, hi>>] = g[<<"unary", lo + 1, hi>>]
      OBVIOUS
    <3>1. lo + 1 \in lo .. Len(s) + 1 /\ hi \in 0 .. hi /\ lo < lo + 1 /\ lo <= hi
      OBVIOUS
    <3> QED BY <1>5, <1>7, <3>1
  <2>2. lo < hi => f[<<"term", lo + 1, hi - 1>>] = g[<<"term", lo + 1, hi - 1>>]
    <3> SUFFICES ASSUME lo < hi
                 PROVE  f[<<"term", lo + 1, hi - 1>>] = g[<<"term", lo + 1, hi - 1>>]
      OBVIOUS
    <3>1. lo + 1 \in lo .. Len(s) + 1 /\ hi - 1 \in 0 .. hi /\ lo < lo + 1 /\ lo <= hi
      OBVIOUS
    <3> QED BY <1>5, <1>7, <3>1
  <2>3. (IF lo < hi /\ s[lo] \in UnaryOperators THEN f[<<"unary", lo + 1, hi>>] ELSE {})
          = (IF lo < hi /\ s[lo] \in UnaryOperators THEN g[<<"unary", lo + 1, hi>>] ELSE {})
    BY <2>1
  <2>4. (IF lo < hi /\ s[lo] = "(" /\ s[hi] = ")" THEN f[<<"term", lo + 1, hi - 1>>] ELSE {})
          = (IF lo < hi /\ s[lo] = "(" /\ s[hi] = ")" THEN g[<<"term", lo + 1, hi - 1>>] ELSE {})
    BY <2>2
  <2> QED BY <1>2, <1>10, <2>3, <2>4 DEF Trees
<1> QED BY <1>8, <1>9, <1>10 DEF Nonterminals
-----------------------------------------------------------------------------
\* There is a function that gives the trees of all pieces.
LEMMA DerivesExist ==
  ASSUME NEW s, Len(s) \in Nat
  PROVE  \E d : Derives(s, d)
<1> DEFINE TreesAt(f, at) == Trees(s, f, at[1], at[2], at[3])
           Bound == 3 * Len(s) + 3
           T == {n \in 0 .. Bound :
                   \E f : \A at \in Pieces(s) : Order(at) < n => f[at] = TreesAt(f, at)}
<1>1. ASSUME NEW at \in Pieces(s) PROVE Order(at) \in 0 .. Bound - 1
  <2>1. at[2] \in 1 .. Len(s) + 1 /\ at[3] \in 0 .. Len(s)
    BY DEF Pieces
  <2>2. Size3(at[2], at[3]) \in 0 .. 3 * Len(s)
    BY <2>1 DEF Size3
  <2> QED BY <2>2 DEF Order
<1>2. 0 \in T
  <2>1. \A at \in Pieces(s) : Order(at) < 0 => 0[at] = TreesAt(0, at)
    BY <1>1
  <2> HIDE DEF TreesAt
  <2> QED BY <2>1
<1>3. ASSUME NEW n \in 0 .. Bound - 1, n \in T PROVE n + 1 \in T
  <2>1. PICK f : \A at \in Pieces(s) : Order(at) < n => f[at] = TreesAt(f, at)
    BY <1>3
  <2> DEFINE g == [at \in Pieces(s) |-> IF Order(at) < n THEN f[at] ELSE TreesAt(f, at)]
  <2>2. ASSUME NEW at \in Pieces(s), Order(at) < n + 1 PROVE g[at] = TreesAt(g, at)
    <3>1. ASSUME NEW x \in Pieces(s), Order(x) < Order(at) PROVE f[x] = g[x]
      <4>1. Order(x) < n
        BY <1>1, <2>2, <3>1
      <4> HIDE DEF TreesAt
      <4> QED BY <4>1
    <3> HIDE DEF g
    <3>2. TreesAt(f, at) = TreesAt(g, at)
      BY <3>1, TreesLocal
    <3> HIDE DEF TreesAt
    <3>3. g[at] = TreesAt(f, at)
      BY <2>1 DEF g
    <3> QED BY <3>2, <3>3
  <2> HIDE DEF TreesAt, g
  <2> QED BY <2>2
<1>4. \A n \in 0 .. Bound : n \in T
  <2> HIDE DEF T
  <2>1. Bound \in Nat
    OBVIOUS
  <2> HIDE DEF Bound
  <2> QED BY <1>2, <1>3, <2>1, UpTo
<1>5. PICK f : \A at \in Pieces(s) : f[at] = TreesAt(f, at)
  <2>1. Bound \in T
    BY <1>4
  <2>2. PICK f : \A at \in Pieces(s) : Order(at) < Bound => f[at] = TreesAt(f, at)
    BY <2>1
  <2> HIDE DEF TreesAt, T
  <2> QED BY <1>1, <2>2
<1> DEFINE d == [at \in Pieces(s) |-> f[at]]
<1>6. ASSUME NEW at \in Pieces(s) PROVE d[at] = TreesAt(d, at)
  <2>1. \A x \in Pieces(s) : f[x] = d[x]
    OBVIOUS
  <2> HIDE DEF d
  <2>2. TreesAt(f, at) = TreesAt(d, at)
    BY <2>1, TreesLocal
  <2> HIDE DEF TreesAt
  <2> QED BY <1>5, <2>1, <2>2
<1>7. d = [at \in Pieces(s) |-> d[at]]
  OBVIOUS
<1> HIDE DEF d
<1>8. d = [at \in Pieces(s) |-> TreesAt(d, at)]
  <2> HIDE DEF TreesAt
  <2> QED BY <1>6, <1>7
<1> QED BY <1>8 DEF Derives

\* The trees of a piece of s as an expression of a level.
D(s, level, lo, hi) == (CHOOSE d : Derives(s, d))[<<level, lo, hi>>]

\* Derivations are the trees of the whole.
LEMMA DerivationsAre ==
  ASSUME NEW s
  PROVE  Derivations(s) = D(s, "term", 1, Len(s))
BY Zenon DEF Derivations, D, Derives, Pieces

\* The rules, one by one.
LEMMA TreesOf ==
  ASSUME NEW s, Len(s) \in Nat, NEW level \in Nonterminals,
         NEW lo \in 1 .. Len(s) + 1, NEW hi \in 0 .. Len(s)
  PROVE  D(s, level, lo, hi) = Trees(s, CHOOSE d : Derives(s, d), level, lo, hi)
<1> DEFINE d == CHOOSE d : Derives(s, d)
<1>1. Derives(s, d)
  BY DerivesExist
<1>2. <<level, lo, hi>> \in Pieces(s)
  BY DEF Pieces
<1> HIDE DEF d
<1>3. d[<<level, lo, hi>>] = Trees(s, d, level, lo, hi)
  BY <1>1, <1>2 DEF Derives
<1> QED BY <1>3 DEF d, D
-----------------------------------------------------------------------------
(***************************************************************************)
(* The two levels of binary operators have the same rule.                  *)
(***************************************************************************)
BinaryLevels == {"term", "factor"}

Below(level) == IF level = "term" THEN "factor" ELSE "unary"

Own(level) == IF level = "term" THEN TermOperators ELSE FactorOperators

Compound(s, level, lo, hi, tree) ==
  \E k \in lo + 1 .. hi - 1 :
    /\ s[k] \in Own(level)
    /\ \E a \in D(s, level, lo, k - 1), b \in D(s, Below(level), k + 1, hi) :
         tree = Binary(s[k], a, b)

\* A piece of s; it may be empty.
Piece(s, lo, hi) == Len(s) \in Nat /\ lo \in 1 .. Len(s) + 1 /\ hi \in 0 .. Len(s)

\* The rule of a level with binary operators.
LEMMA BinaryRule ==
  ASSUME NEW s, NEW level \in BinaryLevels, NEW lo, NEW hi, Piece(s, lo, hi), NEW tree
  PROVE  tree \in D(s, level, lo, hi) <=>
           tree \in D(s, Below(level), lo, hi) \/ Compound(s, level, lo, hi, tree)
<1> DEFINE d == CHOOSE d : Derives(s, d)
<1>1. level \in Nonterminals
  BY DEF BinaryLevels, Nonterminals
<1>2. D(s, level, lo, hi) = Trees(s, d, level, lo, hi)
  BY <1>1, TreesOf DEF Piece
<1>3. \A l, p, q : D(s, l, p, q) = d[<<l, p, q>>]
  BY DEF D
<1> HIDE DEF d
<1>4. Trees(s, d, level, lo, hi)
        = d[<<Below(level), lo, hi>>] \cup
          Binaries(s, d, level, Own(level), Below(level), lo, hi)
  <2>1. CASE level = "term"
    BY <2>1 DEF Trees, Below, Own
  <2>2. CASE level = "factor"
    BY <2>2 DEF Trees, Below, Own
  <2> QED BY <2>1, <2>2 DEF BinaryLevels
<1>5. tree \in Binaries(s, d, level, Own(level), Below(level), lo, hi)
        <=> Split(s, d, level, Own(level), Below(level), lo, hi, tree)
  BY BinaryTrees
<1>6. Split(s, d, level, Own(level), Below(level), lo, hi, tree) <=> Compound(s, level, lo, hi, tree)
  BY <1>3 DEF Split, Compound
<1> QED BY <1>2, <1>3, <1>4, <1>5, <1>6

\* The rule of what has no binary operator.
LEMMA UnaryRule ==
  ASSUME NEW s, NEW lo, NEW hi, Piece(s, lo, hi), NEW tree
  PROVE  tree \in D(s, "unary", lo, hi) <=>
           \/ lo = hi /\ s[lo] \in Literals /\ tree = Leaf(s[lo], lo)
           \/ /\ lo < hi /\ s[lo] \in UnaryOperators
              /\ \E a \in D(s, "unary", lo + 1, hi) : tree = Unary(s[lo], a)
           \/ /\ lo < hi /\ s[lo] = "(" /\ s[hi] = ")"
              /\ \E a \in D(s, "term", lo + 1, hi - 1) : tree = Grouping(a)
<1> DEFINE d == CHOOSE d : Derives(s, d)
           A == {Leaf(s[p], p) : p \in {q \in {lo} : q = hi /\ s[q] \in Literals}}
           U == IF lo < hi /\ s[lo] \in UnaryOperators THEN d[<<"unary", lo + 1, hi>>] ELSE {}
           G == IF lo < hi /\ s[lo] = "(" /\ s[hi] = ")" THEN d[<<"term", lo + 1, hi - 1>>] ELSE {}
<1>1. D(s, "unary", lo, hi) = Trees(s, d, "unary", lo, hi)
  BY TreesOf DEF Piece, Nonterminals
<1>2. \A l, p, q : D(s, l, p, q) = d[<<l, p, q>>]
  BY DEF D
<1> HIDE DEF d
<1>3. Trees(s, d, "unary", lo, hi)
        = A \cup {Unary(s[lo], a) : a \in U} \cup {Grouping(a) : a \in G}
  BY DEF Trees
<1>4. tree \in A <=> lo = hi /\ s[lo] \in Literals /\ tree = Leaf(s[lo], lo)
  OBVIOUS
<1>5. tree \in {Unary(s[lo], a) : a \in U} <=> \E a \in U : tree = Unary(s[lo], a)
  OBVIOUS
<1>6. tree \in {Grouping(a) : a \in G} <=> \E a \in G : tree = Grouping(a)
  OBVIOUS
<1>7. \A a : a \in U <=> /\ lo < hi /\ s[lo] \in UnaryOperators
                         /\ a \in D(s, "unary", lo + 1, hi)
  BY <1>2
<1>8. \A a : a \in G <=> /\ lo < hi /\ s[lo] = "(" /\ s[hi] = ")"
                         /\ a \in D(s, "term", lo + 1, hi - 1)
  BY <1>2
<1> HIDE DEF A, U, G
<1>9. tree \in D(s, "unary", lo, hi) <=>
        \/ tree \in A
        \/ tree \in {Unary(s[lo], a) : a \in U}
        \/ tree \in {Grouping(a) : a \in G}
  BY <1>1, <1>3
<1> QED BY <1>4, <1>5, <1>6, <1>7, <1>8, <1>9
-----------------------------------------------------------------------------
\* That a piece is an expression of a level.
Is(s, level, lo, hi) == Piece(s, lo, hi) /\ D(s, level, lo, hi) # {}

\* No expression is empty.
LEMMA NotEmpty ==
  ASSUME NEW s, NEW level \in Nonterminals, NEW lo, NEW hi, Is(s, level, lo, hi)
  PROVE  lo \in 1 .. Len(s) /\ hi \in 1 .. Len(s) /\ lo <= hi
<1>1. Piece(s, lo, hi)
  BY DEF Is
<1>2. ASSUME D(s, "unary", lo, hi) # {} PROVE lo <= hi
  <2>1. PICK tree : tree \in D(s, "unary", lo, hi)
    BY <1>2
  <2>2. lo = hi \/ lo < hi
    BY <1>1, <2>1, UnaryRule
  <2> QED BY <1>1, <2>2 DEF Piece
<1>3. ASSUME NEW l \in BinaryLevels, D(s, l, lo, hi) # {}, ~ (lo <= hi)
      PROVE  D(s, Below(l), lo, hi) # {}
  <2>1. PICK tree : tree \in D(s, l, lo, hi)
    BY <1>3
  <2>2. ~ Compound(s, l, lo, hi, tree)
    BY <1>1, <1>3 DEF Compound, Piece
  <2> QED BY <1>1, <2>1, <2>2, BinaryRule
<1>4. lo <= hi
  BY <1>2, <1>3 DEF Is, Nonterminals, BinaryLevels, Below
<1> QED BY <1>1, <1>4 DEF Piece

\* An expression of the level below is one of the level.
LEMMA Widens ==
  ASSUME NEW s, NEW level \in BinaryLevels, NEW lo, NEW hi, Is(s, Below(level), lo, hi)
  PROVE  Is(s, level, lo, hi)
<1>1. PICK tree : tree \in D(s, Below(level), lo, hi)
  BY DEF Is
<1> QED BY <1>1, BinaryRule DEF Is

\* Joining two expressions with an operator of the level.
LEMMA Joins ==
  ASSUME NEW s, NEW level \in BinaryLevels, NEW lo, NEW k \in Int, NEW hi,
         Is(s, level, lo, k - 1), s[k] \in Own(level), Is(s, Below(level), k + 1, hi)
  PROVE  Is(s, level, lo, hi)
<1>1. level \in Nonterminals /\ Below(level) \in Nonterminals
  BY DEF BinaryLevels, Nonterminals, Below
<1>2. /\ lo \in 1 .. Len(s) /\ lo <= k - 1 /\ k + 1 <= hi /\ hi \in 1 .. Len(s)
      /\ Len(s) \in Nat
  BY <1>1, NotEmpty DEF Is, Piece
<1>3. PICK a, b : a \in D(s, level, lo, k - 1) /\ b \in D(s, Below(level), k + 1, hi)
  BY DEF Is
<1>4. k \in lo + 1 .. hi - 1 /\ Piece(s, lo, hi)
  BY <1>2 DEF Piece
<1>5. Compound(s, level, lo, hi, Binary(s[k], a, b))
  BY <1>3, <1>4 DEF Compound
<1>6. Binary(s[k], a, b) \in D(s, level, lo, hi)
  BY <1>4, <1>5, BinaryRule
<1> QED BY <1>4, <1>6 DEF Is

\* How an expression of a level comes about.
LEMMA Comes ==
  ASSUME NEW s, NEW level \in BinaryLevels, NEW lo, NEW hi, Is(s, level, lo, hi),
         ~ Is(s, Below(level), lo, hi)
  PROVE  \E k \in lo + 1 .. hi - 1 : /\ Is(s, level, lo, k - 1) /\ s[k] \in Own(level)
                                     /\ Is(s, Below(level), k + 1, hi)
<1>1. Piece(s, lo, hi)
  BY DEF Is
<1>2. PICK tree : tree \in D(s, level, lo, hi)
  BY DEF Is
<1>3. Compound(s, level, lo, hi, tree)
  BY <1>1, <1>2, BinaryRule DEF Is
<1>4. PICK k \in lo + 1 .. hi - 1 : /\ s[k] \in Own(level)
                                    /\ D(s, level, lo, k - 1) # {}
                                    /\ D(s, Below(level), k + 1, hi) # {}
  BY <1>3 DEF Compound
<1>5. Piece(s, lo, k - 1) /\ Piece(s, k + 1, hi)
  BY <1>1 DEF Piece
<1> QED BY <1>4, <1>5 DEF Is
-----------------------------------------------------------------------------
(***************************************************************************)
(* Expressions are read from the left: an operand, and behind it nothing   *)
(* or an operator and what is again an expression of the level.            *)
(***************************************************************************)
Rest(s, operators, level, m, hi) ==
  m = hi \/ (s[m + 1] \in operators /\ Is(s, level, m + 2, hi))

\* Ops(level): all the operators that an expression of the level may contain.
Ops(level) == CASE level = "term"   -> TermOperators \cup FactorOperators
                [] level = "factor" -> FactorOperators
                [] OTHER            -> {}

\* A level with binary operators begins with an operand of the level below.
LEMMA FirstOperand ==
  ASSUME NEW s, NEW level \in BinaryLevels, NEW lo, NEW hi, Is(s, level, lo, hi)
  PROVE  \E m \in lo .. hi : Is(s, Below(level), lo, m) /\ Rest(s, Own(level), level, m, hi)
<1> DEFINE First(p, q) ==
             \E m \in p .. q : Is(s, Below(level), p, m) /\ Rest(s, Own(level), level, m, q)
           T == {n \in 0 .. Len(s) :
                   \A p \in 1 .. Len(s), q \in 1 .. Len(s) :
                     q - p = n /\ Is(s, level, p, q) => First(p, q)}
<1>0. Len(s) \in Nat /\ level \in Nonterminals /\ Below(level) \in Nonterminals
  BY DEF Is, Piece, BinaryLevels, Nonterminals, Below
<1>1. ASSUME NEW n \in 0 .. Len(s), \A j \in 0 .. n - 1 : j \in T PROVE n \in T
  <2> SUFFICES ASSUME NEW p \in 1 .. Len(s), NEW q \in 1 .. Len(s), q - p = n, Is(s, level, p, q)
               PROVE  First(p, q)
    OBVIOUS
  <2>1. CASE Is(s, Below(level), p, q)
    <3>1. q \in p .. q /\ Rest(s, Own(level), level, q, q)
      BY <1>0, <1>1 DEF Rest
    <3> QED BY <2>1, <3>1
  <2>2. CASE ~ Is(s, Below(level), p, q)
    <3>1. PICK k \in p + 1 .. q - 1 : /\ Is(s, level, p, k - 1) /\ s[k] \in Own(level)
                                      /\ Is(s, Below(level), k + 1, q)
      BY <2>2, Comes
    <3>2. PICK j : j = k - 1 - p
      OBVIOUS
    <3>3. j \in 0 .. n - 1 /\ k - 1 \in 1 .. Len(s) /\ (k - 1) - p = j
      BY <3>1, <3>2, <1>0
    <3>4. First(p, k - 1)
      <4>1. j \in T
        BY <1>1, <3>3
      <4> HIDE DEF First
      <4> QED BY <3>1, <3>3, <4>1
    <3>5. PICK m \in p .. k - 1 : Is(s, Below(level), p, m) /\ Rest(s, Own(level), level, m, k - 1)
      BY <3>4
    <3>6. m \in p .. q
      BY <3>5, <1>0
    <3>7. Rest(s, Own(level), level, m, q)
      <4>1. CASE m = k - 1
        <5>1. m + 1 = k /\ m + 2 = k + 1
          BY <4>1, <1>0
        <5>2. Is(s, level, k + 1, q)
          BY <3>1, Widens
        <5> QED BY <3>1, <5>1, <5>2 DEF Rest
      <4>2. CASE s[m + 1] \in Own(level) /\ Is(s, level, m + 2, k - 1)
        <5>1. Is(s, level, m + 2, q)
          BY <3>1, <4>2, Joins
        <5> QED BY <4>2, <5>1 DEF Rest
      <4> QED BY <3>5, <4>1, <4>2 DEF Rest
    <3> QED BY <3>5, <3>6, <3>7
  <2> QED BY <2>1, <2>2
<1>2. \A n \in 0 .. Len(s) : n \in T
  <2> HIDE DEF T
  <2> QED BY <1>0, <1>1, FromSmaller
<1>3. lo \in 1 .. Len(s) /\ hi \in 1 .. Len(s) /\ lo <= hi
  BY <1>0, NotEmpty
<1>4. PICK n : n = hi - lo
  OBVIOUS
<1>5. n \in 0 .. Len(s) /\ hi - lo = n
  BY <1>0, <1>3, <1>4
<1>6. n \in T
  BY <1>2, <1>5
<1> QED BY <1>3, <1>5, <1>6

\* The other way round, an operand may be put in front.
LEMMA Prepends ==
  ASSUME NEW s, NEW level \in BinaryLevels, NEW lo, NEW m \in Int, NEW hi,
         Is(s, Below(level), lo, m), s[m + 1] \in Own(level), Is(s, level, m + 2, hi)
  PROVE  Is(s, level, lo, hi)
<1> DEFINE T == {n \in 0 .. Len(s) :
                   \A q \in 1 .. Len(s) :
                     q - (m + 2) = n /\ Is(s, level, m + 2, q) => Is(s, level, lo, q)}
<1>0. Len(s) \in Nat /\ level \in Nonterminals /\ Below(level) \in Nonterminals
  BY DEF Is, Piece, BinaryLevels, Nonterminals, Below
<1>1. ASSUME NEW n \in 0 .. Len(s), \A j \in 0 .. n - 1 : j \in T PROVE n \in T
  <2> SUFFICES ASSUME NEW q \in 1 .. Len(s), q - (m + 2) = n, Is(s, level, m + 2, q)
               PROVE  Is(s, level, lo, q)
    OBVIOUS
  <2>1. CASE Is(s, Below(level), m + 2, q)
    <3>1. Is(s, level, lo, m)
      BY Widens
    <3>2. PICK k \in Int : k = m + 1
      OBVIOUS
    <3>3. k - 1 = m /\ k + 1 = m + 2
      BY <3>2
    <3> QED BY <2>1, <3>1, <3>2, <3>3, Joins
  <2>2. CASE ~ Is(s, Below(level), m + 2, q)
    <3>1. PICK k \in (m + 2) + 1 .. q - 1 : /\ Is(s, level, m + 2, k - 1) /\ s[k] \in Own(level)
                                            /\ Is(s, Below(level), k + 1, q)
      BY <2>2, Comes
    <3>2. PICK j : j = k - 1 - (m + 2)
      OBVIOUS
    <3>3. k - 1 \in 1 .. Len(s) /\ m + 2 <= k - 1
      BY <3>1, <1>0, NotEmpty
    <3>4. j \in 0 .. n - 1 /\ (k - 1) - (m + 2) = j
      BY <3>1, <3>2, <3>3, <1>0
    <3>5. j \in T
      BY <1>1, <3>4
    <3>6. Is(s, level, lo, k - 1)
      BY <3>1, <3>3, <3>4, <3>5
    <3> QED BY <3>1, <3>6, Joins
  <2> QED BY <2>1, <2>2
<1>2. \A n \in 0 .. Len(s) : n \in T
  <2> HIDE DEF T
  <2> QED BY <1>0, <1>1, FromSmaller
<1>3. hi \in 1 .. Len(s) /\ m + 2 \in 1 .. Len(s) /\ m + 2 <= hi
  BY <1>0, NotEmpty
<1>4. PICK n : n = hi - (m + 2)
  OBVIOUS
<1>5. n \in 0 .. Len(s) /\ hi - (m + 2) = n
  BY <1>0, <1>3, <1>4
<1>6. n \in T
  BY <1>2, <1>5
<1> QED BY <1>3, <1>5, <1>6

\* Every expression begins with one that has no binary operator.
LEMMA FirstUnary ==
  ASSUME NEW s, NEW level \in Nonterminals, NEW lo, NEW hi, Is(s, level, lo, hi)
  PROVE  \E m \in lo .. hi : Is(s, "unary", lo, m) /\ Rest(s, Ops(level), level, m, hi)
<1>0. Len(s) \in Nat /\ lo \in 1 .. Len(s) /\ hi \in 1 .. Len(s) /\ lo <= hi
  BY NotEmpty DEF Is, Piece
<1>1. CASE level = "unary"
  <2>1. hi \in lo .. hi
    BY <1>0
  <2> QED BY <1>1, <2>1 DEF Rest
<1>2. ASSUME NEW q \in 1 .. Len(s), Is(s, "factor", lo, q)
      PROVE  \E m \in lo .. q : /\ Is(s, "unary", lo, m)
                                /\ Rest(s, FactorOperators, "factor", m, q)
  BY <1>2, FirstOperand DEF BinaryLevels, Below, Own
<1>3. CASE level = "factor"
  BY <1>0, <1>2, <1>3 DEF Ops
<1>4. CASE level = "term"
  <2>1. PICK m \in lo .. hi : /\ Is(s, "factor", lo, m)
                              /\ Rest(s, TermOperators, "term", m, hi)
    BY <1>4, FirstOperand DEF BinaryLevels, Below, Own
  <2>2. m \in 1 .. Len(s)
    BY <1>0, <2>1
  <2>3. PICK k \in lo .. m : Is(s, "unary", lo, k) /\ Rest(s, FactorOperators, "factor", k, m)
    BY <1>2, <2>1, <2>2
  <2>4. k \in lo .. hi
    BY <1>0, <2>1
  <2>5. Rest(s, Ops("term"), "term", k, hi)
    <3>1. CASE k = m
      BY <2>1, <3>1 DEF Rest, Ops
    <3>2. CASE s[k + 1] \in FactorOperators /\ Is(s, "factor", k + 2, m)
      <4>1. Is(s, "term", k + 2, hi)
        <5>1. CASE m = hi
          BY <3>2, <5>1, Widens DEF BinaryLevels, Below
        <5>2. CASE s[m + 1] \in TermOperators /\ Is(s, "term", m + 2, hi)
          <6>1. "term" \in BinaryLevels /\ Below("term") = "factor" /\ Own("term") = TermOperators
            BY DEF BinaryLevels, Below, Own
          <6> QED BY <3>2, <5>2, <6>1, Prepends
        <5> QED BY <2>1, <5>1, <5>2 DEF Rest
      <4> QED BY <3>2, <4>1 DEF Rest, Ops
    <3> QED BY <2>3, <3>1, <3>2 DEF Rest
  <2> QED BY <1>4, <2>3, <2>4, <2>5
<1> QED BY <1>1, <1>3, <1>4 DEF Nonterminals
-----------------------------------------------------------------------------
(***************************************************************************)
(* An expression cannot end at two places unless it goes on with an        *)
(* operator behind the first: one without binary operators ends at one     *)
(* place only, and what begins like an expression of a level goes on with  *)
(* an operator of it.                                                      *)
(***************************************************************************)
UnaryEnds(s, lo) ==
  \A h, m \in 1 .. Len(s) : Is(s, "unary", lo, h) /\ Is(s, "unary", lo, m) => h = m

GoesOn(s, lo) ==
  \A m, hi \in 1 .. Len(s), level \in Nonterminals :
    m < hi /\ Is(s, "term", lo, m) /\ Is(s, level, lo, hi) =>
      s[m + 1] \in Ops(level) /\ Is(s, level, m + 2, hi)

\* The symbols of the grammar are different ones.
LEMMA SymbolsApart ==
  /\ \A x \in Literals : x \notin UnaryOperators /\ x # "(" /\ x # ")"
  /\ \A x \in UnaryOperators : x # "(" /\ x # ")"
  /\ \A x \in TermOperators : x \notin FactorOperators
  /\ \A level \in Nonterminals : ")" \notin Ops(level)
  /\ \A level \in Nonterminals : Ops(level) \subseteq Ops("term")
BY DEF Literals, UnaryOperators, TermOperators, FactorOperators, Ops, Nonterminals

\* What is known of the expressions further on gives the end of a unary one.
LEMMA UnaryEndsHere ==
  ASSUME NEW s, Len(s) \in Nat, NEW lo \in 1 .. Len(s),
         lo < Len(s) => UnaryEnds(s, lo + 1) /\ GoesOn(s, lo + 1)
  PROVE  UnaryEnds(s, lo)
<1> SUFFICES ASSUME NEW h \in 1 .. Len(s), NEW m \in 1 .. Len(s),
                    Is(s, "unary", lo, h), Is(s, "unary", lo, m)
             PROVE  h = m
  BY DEF UnaryEnds
<1> DEFINE Literal(q) == lo = q /\ s[lo] \in Literals
           Prefixed(q) == lo < q /\ s[lo] \in UnaryOperators /\ Is(s, "unary", lo + 1, q)
           Grouped(q) == lo < q /\ s[lo] = "(" /\ s[q] = ")" /\ Is(s, "term", lo + 1, q - 1)
<1>1. ASSUME NEW q \in 1 .. Len(s), Is(s, "unary", lo, q)
      PROVE  Literal(q) \/ Prefixed(q) \/ Grouped(q)
  <2>1. PICK tree : tree \in D(s, "unary", lo, q)
    BY <1>1 DEF Is
  <2>2. Piece(s, lo, q)
    BY <1>1 DEF Is
  <2>3. lo < q => Piece(s, lo + 1, q) /\ Piece(s, lo + 1, q - 1)
    BY DEF Piece
  <2> QED BY <2>1, <2>2, <2>3, UnaryRule DEF Is
<1>2. (Literal(h) \/ Prefixed(h) \/ Grouped(h)) /\ (Literal(m) \/ Prefixed(m) \/ Grouped(m))
  BY <1>1
<1>3. CASE Literal(h) /\ Literal(m)
  BY <1>3
<1>4. CASE Prefixed(h) /\ Prefixed(m)
  BY <1>4 DEF UnaryEnds
<1>5. CASE Grouped(h) /\ Grouped(m)
  <2>1. ASSUME NEW p \in 1 .. Len(s), NEW q \in 1 .. Len(s), p < q, Grouped(p), Grouped(q)
        PROVE  FALSE
    <3>1. PICK u \in Int, v \in Int : u = p - 1 /\ v = q - 1
      OBVIOUS
    <3>2. u \in 1 .. Len(s) /\ v \in 1 .. Len(s) /\ u < v /\ u + 1 = p /\ lo < Len(s)
      BY <2>1, <3>1
    <3>3. Is(s, "term", lo + 1, u) /\ Is(s, "term", lo + 1, v) /\ "term" \in Nonterminals
      BY <2>1, <3>1 DEF Nonterminals
    <3>4. s[u + 1] \in Ops("term")
      BY <3>2, <3>3 DEF GoesOn
    <3> QED BY <2>1, <3>2, <3>3, <3>4, SymbolsApart
  <2> HIDE DEF Grouped
  <2> QED BY <1>5, <2>1
<1> QED BY <1>2, <1>3, <1>4, <1>5, SymbolsApart

\* And how any other goes on.
LEMMA GoesOnHere ==
  ASSUME NEW s, Len(s) \in Nat, NEW lo \in 1 .. Len(s), UnaryEnds(s, lo),
         \A p \in lo + 1 .. Len(s) : GoesOn(s, p)
  PROVE  GoesOn(s, lo)
<1> SUFFICES ASSUME NEW m \in 1 .. Len(s), NEW hi \in 1 .. Len(s), NEW level \in Nonterminals,
                    m < hi, Is(s, "term", lo, m), Is(s, level, lo, hi)
             PROVE  s[m + 1] \in Ops(level) /\ Is(s, level, m + 2, hi)
  BY DEF GoesOn
<1>0. "term" \in Nonterminals
  BY DEF Nonterminals
<1>1. PICK k \in lo .. hi : Is(s, "unary", lo, k) /\ Rest(s, Ops(level), level, k, hi)
  BY FirstUnary
<1>2. PICK j \in lo .. m : Is(s, "unary", lo, j) /\ Rest(s, Ops("term"), "term", j, m)
  BY <1>0, FirstUnary
<1>3. j = k
  BY <1>1, <1>2 DEF UnaryEnds
<1>4. s[k + 1] \in Ops(level) /\ Is(s, level, k + 2, hi)
  BY <1>1, <1>2, <1>3 DEF Rest
<1>5. CASE j = m
  BY <1>3, <1>4, <1>5
<1>6. CASE Is(s, "term", k + 2, m)
  <2>1. k + 2 \in lo + 1 .. Len(s)
    BY <1>0, <1>6, NotEmpty
  <2> QED BY <1>4, <1>6, <2>1 DEF GoesOn
<1> QED BY <1>2, <1>3, <1>5, <1>6 DEF Rest

\* For all places, from the last one.
LEMMA EndsAndGoesOn ==
  ASSUME NEW s, Len(s) \in Nat
  PROVE  \A lo \in 1 .. Len(s) : UnaryEnds(s, lo) /\ GoesOn(s, lo)
<1> DEFINE L == Len(s)
           T == {n \in 0 .. L : \A lo \in 1 .. L : L - lo = n => UnaryEnds(s, lo) /\ GoesOn(s, lo)}
<1>1. ASSUME NEW n \in 0 .. L, \A j \in 0 .. n - 1 : j \in T PROVE n \in T
  <2> SUFFICES ASSUME NEW lo \in 1 .. L, L - lo = n PROVE UnaryEnds(s, lo) /\ GoesOn(s, lo)
    OBVIOUS
  <2>1. ASSUME NEW p \in lo + 1 .. L PROVE UnaryEnds(s, p) /\ GoesOn(s, p)
    <3>1. PICK j : j = L - p
      OBVIOUS
    <3>2. j \in 0 .. n - 1 /\ L - p = j /\ p \in 1 .. L
      BY <3>1
    <3>3. j \in T
      BY <1>1, <3>2
    <3> QED BY <3>2, <3>3
  <2>2. UnaryEnds(s, lo)
    <3>1. lo < Len(s) => lo + 1 \in lo + 1 .. L
      OBVIOUS
    <3> QED BY <2>1, <3>1, UnaryEndsHere
  <2> QED BY <2>1, <2>2, GoesOnHere
<1>2. \A n \in 0 .. L : n \in T
  <2> HIDE DEF T
  <2> QED BY <1>1, FromSmaller
<1> SUFFICES ASSUME NEW lo \in 1 .. L PROVE UnaryEnds(s, lo) /\ GoesOn(s, lo)
  OBVIOUS
<1>3. PICK n : n = L - lo
  OBVIOUS
<1>4. n \in 0 .. L /\ L - lo = n
  BY <1>3
<1>5. n \in T
  BY <1>2, <1>4
<1> QED BY <1>4, <1>5
-----------------------------------------------------------------------------
\* Every expression is one of the level of the sums.
LEMMA WidensToTerm ==
  ASSUME NEW s, NEW level \in Nonterminals, NEW lo, NEW hi, Is(s, level, lo, hi)
  PROVE  Is(s, "term", lo, hi)
<1>1. /\ "term" \in BinaryLevels /\ "factor" \in BinaryLevels
      /\ Below("term") = "factor" /\ Below("factor") = "unary"
  BY DEF BinaryLevels, Below
<1>2. CASE level = "unary"
  <2>1. Is(s, "factor", lo, hi)
    BY <1>1, <1>2, Widens
  <2> QED BY <1>1, <2>1, Widens
<1>3. CASE level = "factor"
  BY <1>1, <1>3, Widens
<1> QED BY <1>2, <1>3 DEF Nonterminals

\* A piece has at most one tree.
Unique(s, level, lo, hi) == \A a, b \in D(s, level, lo, hi) : a = b

(***************************************************************************)
(* The operator that splits an expression of a level is the last of the    *)
(* level: were there two ways, what is right of the first would go on with *)
(* an operator that binds less than it may.                                *)
(***************************************************************************)
LEMMA OneSplit ==
  ASSUME NEW s, NEW level \in BinaryLevels, NEW lo, NEW hi, Piece(s, lo, hi),
         NEW k \in lo + 1 .. hi - 1, s[k] \in Own(level),
         Is(s, level, lo, k - 1), Is(s, Below(level), k + 1, hi)
  PROVE  /\ ~ Is(s, Below(level), lo, hi)
         /\ \A m \in k + 1 .. hi - 1 : s[m] \in Own(level) => ~ Is(s, level, lo, m - 1)
<1>1. /\ level \in Nonterminals /\ Below(level) \in Nonterminals
      /\ \A x \in Own(level) : x \notin Ops(Below(level))
  BY DEF BinaryLevels, Nonterminals, Below, Own, Ops, TermOperators, FactorOperators
<1>2. Len(s) \in Nat /\ lo \in 1 .. Len(s) /\ hi \in 1 .. Len(s)
  BY DEF Piece
<1>3. ASSUME NEW p \in 1 .. Len(s), NEW q \in p .. hi - 1, NEW l \in Nonterminals,
             Is(s, l, p, q), NEW r \in Nonterminals, Is(s, r, p, hi)
      PROVE  s[q + 1] \in Ops(r) /\ Is(s, r, q + 2, hi)
  <2>1. Is(s, "term", p, q)
    BY <1>3, WidensToTerm
  <2>2. q \in 1 .. Len(s) /\ q < hi
    BY <1>2
  <2>3. GoesOn(s, p)
    BY <1>2, EndsAndGoesOn
  <2> QED BY <1>2, <1>3, <2>1, <2>2, <2>3 DEF GoesOn
<1>4. ASSUME Is(s, Below(level), lo, hi) PROVE FALSE
  <2>1. PICK q \in Int : q = k - 1
    OBVIOUS
  <2>2. q + 1 = k /\ q \in lo .. hi - 1
    BY <1>2, <2>1
  <2>3. s[q + 1] \in Ops(Below(level))
    BY <1>1, <1>2, <1>3, <1>4, <2>1, <2>2
  <2> QED BY <1>1, <2>2, <2>3
<1>5. ASSUME NEW m \in k + 1 .. hi - 1, s[m] \in Own(level), Is(s, level, lo, m - 1)
      PROVE  FALSE
  <2>1. PICK q \in Int, j \in Int : q = k - 1 /\ j = m - 1
    OBVIOUS
  <2>2. /\ q + 1 = k /\ q + 2 = k + 1 /\ j + 1 = m /\ q < j /\ j < hi
        /\ q \in 1 .. Len(s) /\ j \in 1 .. Len(s)
    BY <1>2, <2>1
  <2>3. Is(s, "term", lo, q) /\ Is(s, level, lo, j)
    BY <1>1, <1>5, <2>1, WidensToTerm
  <2>4. Is(s, level, q + 2, j)
    <3>1. GoesOn(s, lo)
      BY <1>2, EndsAndGoesOn
    <3> QED BY <1>1, <2>2, <2>3, <3>1 DEF GoesOn
  <2>5. k + 1 \in 1 .. Len(s) /\ j \in k + 1 .. hi - 1
    BY <1>1, <1>2, <2>2, <2>4, NotEmpty
  <2>6. Is(s, level, k + 1, j)
    BY <2>2, <2>4
  <2>7. s[j + 1] \in Ops(Below(level))
    BY <1>1, <1>3, <2>5, <2>6
  <2> QED BY <1>1, <1>5, <2>2, <2>7
<1> QED BY <1>4, <1>5

\* So a level with binary operators has one tree, if its parts have.
LEMMA UniqueBinary ==
  ASSUME NEW s, NEW level \in BinaryLevels, NEW lo, NEW hi, Piece(s, lo, hi),
         Unique(s, Below(level), lo, hi),
         \A k \in lo + 1 .. hi - 1 : /\ Unique(s, level, lo, k - 1)
                                     /\ Unique(s, Below(level), k + 1, hi)
  PROVE  Unique(s, level, lo, hi)
<1> SUFFICES ASSUME NEW a \in D(s, level, lo, hi), NEW b \in D(s, level, lo, hi) PROVE a = b
  BY DEF Unique
<1> DEFINE J(tree, k) == /\ k \in lo + 1 .. hi - 1 /\ s[k] \in Own(level)
                         /\ Is(s, level, lo, k - 1) /\ Is(s, Below(level), k + 1, hi)
                         /\ \E x \in D(s, level, lo, k - 1), y \in D(s, Below(level), k + 1, hi) :
                              tree = Binary(s[k], x, y)
<1>1. ASSUME NEW tree \in D(s, level, lo, hi)
      PROVE  tree \in D(s, Below(level), lo, hi) \/ \E k : J(tree, k)
  <2>1. CASE tree \in D(s, Below(level), lo, hi)
    BY <2>1
  <2>2. CASE Compound(s, level, lo, hi, tree)
    <3>1. PICK k \in lo + 1 .. hi - 1 :
            /\ s[k] \in Own(level)
            /\ \E x \in D(s, level, lo, k - 1), y \in D(s, Below(level), k + 1, hi) :
                 tree = Binary(s[k], x, y)
      BY <2>2 DEF Compound
    <3>2. Piece(s, lo, k - 1) /\ Piece(s, k + 1, hi)
      BY DEF Piece
    <3>3. J(tree, k)
      BY <3>1, <3>2 DEF Is
    <3> HIDE DEF J
    <3> QED BY <3>3
  <2> QED BY <2>1, <2>2, BinaryRule
<1>2. ASSUME NEW tree, NEW k, J(tree, k) PROVE ~ Is(s, Below(level), lo, hi)
  BY <1>2, OneSplit
<1>3. ASSUME NEW x, NEW y, NEW k, NEW m, J(x, k), J(y, m) PROVE ~ k < m
  <2> SUFFICES ASSUME k < m PROVE FALSE
    OBVIOUS
  <2>1. m \in k + 1 .. hi - 1
    BY <1>3 DEF Piece
  <2>2. s[m] \in Own(level) /\ Is(s, level, lo, m - 1)
    BY <1>3
  <2>3. \A q \in k + 1 .. hi - 1 : s[q] \in Own(level) => ~ Is(s, level, lo, q - 1)
    BY <1>3, OneSplit
  <2> HIDE DEF J
  <2> QED BY <2>1, <2>2, <2>3
<1>4. ASSUME NEW k, J(a, k), J(b, k) PROVE a = b
  <2>1. Unique(s, level, lo, k - 1) /\ Unique(s, Below(level), k + 1, hi)
    BY <1>4
  <2>2. PICK x1 \in D(s, level, lo, k - 1), y1 \in D(s, Below(level), k + 1, hi) :
          a = Binary(s[k], x1, y1)
    BY <1>4
  <2>3. PICK x2 \in D(s, level, lo, k - 1), y2 \in D(s, Below(level), k + 1, hi) :
          b = Binary(s[k], x2, y2)
    BY <1>4
  <2>4. x1 = x2 /\ y1 = y2
    BY <2>1 DEF Unique
  <2> QED BY <2>2, <2>3, <2>4
<1>5. CASE a \in D(s, Below(level), lo, hi) \/ b \in D(s, Below(level), lo, hi)
  <2>1. Is(s, Below(level), lo, hi)
    BY <1>5 DEF Is
  <2> HIDE DEF J
  <2>2. a \in D(s, Below(level), lo, hi) /\ b \in D(s, Below(level), lo, hi)
    BY <1>1, <1>2, <2>1
  <2> QED BY <2>2 DEF Unique
<1>6. ASSUME NEW k, NEW m, J(a, k), J(b, m) PROVE a = b
  <2>1. k \in Int /\ m \in Int
    BY <1>6
  <2> HIDE DEF J
  <2>2. ~ k < m /\ ~ m < k
    BY <1>3, <1>6
  <2>3. k = m
    BY <2>1, <2>2
  <2> QED BY <1>4, <1>6, <2>3
<1> HIDE DEF J
<1> QED BY <1>1, <1>5, <1>6

\* No sequence of tokens has two derivations.
LEMMA Unambiguous ==
  ASSUME NEW s, Len(s) \in Nat
  PROVE  \A a, b \in Derivations(s) : a = b
<1> DEFINE L == Len(s)
           T == {n \in 0 .. L : \A lo \in 1 .. L + 1, hi \in 0 .. L :
                   hi + 1 - lo <= n => \A level \in Nonterminals : Unique(s, level, lo, hi)}
<1>0. "unary" \in Nonterminals /\ "factor" \in Nonterminals /\ "term" \in Nonterminals
  BY DEF Nonterminals
<1>1. 0 \in T
  <2>1. ASSUME NEW lo \in 1 .. L + 1, NEW hi \in 0 .. L, hi + 1 - lo <= 0,
               NEW level \in Nonterminals
        PROVE  Unique(s, level, lo, hi)
    <3>1. ~ Is(s, level, lo, hi)
      BY <2>1, NotEmpty
    <3> QED BY <3>1 DEF Is, Unique, Piece
  <2> QED BY <2>1
<1>2. ASSUME NEW n \in 0 .. L - 1, n \in T PROVE n + 1 \in T
  <2> SUFFICES ASSUME NEW lo \in 1 .. L + 1, NEW hi \in 0 .. L, hi + 1 - lo <= n + 1
               PROVE  \A level \in Nonterminals : Unique(s, level, lo, hi)
    OBVIOUS
  <2>0. Piece(s, lo, hi)
    BY DEF Piece
  <2>1. ASSUME NEW p \in 1 .. L + 1, NEW q \in 0 .. L, q + 1 - p <= n, NEW l \in Nonterminals
        PROVE  Unique(s, l, p, q)
    BY <1>2, <2>1
  <2> HIDE DEF T
  <2>2. Unique(s, "unary", lo, hi)
    <3> SUFFICES ASSUME NEW a \in D(s, "unary", lo, hi), NEW b \in D(s, "unary", lo, hi)
                 PROVE  a = b
      BY DEF Unique
    <3>1. lo < hi => Unique(s, "unary", lo + 1, hi) /\ Unique(s, "term", lo + 1, hi - 1)
      BY <1>0, <2>1
    <3> DEFINE R(tree) ==
                 \/ lo = hi /\ s[lo] \in Literals /\ tree = Leaf(s[lo], lo)
                 \/ /\ lo < hi /\ s[lo] \in UnaryOperators
                    /\ \E c \in D(s, "unary", lo + 1, hi) : tree = Unary(s[lo], c)
                 \/ /\ lo < hi /\ s[lo] = "(" /\ s[hi] = ")"
                    /\ \E c \in D(s, "term", lo + 1, hi - 1) : tree = Grouping(c)
    <3>2. R(a) /\ R(b)
      BY <2>0, UnaryRule
    <3> QED BY <3>1, <3>2, SymbolsApart DEF Unique
  <2>3. ASSUME NEW level \in BinaryLevels, Unique(s, Below(level), lo, hi)
        PROVE  Unique(s, level, lo, hi)
    <3>1. level \in Nonterminals /\ Below(level) \in Nonterminals
      BY DEF BinaryLevels, Nonterminals, Below
    <3>2. ASSUME NEW k \in lo + 1 .. hi - 1
          PROVE  Unique(s, level, lo, k - 1) /\ Unique(s, Below(level), k + 1, hi)
      <4>1. /\ k - 1 \in 0 .. L /\ (k - 1) + 1 - lo <= n
            /\ k + 1 \in 1 .. L + 1 /\ hi + 1 - (k + 1) <= n
        OBVIOUS
      <4> QED BY <2>1, <3>1, <4>1
    <3> QED BY <2>0, <2>3, <3>2, UniqueBinary
  <2>4. Unique(s, "factor", lo, hi)
    BY <2>2, <2>3 DEF BinaryLevels, Below
  <2>5. Unique(s, "term", lo, hi)
    BY <2>3, <2>4 DEF BinaryLevels, Below
  <2> QED BY <2>2, <2>4, <2>5 DEF Nonterminals
<1>3. \A n \in 0 .. L : n \in T
  <2> HIDE DEF T
  <2> QED BY <1>1, <1>2, UpTo
<1>4. L \in T
  BY <1>3
<1>5. 1 \in 1 .. L + 1 /\ L \in 0 .. L /\ L + 1 - 1 <= L
  OBVIOUS
<1>6. Unique(s, "term", 1, L)
  BY <1>0, <1>4, <1>5
<1> QED BY <1>6, DerivationsAre DEF Unique
-----------------------------------------------------------------------------
Terminals == Literals \cup TermOperators \cup FactorOperators \cup {"(", ")"}

\* A token of an expression is one of the grammar; in particular it is none
\* that the lexer reports an error with.
Clean(s, lo, hi) == \A i \in lo .. hi : s[i] \in Terminals

\* So is a compound one, if its operands are.
LEMMA BinaryClean ==
  ASSUME NEW s, NEW level \in BinaryLevels, NEW lo, NEW hi, Is(s, level, lo, hi),
         Is(s, Below(level), lo, hi) => Clean(s, lo, hi),
         \A k \in lo + 1 .. hi - 1 :
           /\ Is(s, level, lo, k - 1) => Clean(s, lo, k - 1)
           /\ Is(s, Below(level), k + 1, hi) => Clean(s, k + 1, hi)
  PROVE  Clean(s, lo, hi)
<1>1. CASE Is(s, Below(level), lo, hi)
  BY <1>1
<1>2. CASE ~ Is(s, Below(level), lo, hi)
  <2>1. PICK k \in lo + 1 .. hi - 1 : /\ Is(s, level, lo, k - 1) /\ s[k] \in Own(level)
                                      /\ Is(s, Below(level), k + 1, hi)
    BY <1>2, Comes
  <2>2. Clean(s, lo, k - 1) /\ Clean(s, k + 1, hi)
    BY <2>1
  <2>3. s[k] \in Terminals
    BY <2>1 DEF Own, Terminals
  <2>4. lo \in Int /\ hi \in Int
    BY DEF Is, Piece
  <2> SUFFICES ASSUME NEW i \in lo .. hi PROVE s[i] \in Terminals
    BY DEF Clean
  <2>5. i \in lo .. k - 1 \/ i = k \/ i \in k + 1 .. hi
    BY <2>4
  <2> QED BY <2>2, <2>3, <2>5 DEF Clean
<1> QED BY <1>1, <1>2

\* So is every one.
LEMMA OnlyTerminals ==
  ASSUME NEW s, Len(s) \in Nat
  PROVE  \A lo \in 1 .. Len(s) + 1, hi \in 0 .. Len(s) : \A level \in Nonterminals :
           Is(s, level, lo, hi) => Clean(s, lo, hi)
<1> DEFINE L == Len(s)
           T == {n \in 0 .. L : \A lo \in 1 .. L + 1, hi \in 0 .. L :
                   hi + 1 - lo <= n =>
                     \A level \in Nonterminals : Is(s, level, lo, hi) => Clean(s, lo, hi)}
<1>0. "unary" \in Nonterminals /\ "factor" \in Nonterminals /\ "term" \in Nonterminals
  BY DEF Nonterminals
<1>1. 0 \in T
  <2>1. ASSUME NEW lo \in 1 .. L + 1, NEW hi \in 0 .. L, hi + 1 - lo <= 0
        PROVE  \A level \in Nonterminals : ~ Is(s, level, lo, hi)
    BY <2>1, NotEmpty
  <2> QED BY <2>1
<1>2. ASSUME NEW n \in 0 .. L - 1, n \in T PROVE n + 1 \in T
  <2> SUFFICES ASSUME NEW lo \in 1 .. L + 1, NEW hi \in 0 .. L, hi + 1 - lo <= n + 1
               PROVE  \A level \in Nonterminals : Is(s, level, lo, hi) => Clean(s, lo, hi)
    OBVIOUS
  <2>0. Piece(s, lo, hi)
    BY DEF Piece
  <2>1. ASSUME NEW p \in 1 .. L + 1, NEW q \in 0 .. L, q + 1 - p <= n, NEW l \in Nonterminals
        PROVE  Is(s, l, p, q) => Clean(s, p, q)
    BY <1>2, <2>1
  <2> HIDE DEF T
  <2>2. ASSUME Is(s, "unary", lo, hi) PROVE Clean(s, lo, hi)
    <3>1. lo < hi => /\ Is(s, "unary", lo + 1, hi) => Clean(s, lo + 1, hi)
                     /\ Is(s, "term", lo + 1, hi - 1) => Clean(s, lo + 1, hi - 1)
      BY <1>0, <2>1
    <3>2. PICK tree : tree \in D(s, "unary", lo, hi)
      BY <2>2 DEF Is
    <3>3. lo < hi => Piece(s, lo + 1, hi) /\ Piece(s, lo + 1, hi - 1)
      BY DEF Piece
    <3>4. \/ lo = hi /\ s[lo] \in Literals
          \/ lo < hi /\ s[lo] \in UnaryOperators /\ Clean(s, lo + 1, hi)
          \/ lo < hi /\ s[lo] = "(" /\ s[hi] = ")" /\ Clean(s, lo + 1, hi - 1)
      BY <2>0, <3>1, <3>2, <3>3, UnaryRule DEF Is
    <3>5. s[lo] \in Terminals /\ (lo < hi /\ s[hi] = ")" => s[hi] \in Terminals)
      BY <3>4 DEF Terminals, TermOperators, UnaryOperators
    <3> SUFFICES ASSUME NEW i \in lo .. hi PROVE s[i] \in Terminals
      BY DEF Clean
    <3>6. i = lo \/ i = hi \/ (i \in lo + 1 .. hi - 1 /\ i \in lo + 1 .. hi)
      OBVIOUS
    <3>7. i = lo \/ i \in lo + 1 .. hi
      OBVIOUS
    <3> QED BY <3>4, <3>5, <3>6, <3>7 DEF Clean
  <2>3. ASSUME NEW level \in BinaryLevels, Is(s, Below(level), lo, hi) => Clean(s, lo, hi),
               Is(s, level, lo, hi)
        PROVE  Clean(s, lo, hi)
    <3>1. level \in Nonterminals /\ Below(level) \in Nonterminals
      BY DEF BinaryLevels, Nonterminals, Below
    <3>2. ASSUME NEW k \in lo + 1 .. hi - 1
          PROVE  /\ Is(s, level, lo, k - 1) => Clean(s, lo, k - 1)
                 /\ Is(s, Below(level), k + 1, hi) => Clean(s, k + 1, hi)
      <4>1. /\ k - 1 \in 0 .. L /\ (k - 1) + 1 - lo <= n
            /\ k + 1 \in 1 .. L + 1 /\ hi + 1 - (k + 1) <= n
        OBVIOUS
      <4> QED BY <2>1, <3>1, <4>1
    <3> QED BY <2>3, <3>2, BinaryClean
  <2>4. Is(s, "factor", lo, hi) => Clean(s, lo, hi)
    BY <2>2, <2>3 DEF BinaryLevels, Below
  <2>5. Is(s, "term", lo, hi) => Clean(s, lo, hi)
    BY <2>3, <2>4 DEF BinaryLevels, Below
  <2> QED BY <2>2, <2>4, <2>5 DEF Nonterminals
<1>3. \A n \in 0 .. L : n \in T
  <2> HIDE DEF T
  <2> QED BY <1>1, <1>2, UpTo
<1>4. L \in T
  BY <1>3
<1> QED BY <1>4

-----------------------------------------------------------------------------
(***************************************************************************)
(* Reading an expression from the left.  At is the token that the parser   *)
(* finds at a position.                                                    *)
(***************************************************************************)
At(s, i) == IF i <= Len(s) THEN s[i] ELSE "EOF"

LevelOf(operator) == IF operator \in TermOperators THEN "term" ELSE "factor"

\* How an expression without a binary operator begins.
LEMMA UnaryBegins ==
  ASSUME NEW s, NEW lo, NEW m, Is(s, "unary", lo, m)
  PROVE  \/ s[lo] \in Literals /\ m = lo
         \/ s[lo] \in UnaryOperators /\ Is(s, "unary", lo + 1, m)
         \/ s[lo] = "(" /\ s[m] = ")" /\ Is(s, "term", lo + 1, m - 1)
<1>1. PICK tree : tree \in D(s, "unary", lo, m)
  BY DEF Is
<1>2. Piece(s, lo, m)
  BY DEF Is
<1>3. lo < m => Piece(s, lo + 1, m) /\ Piece(s, lo + 1, m - 1)
  BY <1>2 DEF Piece
<1> QED BY <1>1, <1>2, <1>3, UnaryRule DEF Is

\* What an expression begins with has a rule as a prefix, and what is behind
\* the operand that the rule parses is the rest of the expression.
LEMMA Begins ==
  ASSUME NEW s, NEW level \in Nonterminals, NEW p, NEW hi, Is(s, level, p, hi)
  PROVE  /\ p \in 1 .. Len(s) /\ Len(s) \in Nat /\ hi \in 1 .. Len(s)
         /\ s[p] \in Literals \cup UnaryOperators \cup {"("}
         /\ s[p] \in Literals => Rest(s, Ops(level), level, p, hi)
         /\ s[p] \in UnaryOperators =>
              \E m \in p .. hi : /\ Is(s, "unary", p + 1, m)
                                 /\ Rest(s, Ops(level), level, m, hi)
         /\ s[p] = "(" =>
              \E m \in p .. hi : /\ s[m] = ")" /\ Is(s, "term", p + 1, m - 1)
                                 /\ Rest(s, Ops(level), level, m, hi)
<1>1. PICK m \in p .. hi : Is(s, "unary", p, m) /\ Rest(s, Ops(level), level, m, hi)
  BY FirstUnary
<1>2. \/ s[p] \in Literals /\ m = p
      \/ s[p] \in UnaryOperators /\ Is(s, "unary", p + 1, m)
      \/ s[p] = "(" /\ s[m] = ")" /\ Is(s, "term", p + 1, m - 1)
  BY <1>1, UnaryBegins
<1>3. p \in 1 .. Len(s) /\ Len(s) \in Nat /\ hi \in 1 .. Len(s)
  BY NotEmpty DEF Is, Piece
<1>4. CASE s[p] \in Literals
  BY <1>1, <1>2, <1>3, <1>4, SymbolsApart
<1>5. CASE s[p] \in UnaryOperators
  BY <1>1, <1>2, <1>3, <1>5, SymbolsApart
<1>6. CASE s[p] = "("
  BY <1>1, <1>2, <1>3, <1>6, SymbolsApart
<1> QED BY <1>2, <1>4, <1>5, <1>6

\* What the second operand of an operator is, and what is behind it.
LEMMA SecondOperand ==
  ASSUME NEW s, NEW level \in Nonterminals, NEW p, NEW hi, Is(s, level, p, hi),
         At(s, hi + 1) \notin Ops(level), NEW operator \in Ops(level)
  PROVE  \E m \in p .. hi : /\ Is(s, Below(LevelOf(operator)), p, m)
                            /\ At(s, m + 1) \notin Ops(Below(LevelOf(operator)))
                            /\ Rest(s, Ops(level), level, m, hi)
<1>0. p \in 1 .. Len(s) /\ Len(s) \in Nat /\ hi \in 1 .. Len(s) /\ p <= hi
  BY NotEmpty DEF Is, Piece
<1>1. CASE operator \in TermOperators
  <2>1. level = "term"
    BY <1>1, SymbolsApart DEF Nonterminals, Ops
  <2>2. level \in BinaryLevels /\ Below(LevelOf(operator)) = Below(level)
    BY <1>1, <2>1 DEF BinaryLevels, LevelOf
  <2>3. PICK m \in p .. hi : Is(s, Below(level), p, m) /\ Rest(s, Own(level), level, m, hi)
    BY <2>2, FirstOperand
  <2>4. Own(level) = TermOperators /\ TermOperators \subseteq Ops(level)
        /\ Ops(Below(level)) = FactorOperators /\ FactorOperators \subseteq Ops(level)
    BY <2>1 DEF Own, Ops, Below
  <2>5. Rest(s, Ops(level), level, m, hi)
    BY <2>3, <2>4 DEF Rest
  <2>6. At(s, m + 1) \notin FactorOperators
    <3>1. CASE m = hi
      BY <2>4, <3>1
    <3>2. CASE s[m + 1] \in TermOperators /\ Is(s, level, m + 2, hi)
      <4>1. m + 2 \in 1 .. Len(s)
        BY <3>2, NotEmpty
      <4>2. At(s, m + 1) = s[m + 1]
        BY <1>0, <4>1 DEF At
      <4> QED BY <3>2, <4>2, SymbolsApart
    <3> QED BY <2>3, <2>4, <3>1, <3>2 DEF Rest
  <2> QED BY <2>2, <2>3, <2>4, <2>5, <2>6
<1>2. CASE operator \notin TermOperators
  <2>1. Below(LevelOf(operator)) = "unary" /\ Ops("unary") = {}
    BY <1>2 DEF LevelOf, Below, Ops
  <2>2. PICK m \in p .. hi : Is(s, "unary", p, m) /\ Rest(s, Ops(level), level, m, hi)
    BY FirstUnary
  <2> QED BY <2>1, <2>2
<1> QED BY <1>1, <1>2
-----------------------------------------------------------------------------
\* That a tree is one of a piece, as an expression of a level.
Yields(s, level, lo, hi, tree) == Piece(s, lo, hi) /\ tree \in D(s, level, lo, hi)

\* So it is as an expression of any level that may contain more operators.
LEMMA Widened ==
  ASSUME NEW s, NEW l \in Nonterminals, NEW level \in Nonterminals,
         Ops(l) \subseteq Ops(level), NEW lo, NEW hi, NEW tree, Yields(s, l, lo, hi, tree)
  PROVE  Yields(s, level, lo, hi, tree)
<1>1. Piece(s, lo, hi)
  BY DEF Yields
<1>2. \A b \in BinaryLevels : tree \in D(s, Below(b), lo, hi) => tree \in D(s, b, lo, hi)
  BY <1>1, BinaryRule
<1>3. /\ tree \in D(s, "unary", lo, hi) => tree \in D(s, "factor", lo, hi)
      /\ tree \in D(s, "factor", lo, hi) => tree \in D(s, "term", lo, hi)
  <2>1. /\ "factor" \in BinaryLevels /\ Below("factor") = "unary"
        /\ "term" \in BinaryLevels /\ Below("term") = "factor"
    BY DEF BinaryLevels, Below
  <2> QED BY <1>2, <2>1
<1>4. /\ l = level \/ l = "unary" \/ (l = "factor" /\ level = "term")
  <2>1. "+" \in Ops("term") /\ "+" \notin Ops("factor") /\ "+" \notin Ops("unary")
        /\ "*" \in Ops("factor") /\ "*" \notin Ops("unary")
    BY DEF Ops, TermOperators, FactorOperators
  <2> QED BY <2>1 DEF Nonterminals
<1> QED BY <1>1, <1>3, <1>4 DEF Yields, Nonterminals

\* The trees that the parse rules build.
LEMMA Built ==
  ASSUME NEW s
  PROVE  /\ \A p : Piece(s, p, p) /\ s[p] \in Literals => Yields(s, "unary", p, p, Leaf(s[p], p))
         /\ \A lo, hi, t : /\ lo \in 1 .. Len(s) /\ s[lo] \in UnaryOperators
                           /\ Yields(s, "unary", lo + 1, hi, t)
                           => Yields(s, "unary", lo, hi, Unary(s[lo], t))
         /\ \A lo, hi, t : /\ lo \in 1 .. Len(s) /\ hi \in 1 .. Len(s)
                           /\ s[lo] = "(" /\ s[hi] = ")"
                           /\ Yields(s, "term", lo + 1, hi - 1, t)
                           => Yields(s, "unary", lo, hi, Grouping(t))
<1>1. ASSUME NEW p, Piece(s, p, p), s[p] \in Literals
      PROVE  Yields(s, "unary", p, p, Leaf(s[p], p))
  BY <1>1, UnaryRule DEF Yields
<1>2. ASSUME NEW lo \in 1 .. Len(s), NEW hi, NEW t, s[lo] \in UnaryOperators,
             Yields(s, "unary", lo + 1, hi, t)
      PROVE  Yields(s, "unary", lo, hi, Unary(s[lo], t))
  <2>1. Is(s, "unary", lo + 1, hi) /\ "unary" \in Nonterminals
    BY <1>2 DEF Is, Yields, Nonterminals
  <2>2. lo + 1 <= hi
    BY <2>1, NotEmpty
  <2>3. Piece(s, lo, hi) /\ lo < hi
    BY <2>1, <2>2 DEF Is, Piece
  <2> QED BY <1>2, <2>3, UnaryRule DEF Yields
<1>3. ASSUME NEW lo \in 1 .. Len(s), NEW hi \in 1 .. Len(s), NEW t, s[lo] = "(", s[hi] = ")",
             Yields(s, "term", lo + 1, hi - 1, t)
      PROVE  Yields(s, "unary", lo, hi, Grouping(t))
  <2>1. Is(s, "term", lo + 1, hi - 1) /\ "term" \in Nonterminals
    BY <1>3 DEF Is, Yields, Nonterminals
  <2>2. lo + 1 <= hi - 1
    BY <2>1, NotEmpty
  <2>3. Piece(s, lo, hi) /\ lo < hi
    BY <2>1, <2>2 DEF Is, Piece
  <2> QED BY <1>3, <2>3, UnaryRule DEF Yields
<1> QED BY <1>1, <1>2, <1>3

\* And that of a binary operator at position k.
LEMMA BuiltBinary ==
  ASSUME NEW s, NEW lo, NEW k \in Int, NEW hi, NEW a, NEW b,
         s[k] \in TermOperators \cup FactorOperators,
         Yields(s, LevelOf(s[k]), lo, k - 1, a),
         Yields(s, Below(LevelOf(s[k])), k + 1, hi, b)
  PROVE  Yields(s, LevelOf(s[k]), lo, hi, Binary(s[k], a, b))
<1> DEFINE level == LevelOf(s[k])
<1>0. level \in BinaryLevels /\ level \in Nonterminals /\ Below(level) \in Nonterminals
      /\ s[k] \in Own(level)
  BY DEF LevelOf, BinaryLevels, Nonterminals, Below, Own
<1> HIDE DEF level
<1>1. Is(s, level, lo, k - 1) /\ Is(s, Below(level), k + 1, hi)
  BY DEF Is, Yields, level
<1>2. /\ lo \in 1 .. Len(s) /\ lo <= k - 1 /\ k + 1 <= hi /\ hi \in 1 .. Len(s)
      /\ Len(s) \in Nat
  BY <1>0, <1>1, NotEmpty DEF Is, Piece
<1>3. k \in lo + 1 .. hi - 1 /\ Piece(s, lo, hi)
  BY <1>2 DEF Piece
<1>4. Compound(s, level, lo, hi, Binary(s[k], a, b))
  BY <1>0, <1>3 DEF Compound, Yields, level
<1>5. Binary(s[k], a, b) \in D(s, level, lo, hi)
  BY <1>0, <1>3, <1>4, BinaryRule
<1> QED BY <1>3, <1>5 DEF Yields, level

-----------------------------------------------------------------------------
(***************************************************************************)
(* The calls in progress and the grammar.  A call of                       *)
(* compiler_parse_precedence parses an expression of a level, and the      *)
(* others an operand of a level.                                           *)
(***************************************************************************)
Level(min) ==
  IF min <= PREC_TERM THEN "term" ELSE IF min <= PREC_FACTOR THEN "factor" ELSE "unary"

Operand(call) ==
  CASE call.fn = "grouping" -> "term"
    [] call.fn = "unary"    -> "unary"
    [] OTHER                -> Below(LevelOf(call.operator))

\* A call makes another.
Nested(call, next) ==
  IF call.fn = "precedence"
  THEN /\ next.fn # "precedence"
       /\ next.fn = "binary" => next.operator \in Ops(Level(call.min))
  ELSE next.fn = "precedence" /\ Level(next.min) = Operand(call)

Nests(calls) ==
  /\ Len(calls) \in Nat \ {0}
  /\ calls[1].fn = "precedence" /\ calls[1].min = PREC_ASSIGNMENT
  /\ \A i \in 1 .. Len(calls) :
       /\ calls[i].fn \in {"precedence", "grouping", "unary", "binary"}
       /\ calls[i].fn = "precedence" => calls[i].min \in {PREC_ASSIGNMENT, PREC_FACTOR, PREC_UNARY}
       /\ calls[i].value = Pending /\ i = Len(calls) => calls[i].fn = "precedence"
  /\ \A i \in 1 .. Len(calls) - 1 : Nested(calls[i], calls[i + 1])

(***************************************************************************)
(* Where the calls began, f being the trees of the nodes: an operand that  *)
(* a call was given or has got is a tree of the tokens read since then,    *)
(* and p is the position of the token under consideration.                 *)
(***************************************************************************)
Entered(s, f, call, next, lo, lo2) ==
  IF call.fn = "precedence"
  THEN /\ At(s, lo2) = next.operator
       /\ IF next.fn = "binary"
          THEN Yields(s, LevelOf(next.operator), lo, lo2 - 1, f[next.first])
          ELSE lo2 = lo /\ Prefix(next.operator) = next.fn
  ELSE lo2 = lo + 1

Reached(s, f, call, lo, p) ==
  IF call.value = Pending THEN lo = p
  ELSE IF call.fn = "precedence"
  THEN \E l \in Nonterminals :
         /\ Ops(l) \subseteq Ops(Level(call.min))
         /\ Yields(s, l, lo, p - 1, f[call.value])
         /\ l = "term" => At(s, p) \notin FactorOperators
  ELSE /\ Yields(s, Operand(call), lo + 1, p - 1, f[call.value])
       /\ At(s, p) \notin Ops(Operand(call))

Sound(calls, s, f, lo, p) ==
  /\ lo[1] = 1 /\ \A i \in 1 .. Len(calls) : lo[i] \in 1 .. p
  /\ \A i \in 1 .. Len(calls) - 1 : Entered(s, f, calls[i], calls[i + 1], lo[i], lo[i + 1])
  /\ Reached(s, f, calls[Len(calls)], lo[Len(calls)], p)

(***************************************************************************)
(* Where the calls are to end, if the source is an expression: what a call *)
(* has still to read makes what it has read so far one of its level, and   *)
(* the token behind it is not one of its operators.                        *)
(***************************************************************************)
Closes(s, call, next, hi, hi2) ==
  CASE call.fn = "precedence" -> Rest(s, Ops(Level(call.min)), Level(call.min), hi2, hi)
    [] call.fn = "grouping"   -> hi = hi2 + 1 /\ At(s, hi) = ")"
    [] OTHER                  -> hi = hi2

Awaits(s, call, p, hi) ==
  CASE call.fn = "precedence" /\ call.value = Pending -> Is(s, Level(call.min), p, hi)
    [] call.fn = "precedence" /\ call.value # Pending ->
         Rest(s, Ops(Level(call.min)), Level(call.min), p - 1, hi)
    [] call.fn = "grouping" -> hi = p /\ At(s, hi) = ")"
    [] OTHER -> hi = p - 1

Bounded(s, call, hi) ==
  /\ hi \in 0 .. Len(s)
  /\ call.fn = "precedence" => At(s, hi + 1) \notin Ops(Level(call.min))

Fits(calls, s, hi, p) ==
  /\ hi[1] = Len(s) /\ \A i \in 1 .. Len(calls) : Bounded(s, calls[i], hi[i])
  /\ \A i \in 1 .. Len(calls) - 1 : Closes(s, calls[i], calls[i + 1], hi[i], hi[i + 1])
  /\ Awaits(s, calls[Len(calls)], p, hi[Len(calls)])
-----------------------------------------------------------------------------
\* Calls that differ in the value they have got.
Like(call, call2) ==
  /\ call2.fn = call.fn /\ call2.operator = call.operator
  /\ call2.min = call.min /\ call2.first = call.first

\* What does not depend on the values of two calls.
LEMMA LikeCalls ==
  ASSUME NEW a, NEW a2, Like(a, a2), NEW b, NEW b2, Like(b, b2)
  PROVE  /\ Nested(a, b) => Nested(a2, b2)
         /\ \A s, f, lo, lo2 : Entered(s, f, a, b, lo, lo2) => Entered(s, f, a2, b2, lo, lo2)
         /\ \A s, hi, hi2 : Closes(s, a, b, hi, hi2) => Closes(s, a2, b2, hi, hi2)
         /\ \A s, hi : Bounded(s, a, hi) => Bounded(s, a2, hi)
<1>1. /\ a2.fn = a.fn /\ a2.operator = a.operator /\ a2.min = a.min /\ a2.first = a.first
      /\ b2.fn = b.fn /\ b2.operator = b.operator /\ b2.min = b.min /\ b2.first = b.first
  BY DEF Like
<1>2. Operand(a2) = Operand(a)
  BY <1>1 DEF Operand
<1>3. Nested(a, b) => Nested(a2, b2)
  BY <1>1, <1>2 DEF Nested
<1>4. \A s, f, lo, lo2 : Entered(s, f, a, b, lo, lo2) => Entered(s, f, a2, b2, lo, lo2)
  BY <1>1 DEF Entered
<1>5. \A s, hi, hi2 : Closes(s, a, b, hi, hi2) => Closes(s, a2, b2, hi, hi2)
  BY <1>1 DEF Closes
<1>6. \A s, hi : Bounded(s, a, hi) => Bounded(s, a2, hi)
  BY <1>1 DEF Bounded
<1> QED BY <1>3, <1>4, <1>5, <1>6

\* The innermost of the calls, or its caller when it has returned, gets a
\* value.
Resumed(calls, calls2, node) ==
  /\ Len(calls) \in Nat /\ Len(calls2) \in 1 .. Len(calls)
  /\ \A i \in 1 .. Len(calls2) : Like(calls[i], calls2[i])
  /\ calls2[Len(calls2)].value = node

\* Two calls more.
Extended(calls, calls2, a, b) ==
  /\ Len(calls) \in Nat \ {0} /\ Len(calls2) = Len(calls) + 2
  /\ \A i \in 1 .. Len(calls) : Like(calls[i], calls2[i])
  /\ calls2[Len(calls) + 1] = a /\ calls2[Len(calls) + 2] = b

\* Calls nest when some have returned, or two more are made.
LEMMA NestsResumed ==
  ASSUME NEW calls, NEW calls2, NEW node, Nests(calls), Resumed(calls, calls2, node),
         node # Pending
  PROVE  Nests(calls2)
<1> DEFINE n == Len(calls2)
<1>1. /\ Len(calls) \in Nat /\ n \in 1 .. Len(calls) /\ 1 \in 1 .. n
      /\ \A i \in 1 .. n : i \in 1 .. Len(calls) /\ Like(calls[i], calls2[i])
      /\ calls2[n].value # Pending
  BY DEF Resumed
<1> HIDE DEF n
<1>2. \A i \in 1 .. n - 1 : i \in 1 .. Len(calls) - 1 /\ i \in 1 .. n /\ i + 1 \in 1 .. n
  BY <1>1
<1>3. \A i \in 1 .. n - 1 : Nested(calls2[i], calls2[i + 1])
  <2> TAKE i \in 1 .. n - 1
  <2>1. Nested(calls[i], calls[i + 1]) /\ Like(calls[i], calls2[i])
        /\ Like(calls[i + 1], calls2[i + 1])
    BY <1>1, <1>2 DEF Nests
  <2> QED BY <2>1, LikeCalls
<1>4. \A i \in 1 .. n : calls2[i].fn = calls[i].fn /\ calls2[i].min = calls[i].min
  BY <1>1 DEF Like
<1>5. n \in Nat \ {0}
  BY <1>1
<1> QED BY <1>1, <1>3, <1>4, <1>5 DEF Nests, n

\* ... or two more are made.
LEMMA NestsExtended ==
  ASSUME NEW calls, NEW calls2, NEW a, NEW b, Nests(calls), Extended(calls, calls2, a, b),
         calls[Len(calls)].fn = "precedence",
         Nested(calls[Len(calls)], a), Nested(a, b), a.fn \in {"grouping", "unary", "binary"},
         b.min \in {PREC_ASSIGNMENT, PREC_FACTOR, PREC_UNARY}
  PROVE  Nests(calls2)
<1> DEFINE n == Len(calls)
<1>1. /\ n \in Nat \ {0} /\ Len(calls2) = n + 2 /\ 1 \in 1 .. n /\ n \in 1 .. n
      /\ \A i \in 1 .. n : Like(calls[i], calls2[i])
      /\ calls2[n + 1] = a /\ calls2[n + 2] = b
  BY DEF Extended
<1>0. calls[n].fn = "precedence" /\ Nested(calls[n], a) /\ b.fn = "precedence"
  BY DEF Nested
<1>6. \A i \in 1 .. n : Like(calls[i], calls2[i]) /\ calls2[i].fn = calls[i].fn
                        /\ calls2[i].min = calls[i].min
  BY <1>1 DEF Like
<1>2. \A i \in 1 .. n - 1 : Nested(calls[i], calls[i + 1])
  BY DEF Nests
<1>7. \A i \in 1 .. n : /\ calls[i].fn \in {"precedence", "grouping", "unary", "binary"}
                        /\ calls[i].fn = "precedence" =>
                             calls[i].min \in {PREC_ASSIGNMENT, PREC_FACTOR, PREC_UNARY}
  BY DEF Nests
<1>8. calls[1].fn = "precedence" /\ calls[1].min = PREC_ASSIGNMENT
  BY DEF Nests
<1> HIDE DEF n
<1>3. \A i \in 1 .. (n + 2) - 1 : Nested(calls2[i], calls2[i + 1])
  <2> TAKE i \in 1 .. (n + 2) - 1
  <2>1. CASE i \in 1 .. n - 1
    <3>1. i \in 1 .. n /\ i + 1 \in 1 .. n
      BY <1>1, <2>1
    <3> QED BY <1>1, <1>2, <2>1, <3>1, LikeCalls
  <2>2. CASE i = n
    <3>1. Like(a, a)
      BY DEF Like
    <3>2. Nested(calls2[n], a)
      BY <1>0, <1>1, <3>1, LikeCalls
    <3> QED BY <1>1, <2>2, <3>2
  <2>3. CASE i = n + 1
    <3>1. i + 1 = n + 2
      BY <1>1, <2>3
    <3> QED BY <1>1, <2>3, <3>1
  <2> QED BY <1>1, <2>1, <2>2, <2>3
<1>4. \A i \in 1 .. n + 2 :
        /\ calls2[i].fn \in {"precedence", "grouping", "unary", "binary"}
        /\ calls2[i].fn = "precedence" =>
             calls2[i].min \in {PREC_ASSIGNMENT, PREC_FACTOR, PREC_UNARY}
  <2>1. \A i \in 1 .. n + 2 : i \in 1 .. n \/ i = n + 1 \/ i = n + 2
    BY <1>1
  <2> QED BY <1>0, <1>1, <1>6, <1>7, <2>1
<1>5. n + 2 \in Nat \ {0}
  BY <1>1
<1> QED BY <1>0, <1>1, <1>3, <1>4, <1>5, <1>6, <1>8 DEF Nests

\* Where the calls began does not change when one gets a value ...
LEMMA SoundResumed ==
  ASSUME NEW calls, NEW calls2, NEW node, Resumed(calls, calls2, node),
         NEW s, NEW f, NEW lo, NEW p \in Nat, NEW p2 \in Nat, p <= p2, Sound(calls, s, f, lo, p),
         Reached(s, f, calls2[Len(calls2)], lo[Len(calls2)], p2)
  PROVE  Sound(calls2, s, f, lo, p2)
<1> DEFINE n == Len(calls2)
<1>1. /\ Len(calls) \in Nat /\ n \in 1 .. Len(calls)
      /\ \A i \in 1 .. n : i \in 1 .. Len(calls) /\ Like(calls[i], calls2[i])
  BY DEF Resumed
<1> HIDE DEF n
<1>2. \A i \in 1 .. n - 1 : i \in 1 .. Len(calls) - 1 /\ i \in 1 .. n /\ i + 1 \in 1 .. n
  BY <1>1
<1>3. \A i \in 1 .. n - 1 : Entered(s, f, calls2[i], calls2[i + 1], lo[i], lo[i + 1])
  <2> TAKE i \in 1 .. n - 1
  <2>1. /\ Entered(s, f, calls[i], calls[i + 1], lo[i], lo[i + 1])
        /\ Like(calls[i], calls2[i]) /\ Like(calls[i + 1], calls2[i + 1])
    BY <1>1, <1>2 DEF Sound
  <2> QED BY <2>1, LikeCalls
<1>4. \A i \in 1 .. n : lo[i] \in 1 .. p2
  <2> TAKE i \in 1 .. n
  <2>1. lo[i] \in 1 .. p
    BY <1>1 DEF Sound
  <2> QED BY <2>1
<1> QED BY <1>3, <1>4 DEF Sound, n

\* ... and the two that begin are at the operator and behind it.
LEMMA SoundExtended ==
  ASSUME NEW calls, NEW calls2, NEW a, NEW b, Extended(calls, calls2, a, b),
         NEW s, NEW f, NEW lo, NEW p \in Nat \ {0}, Sound(calls, s, f, lo, p),
         Entered(s, f, calls[Len(calls)], a, lo[Len(calls)], p),
         a.fn # "precedence", b.value = Pending
  PROVE  \E lo2 : Sound(calls2, s, f, lo2, p + 1)
<1> DEFINE n == Len(calls)
           lo2 == [i \in 1 .. n + 2 |-> IF i <= n THEN lo[i] ELSE IF i = n + 1 THEN p ELSE p + 1]
<1>1. /\ n \in Nat \ {0} /\ Len(calls2) = n + 2 /\ 1 \in 1 .. n /\ n \in 1 .. n
      /\ \A i \in 1 .. n : Like(calls[i], calls2[i])
      /\ calls2[n + 1] = a /\ calls2[n + 2] = b
  BY DEF Extended
<1>2. /\ \A i \in 1 .. n - 1 : Entered(s, f, calls[i], calls[i + 1], lo[i], lo[i + 1])
      /\ lo[1] = 1 /\ \A i \in 1 .. n : lo[i] \in 1 .. p
      /\ Entered(s, f, calls[n], a, lo[n], p)
  BY DEF Sound
<1> HIDE DEF n
<1>3. /\ \A i \in 1 .. n : lo2[i] = lo[i]
      /\ lo2[n + 1] = p /\ lo2[n + 2] = p + 1
  BY <1>1
<1> HIDE DEF lo2
<1>4. \A i \in 1 .. (n + 2) - 1 : Entered(s, f, calls2[i], calls2[i + 1], lo2[i], lo2[i + 1])
  <2> TAKE i \in 1 .. (n + 2) - 1
  <2>1. CASE i \in 1 .. n - 1
    <3>1. i \in 1 .. n /\ i + 1 \in 1 .. n
      BY <1>1, <2>1
    <3>2. Entered(s, f, calls[i], calls[i + 1], lo[i], lo[i + 1])
      BY <1>2, <2>1
    <3>3. Entered(s, f, calls2[i], calls2[i + 1], lo[i], lo[i + 1])
      BY <1>1, <3>1, <3>2, LikeCalls
    <3> QED BY <1>3, <3>1, <3>3
  <2>2. CASE i = n
    <3>1. Like(a, a)
      BY DEF Like
    <3>2. Entered(s, f, calls2[n], a, lo[n], p)
      BY <1>1, <1>2, <3>1, LikeCalls
    <3> QED BY <1>1, <1>3, <2>2, <3>2
  <2>3. CASE i = n + 1
    <3>1. i + 1 = n + 2
      BY <1>1, <2>3
    <3>2. Entered(s, f, a, b, p, p + 1)
      BY DEF Entered
    <3> QED BY <1>1, <1>3, <2>3, <3>1, <3>2
  <2> QED BY <1>1, <2>1, <2>2, <2>3
<1>5. \A i \in 1 .. n + 2 : lo2[i] \in 1 .. p + 1
  <2>1. \A i \in 1 .. n + 2 : i \in 1 .. n \/ i = n + 1 \/ i = n + 2
    BY <1>1
  <2>2. \A i \in 1 .. n : lo2[i] \in 1 .. p
    BY <1>2, <1>3
  <2>3. \A x \in 1 .. p : x \in 1 .. p + 1
    OBVIOUS
  <2>4. p \in 1 .. p + 1 /\ p + 1 \in 1 .. p + 1
    OBVIOUS
  <2> QED BY <1>3, <2>1, <2>2, <2>3, <2>4
<1>6. Reached(s, f, b, p + 1, p + 1)
  BY DEF Reached
<1>7. lo2[1] = 1
  BY <1>1, <1>2, <1>3
<1>8. Sound(calls2, s, f, lo2, p + 1)
  BY <1>1, <1>3, <1>4, <1>5, <1>6, <1>7 DEF Sound
<1> QED BY <1>8

\* The same of where they are to end.
LEMMA FitsResumed ==
  ASSUME NEW calls, NEW calls2, NEW node, Resumed(calls, calls2, node),
         NEW s, NEW hi, NEW p, NEW p2, Fits(calls, s, hi, p),
         Awaits(s, calls2[Len(calls2)], p2, hi[Len(calls2)])
  PROVE  Fits(calls2, s, hi, p2)
<1> DEFINE n == Len(calls2)
<1>1. /\ Len(calls) \in Nat /\ n \in 1 .. Len(calls)
      /\ \A i \in 1 .. n : i \in 1 .. Len(calls) /\ Like(calls[i], calls2[i])
  BY DEF Resumed
<1> HIDE DEF n
<1>2. \A i \in 1 .. n - 1 : i \in 1 .. Len(calls) - 1 /\ i \in 1 .. n /\ i + 1 \in 1 .. n
  BY <1>1
<1>3. \A i \in 1 .. n - 1 : Closes(s, calls2[i], calls2[i + 1], hi[i], hi[i + 1])
  <2> TAKE i \in 1 .. n - 1
  <2>1. /\ Closes(s, calls[i], calls[i + 1], hi[i], hi[i + 1])
        /\ Like(calls[i], calls2[i]) /\ Like(calls[i + 1], calls2[i + 1])
    BY <1>1, <1>2 DEF Fits
  <2> QED BY <2>1, LikeCalls
<1>4. \A i \in 1 .. n : Bounded(s, calls2[i], hi[i])
  <2> TAKE i \in 1 .. n
  <2>1. Bounded(s, calls[i], hi[i]) /\ Like(calls[i], calls2[i])
    BY <1>1 DEF Fits
  <2> QED BY <2>1, LikeCalls
<1> QED BY <1>3, <1>4 DEF Fits, n

\* ... or two more are made.
LEMMA FitsExtended ==
  ASSUME NEW calls, NEW calls2, NEW a, NEW b, Extended(calls, calls2, a, b),
         NEW s, NEW hi, NEW p, Fits(calls, s, hi, p),
         NEW m, NEW m2, Bounded(s, a, m), Bounded(s, b, m2),
         Closes(s, calls[Len(calls)], a, hi[Len(calls)], m), Closes(s, a, b, m, m2),
         Awaits(s, b, p + 1, m2)
  PROVE  \E hi2 : Fits(calls2, s, hi2, p + 1)
<1> DEFINE n == Len(calls)
           hi2 == [i \in 1 .. n + 2 |-> IF i <= n THEN hi[i] ELSE IF i = n + 1 THEN m ELSE m2]
<1>1. /\ n \in Nat \ {0} /\ Len(calls2) = n + 2 /\ 1 \in 1 .. n /\ n \in 1 .. n
      /\ \A i \in 1 .. n : Like(calls[i], calls2[i])
      /\ calls2[n + 1] = a /\ calls2[n + 2] = b
  BY DEF Extended
<1>2. /\ \A i \in 1 .. n - 1 : Closes(s, calls[i], calls[i + 1], hi[i], hi[i + 1])
      /\ hi[1] = Len(s) /\ \A i \in 1 .. n : Bounded(s, calls[i], hi[i])
      /\ Closes(s, calls[n], a, hi[n], m)
  BY DEF Fits
<1> HIDE DEF n
<1>3. /\ \A i \in 1 .. n : hi2[i] = hi[i]
      /\ hi2[n + 1] = m /\ hi2[n + 2] = m2
  BY <1>1
<1> HIDE DEF hi2
<1>4. \A i \in 1 .. (n + 2) - 1 : Closes(s, calls2[i], calls2[i + 1], hi2[i], hi2[i + 1])
  <2> TAKE i \in 1 .. (n + 2) - 1
  <2>1. CASE i \in 1 .. n - 1
    <3>1. i \in 1 .. n /\ i + 1 \in 1 .. n
      BY <1>1, <2>1
    <3>2. Closes(s, calls[i], calls[i + 1], hi[i], hi[i + 1])
      BY <1>2, <2>1
    <3>3. Closes(s, calls2[i], calls2[i + 1], hi[i], hi[i + 1])
      BY <1>1, <3>1, <3>2, LikeCalls
    <3> QED BY <1>3, <3>1, <3>3
  <2>2. CASE i = n
    <3>1. Like(a, a)
      BY DEF Like
    <3>2. Closes(s, calls2[n], a, hi[n], m)
      BY <1>1, <1>2, <3>1, LikeCalls
    <3> QED BY <1>1, <1>3, <2>2, <3>2
  <2>3. CASE i = n + 1
    <3>1. i + 1 = n + 2
      BY <1>1, <2>3
    <3> QED BY <1>1, <1>3, <2>3, <3>1
  <2> QED BY <1>1, <2>1, <2>2, <2>3
<1>5. \A i \in 1 .. n + 2 : Bounded(s, calls2[i], hi2[i])
  <2> TAKE i \in 1 .. n + 2
  <2>1. CASE i \in 1 .. n
    <3>1. Bounded(s, calls[i], hi[i]) /\ Like(calls[i], calls2[i])
      BY <1>1, <1>2, <2>1
    <3>2. Bounded(s, calls2[i], hi[i])
      BY <3>1, LikeCalls
    <3> QED BY <1>3, <2>1, <3>2
  <2>2. i \in 1 .. n \/ i = n + 1 \/ i = n + 2
    BY <1>1
  <2> QED BY <1>1, <1>3, <2>1, <2>2
<1>7. hi2[1] = Len(s)
  BY <1>1, <1>2, <1>3
<1>8. Fits(calls2, s, hi2, p + 1)
  BY <1>1, <1>3, <1>4, <1>5, <1>7 DEF Fits
<1> QED BY <1>8

-----------------------------------------------------------------------------
\* The precedences of the table and the operators of the levels.
LEMMA Binds ==
  ASSUME NEW min \in {PREC_ASSIGNMENT, PREC_FACTOR, PREC_UNARY}, NEW token
  PROVE  /\ min > PrecedenceOf(token) => token \notin Ops(Level(min))
         /\ min <= PrecedenceOf(token) /\ Infix(token) # "none" => token \in Ops(Level(min))
         /\ Level(min) \in Nonterminals
<1> USE DEF PREC_ASSIGNMENT, PREC_FACTOR, PREC_UNARY, PREC_TERM, PREC_NONE
<1>1. CASE min = PREC_ASSIGNMENT
  <2>1. Ops(Level(min)) = {"+", "-", "*", "/", "|"} /\ Level(min) = "term"
    BY <1>1 DEF Ops, Level, TermOperators, FactorOperators
  <2> QED BY <1>1, <2>1 DEF PrecedenceOf, Infix, Nonterminals
<1>2. CASE min = PREC_FACTOR
  <2>1. Ops(Level(min)) = {"*", "/", "|"} /\ Level(min) = "factor"
    BY <1>2 DEF Ops, Level, FactorOperators
  <2> QED BY <1>2, <2>1 DEF PrecedenceOf, Infix, Nonterminals
<1>3. CASE min = PREC_UNARY
  <2>1. Ops(Level(min)) = {} /\ Level(min) = "unary"
    BY <1>3 DEF Ops, Level
  <2> QED BY <1>3, <2>1 DEF PrecedenceOf, Nonterminals
<1> QED BY <1>1, <1>2, <1>3

\* What the innermost calls are.
LEMMA Innermost ==
  ASSUME NEW calls, Nests(calls)
  PROVE  LET n == Len(calls)
         IN  /\ n \in Nat \ {0} /\ n \in 1 .. n
             /\ calls[n].value = Pending => calls[n].fn = "precedence"
             /\ calls[n].fn = "precedence" =>
                  /\ calls[n].min \in {PREC_ASSIGNMENT, PREC_FACTOR, PREC_UNARY}
                  /\ Level(calls[n].min) \in Nonterminals
             /\ calls[n].fn # "precedence" => n > 1
             /\ n > 1 => /\ n - 1 \in 1 .. n - 1 /\ n - 1 \in 1 .. n /\ (n - 1) + 1 = n
                         /\ Nested(calls[n - 1], calls[n])
                         /\ calls[n - 1].fn = "precedence" <=> calls[n].fn # "precedence"
             /\ n > 1 /\ calls[n].fn # "precedence" =>
                  calls[n - 1].min \in {PREC_ASSIGNMENT, PREC_FACTOR, PREC_UNARY}
<1> DEFINE n == Len(calls)
<1>1. n \in Nat \ {0} /\ n \in 1 .. n
  BY DEF Nests
<1>2. n > 1 => n - 1 \in 1 .. n - 1 /\ n - 1 \in 1 .. n /\ (n - 1) + 1 = n
  BY <1>1
<1>3. n > 1 => Nested(calls[n - 1], calls[n])
  <2> HIDE DEF n
  <2>1. \A i \in 1 .. n - 1 : Nested(calls[i], calls[i + 1])
    BY DEF Nests, n
  <2> QED BY <1>2, <2>1
<1>4. calls[n].fn # "precedence" => n > 1
  BY <1>1 DEF Nests
<1>5. /\ calls[n].value = Pending => calls[n].fn = "precedence"
      /\ \A i \in 1 .. n : calls[i].fn = "precedence" =>
           calls[i].min \in {PREC_ASSIGNMENT, PREC_FACTOR, PREC_UNARY}
  BY <1>1 DEF Nests
<1> HIDE DEF n
<1>6. n > 1 => (calls[n - 1].fn = "precedence" <=> calls[n].fn # "precedence")
  BY <1>3 DEF Nested
<1> QED BY <1>1, <1>2, <1>3, <1>4, <1>5, <1>6, Binds DEF n

\* A token that is not the end of the source is one of its tokens.
LEMMA InSource ==
  ASSUME NEW s, Len(s) \in Nat, NEW p \in Nat \ {0}, At(s, p) # "EOF"
  PROVE  p \in 1 .. Len(s) /\ At(s, p) = s[p]
BY DEF At

\* The end of the source is no operator.
LEMMA EndIsNone ==
  \A level : "EOF" \notin Ops(level) /\ "EOF" \notin UnaryOperators
BY DEF Ops, TermOperators, FactorOperators, UnaryOperators

\* A literal is the tree of its token.
LEMMA SoundLiteral ==
  ASSUME NEW calls, Nests(calls), NEW calls2, NEW node, node # Pending,
         Resumed(calls, calls2, node), Len(calls2) = Len(calls),
         calls[Len(calls)].value = Pending,
         NEW s, Len(s) \in Nat, NEW f, NEW lo, NEW p \in Nat \ {0}, Sound(calls, s, f, lo, p),
         At(s, p) \in Literals, f[node] = Leaf(At(s, p), p)
  PROVE  Sound(calls2, s, f, lo, p + 1)
<1> DEFINE n == Len(calls)
<1>1. n \in 1 .. n /\ calls[n].fn = "precedence" /\ Level(calls[n].min) \in Nonterminals
  BY Innermost
<1>2. lo[n] = p
  BY DEF Sound, Reached
<1>3. Like(calls[n], calls2[n]) /\ calls2[n].value = node
  BY <1>1 DEF Resumed
<1>4. calls2[n].fn = "precedence" /\ calls2[n].min = calls[n].min
  BY <1>1, <1>3 DEF Like
<1>5. p \in 1 .. Len(s) /\ At(s, p) = s[p]
  BY InSource DEF Literals
<1>6. Yields(s, "unary", p, p, f[node])
  <2>1. Piece(s, p, p)
    BY <1>5 DEF Piece
  <2> QED BY <1>5, <2>1, Built
<1>7. "unary" \in Nonterminals /\ Ops("unary") \subseteq Ops(Level(calls[n].min))
  BY DEF Nonterminals, Ops
<1>8. (p + 1) - 1 = p /\ p <= p + 1 /\ p + 1 \in Nat
  OBVIOUS
<1>9. Reached(s, f, calls2[n], lo[n], p + 1)
  BY <1>2, <1>3, <1>4, <1>6, <1>7, <1>8 DEF Reached
<1> QED BY <1>8, <1>9, SoundResumed

\* A call that was begun behind a prefix begins where its caller did.
LEMMA SoundPrefix ==
  ASSUME NEW calls, Nests(calls), NEW calls2, NEW a, NEW b, Extended(calls, calls2, a, b),
         calls[Len(calls)].value = Pending,
         NEW s, NEW f, NEW lo, NEW p \in Nat \ {0}, Sound(calls, s, f, lo, p),
         a.fn \in {"grouping", "unary"}, a.operator = At(s, p), Prefix(At(s, p)) = a.fn,
         b.value = Pending
  PROVE  \E lo2 : Sound(calls2, s, f, lo2, p + 1)
<1> DEFINE n == Len(calls)
<1>1. calls[n].fn = "precedence"
  BY Innermost
<1>2. lo[n] = p
  BY DEF Sound, Reached
<1>3. Entered(s, f, calls[n], a, lo[n], p)
  BY <1>1, <1>2 DEF Entered
<1> QED BY <1>3, SoundExtended

\* One that was begun behind an operator was given a first operand of the
\* operator's level: what was read last was one of it or of a level below.
LEMMA SoundInfix ==
  ASSUME NEW calls, Nests(calls), NEW calls2, NEW a, NEW b, Extended(calls, calls2, a, b),
         calls[Len(calls)].value # Pending, calls[Len(calls)].fn = "precedence",
         NEW s, NEW f, NEW lo, NEW p \in Nat \ {0}, Sound(calls, s, f, lo, p),
         Infix(At(s, p)) # "none",
         a.fn = "binary", a.operator = At(s, p), a.first = calls[Len(calls)].value,
         b.value = Pending
  PROVE  \E lo2 : Sound(calls2, s, f, lo2, p + 1)
<1> DEFINE n == Len(calls)
           level == LevelOf(At(s, p))
<1>1. PICK l \in Nonterminals :
        /\ Yields(s, l, lo[n], p - 1, f[calls[n].value])
        /\ l = "term" => At(s, p) \notin FactorOperators
  BY DEF Sound, Reached
<1>2. Ops(l) \subseteq Ops(level) /\ level \in Nonterminals
  <2>1. At(s, p) \in TermOperators \cup FactorOperators
    BY DEF Infix, TermOperators, FactorOperators
  <2> QED BY <1>1, <2>1 DEF LevelOf, Ops, Nonterminals
<1>3. Yields(s, level, lo[n], p - 1, f[a.first])
  <2> HIDE DEF level
  <2> QED BY <1>1, <1>2, Widened
<1>4. Entered(s, f, calls[n], a, lo[n], p)
  BY <1>3 DEF Entered
<1> QED BY <1>4, SoundExtended

\* compiler_parse_precedence returns a tree of its level ...
LEMMA SoundReturn ==
  ASSUME NEW calls, Nests(calls),
         calls[Len(calls)].value # Pending, calls[Len(calls)].fn = "precedence",
         NEW s, NEW f, NEW lo, NEW p \in Nat \ {0}, Sound(calls, s, f, lo, p),
         calls[Len(calls)].min > PrecedenceOf(At(s, p))
  PROVE  LET top == calls[Len(calls)]
         IN  /\ Yields(s, Level(top.min), lo[Len(calls)], p - 1, f[top.value])
             /\ At(s, p) \notin Ops(Level(top.min))
<1> DEFINE n == Len(calls)
           level == Level(calls[n].min)
<1>1. PICK l \in Nonterminals :
        Ops(l) \subseteq Ops(level) /\ Yields(s, l, lo[n], p - 1, f[calls[n].value])
  BY DEF Sound, Reached
<1>2. level \in Nonterminals /\ calls[n].min \in {PREC_ASSIGNMENT, PREC_FACTOR, PREC_UNARY}
  BY Innermost
<1>3. At(s, p) \notin Ops(level)
  BY <1>2, Binds
<1> HIDE DEF level
<1>4. Yields(s, level, lo[n], p - 1, f[calls[n].value])
  BY <1>1, <1>2, Widened
<1> QED BY <1>3, <1>4 DEF level

\* ... which is the operand that its caller needs.
LEMMA SoundLeave ==
  ASSUME NEW calls, Nests(calls), NEW calls2, NEW node, node # Pending,
         Resumed(calls, calls2, node), Len(calls2) = Len(calls) - 1,
         calls[Len(calls)].value = node, calls[Len(calls)].fn = "precedence",
         NEW s, NEW f, NEW lo, NEW p \in Nat \ {0}, Sound(calls, s, f, lo, p),
         calls[Len(calls)].min > PrecedenceOf(At(s, p))
  PROVE  Sound(calls2, s, f, lo, p)
<1> DEFINE n == Len(calls)
           call == calls[n - 1]
<1>1. n > 1
  BY DEF Resumed
<1>2. /\ n - 1 \in 1 .. n - 1 /\ n - 1 \in 1 .. n /\ (n - 1) + 1 = n
      /\ Nested(call, calls[n]) /\ call.fn # "precedence"
  BY <1>1, Innermost
<1>3. Yields(s, Level(calls[n].min), lo[n], p - 1, f[node])
      /\ At(s, p) \notin Ops(Level(calls[n].min))
  BY SoundReturn
<1>4. Level(calls[n].min) = Operand(call)
  BY <1>2 DEF Nested
<1>5. Entered(s, f, call, calls[n], lo[n - 1], lo[n])
  <2>1. \A i \in 1 .. n - 1 : Entered(s, f, calls[i], calls[i + 1], lo[i], lo[i + 1])
    BY DEF Sound
  <2> HIDE DEF n
  <2> QED BY <1>2, <2>1
<1>6. lo[n] = lo[n - 1] + 1
  BY <1>2, <1>5 DEF Entered
<1>7. Like(call, calls2[n - 1]) /\ calls2[n - 1].value = node
  BY <1>2 DEF Resumed
<1>8. calls2[n - 1].fn = call.fn /\ Operand(calls2[n - 1]) = Operand(call)
  BY <1>7 DEF Like, Operand
<1>9. Reached(s, f, calls2[n - 1], lo[n - 1], p)
  BY <1>2, <1>3, <1>4, <1>6, <1>7, <1>8 DEF Reached
<1> QED BY <1>9, SoundResumed

\* The tree of a node that a call makes of its operands.
TreeMade(call, f) ==
  CASE call.fn = "grouping" -> Grouping(f[call.value])
    [] call.fn = "unary"    -> Unary(call.operator, f[call.value])
    [] OTHER                -> Binary(call.operator, f[call.first], f[call.value])

\* A call that has got its last operand makes a tree that its caller can go
\* on with; of a group, the parenthesis that closes it has been taken.
LEMMA SoundNode ==
  ASSUME NEW calls, Nests(calls), NEW calls2, NEW node, node # Pending,
         Resumed(calls, calls2, node), Len(calls2) = Len(calls) - 1,
         calls[Len(calls)].fn # "precedence",
         NEW s, Len(s) \in Nat, NEW f, NEW lo, NEW p \in Nat \ {0}, Sound(calls, s, f, lo, p),
         f[node] = TreeMade(calls[Len(calls)], f),
         NEW p2 \in Nat,
         IF calls[Len(calls)].fn = "grouping" THEN p2 = p + 1 /\ At(s, p) = ")" ELSE p2 = p
  PROVE  Sound(calls2, s, f, lo, p2)
<1> DEFINE n == Len(calls)
           call == calls[n]
           caller == calls[n - 1]
           level == IF call.fn = "binary" THEN LevelOf(call.operator) ELSE "unary"
<1>1. /\ n > 1 /\ n - 1 \in 1 .. n - 1 /\ n - 1 \in 1 .. n /\ (n - 1) + 1 = n /\ n \in 1 .. n
      /\ Nested(caller, call) /\ caller.fn = "precedence" /\ call.value # Pending
      /\ caller.min \in {PREC_ASSIGNMENT, PREC_FACTOR, PREC_UNARY}
  BY Innermost
<1>2. /\ Yields(s, Operand(call), lo[n] + 1, p - 1, f[call.value])
      /\ At(s, p) \notin Ops(Operand(call))
  BY <1>1 DEF Sound, Reached
<1>3. Entered(s, f, caller, call, lo[n - 1], lo[n])
  <2>1. \A i \in 1 .. n - 1 : Entered(s, f, calls[i], calls[i + 1], lo[i], lo[i + 1])
    BY DEF Sound
  <2> HIDE DEF n
  <2>2. Entered(s, f, calls[n - 1], calls[(n - 1) + 1], lo[n - 1], lo[(n - 1) + 1])
    BY <1>1, <2>1
  <2> QED BY <1>1, <2>2
<1>4. lo[n] \in 1 .. p /\ lo[n - 1] \in 1 .. p
  BY <1>1 DEF Sound
<1>5. Like(caller, calls2[n - 1]) /\ calls2[n - 1].value = node
  BY <1>1 DEF Resumed
<1>6. calls2[n - 1].fn = "precedence" /\ calls2[n - 1].min = caller.min
  BY <1>1, <1>5 DEF Like
<1>7. call.fn \in {"grouping", "unary", "binary"}
  BY <1>1 DEF Nests
<1>8. At(s, lo[n]) = call.operator
  BY <1>1, <1>3 DEF Entered
<1> HIDE DEF n
<1>9. CASE call.fn = "unary"
  <2>1. lo[n] = lo[n - 1] /\ Prefix(call.operator) = "unary" /\ Operand(call) = "unary"
    BY <1>1, <1>3, <1>9 DEF Entered, Operand
  <2>2. At(s, lo[n]) \in UnaryOperators
    BY <1>8, <2>1, TableEntries
  <2>3. lo[n] \in 1 .. Len(s) /\ At(s, lo[n]) = s[lo[n]]
    <3>1. lo[n] \in Nat \ {0}
      BY <1>4
    <3> QED BY <2>2, <3>1, InSource, EndIsNone
  <2>4. Yields(s, "unary", lo[n], p - 1, Unary(s[lo[n]], f[call.value]))
    BY <1>2, <2>1, <2>2, <2>3, Built
  <2>5. f[node] = Unary(s[lo[n]], f[call.value])
    BY <1>8, <1>9, <2>3 DEF TreeMade, n
  <2>6. p2 = p
    BY <1>9 DEF n
  <2>7. "unary" \in Nonterminals /\ Ops("unary") \subseteq Ops(Level(caller.min))
    BY DEF Nonterminals, Ops
  <2>8. Reached(s, f, calls2[n - 1], lo[n - 1], p2)
    BY <1>5, <1>6, <2>1, <2>4, <2>5, <2>6, <2>7 DEF Reached
  <2> QED BY <2>6, <2>8, SoundResumed DEF n
<1>10. CASE call.fn = "grouping"
  <2>1. lo[n] = lo[n - 1] /\ call.operator = "(" /\ Operand(call) = "term"
    BY <1>1, <1>3, <1>10 DEF Entered, Operand, Prefix
  <2>2. lo[n] \in 1 .. Len(s) /\ s[lo[n]] = "("
    <3>1. lo[n] \in Nat \ {0}
      BY <1>4
    <3> QED BY <1>8, <2>1, <3>1, InSource
  <2>3. p2 = p + 1 /\ At(s, p) = ")"
    BY <1>10 DEF n
  <2>4. p \in 1 .. Len(s) /\ s[p] = ")"
    BY <2>3, InSource
  <2>5. Yields(s, "unary", lo[n], p, Grouping(f[call.value]))
    BY <1>2, <2>1, <2>2, <2>4, Built
  <2>6. f[node] = Grouping(f[call.value])
    BY <1>10 DEF TreeMade, n
  <2>7. "unary" \in Nonterminals /\ Ops("unary") \subseteq Ops(Level(caller.min))
    BY DEF Nonterminals, Ops
  <2>8. p2 - 1 = p /\ p <= p2
    BY <2>3
  <2>9. Reached(s, f, calls2[n - 1], lo[n - 1], p2)
    BY <1>5, <1>6, <2>1, <2>5, <2>6, <2>7, <2>8 DEF Reached
  <2> QED BY <2>8, <2>9, SoundResumed DEF n
<1>11. CASE call.fn = "binary"
  <2> DEFINE k == lo[n]
  <2>1. /\ call.operator \in Ops(Level(caller.min))
        /\ Yields(s, LevelOf(call.operator), lo[n - 1], k - 1, f[call.first])
        /\ Operand(call) = Below(LevelOf(call.operator))
    BY <1>1, <1>3, <1>11 DEF Entered, Operand, Nested
  <2>2. Level(caller.min) \in Nonterminals
    BY <1>1, Binds
  <2>3. call.operator \in TermOperators \cup FactorOperators
    BY <2>1, <2>2, SymbolsApart DEF Ops
  <2>4. k \in 1 .. Len(s) /\ s[k] = call.operator
    <3>1. k \in Nat \ {0}
      BY <1>4
    <3>2. call.operator # "EOF"
      BY <2>1, EndIsNone
    <3> QED BY <1>8, <3>1, <3>2, InSource
  <2>5. Yields(s, LevelOf(s[k]), lo[n - 1], p - 1, Binary(s[k], f[call.first], f[call.value]))
    <3>1. k \in Int
      BY <2>4
    <3> HIDE DEF k
    <3> QED BY <1>2, <2>1, <2>3, <2>4, <3>1, BuiltBinary DEF k
  <2>6. f[node] = Binary(s[k], f[call.first], f[call.value])
    BY <1>11, <2>4 DEF TreeMade, n
  <2>7. p2 = p
    BY <1>11 DEF n
  <2>8. /\ LevelOf(s[k]) \in Nonterminals
        /\ Ops(LevelOf(s[k])) \subseteq Ops(Level(caller.min))
        /\ LevelOf(s[k]) = "term" => At(s, p) \notin FactorOperators
    <3>1. CASE call.operator \in TermOperators
      <4>1. LevelOf(s[k]) = "term" /\ Operand(call) = "factor"
        BY <2>1, <2>4, <3>1 DEF LevelOf, Below
      <4>2. Level(caller.min) = "term"
        BY <2>1, <2>2, <3>1, SymbolsApart DEF Ops, Nonterminals
      <4>3. Ops(Operand(call)) = FactorOperators
        BY <4>1 DEF Ops
      <4> QED BY <1>2, <4>1, <4>2, <4>3 DEF Nonterminals
    <3>2. CASE call.operator \notin TermOperators
      <4>1. LevelOf(s[k]) = "factor"
        BY <2>4, <3>2 DEF LevelOf
      <4>2. Ops("factor") \subseteq Ops(Level(caller.min))
        BY <2>1, <2>2 DEF Ops, Nonterminals
      <4> QED BY <4>1, <4>2 DEF Nonterminals
    <3> QED BY <3>1, <3>2
  <2> HIDE DEF k
  <2>9. Reached(s, f, calls2[n - 1], lo[n - 1], p2)
    BY <1>5, <1>6, <2>5, <2>6, <2>7, <2>8 DEF Reached
  <2> QED BY <2>7, <2>9, SoundResumed DEF n
<1> QED BY <1>7, <1>9, <1>10, <1>11

-----------------------------------------------------------------------------
\* Where an expression of the grammar is awaited, its first token has a rule.
LEMMA FitsFirst ==
  ASSUME NEW calls, Nests(calls), calls[Len(calls)].value = Pending,
         NEW s, NEW hi, NEW p, Fits(calls, s, hi, p)
  PROVE  LET level == Level(calls[Len(calls)].min)
         IN  /\ level \in Nonterminals /\ Is(s, level, p, hi[Len(calls)])
             /\ p \in 1 .. Len(s) /\ Len(s) \in Nat /\ At(s, p) = s[p]
             /\ At(s, p) \in Literals \cup UnaryOperators \cup {"("}
<1> DEFINE n == Len(calls)
           level == Level(calls[n].min)
<1>1. calls[n].fn = "precedence" /\ level \in Nonterminals
  BY Innermost
<1>2. Is(s, level, p, hi[n])
  BY <1>1 DEF Fits, Awaits
<1> HIDE DEF level, n
<1>3. p \in 1 .. Len(s) /\ Len(s) \in Nat /\ s[p] \in Literals \cup UnaryOperators \cup {"("}
  BY <1>1, <1>2, Begins
<1>4. At(s, p) = s[p]
  BY <1>3 DEF At
<1> QED BY <1>1, <1>2, <1>3, <1>4 DEF level, n

\* A literal is the first operand of a derivation that goes on.
LEMMA FitsLiteral ==
  ASSUME NEW calls, Nests(calls), NEW calls2, NEW node, node # Pending,
         Resumed(calls, calls2, node), Len(calls2) = Len(calls),
         calls[Len(calls)].value = Pending,
         NEW s, NEW hi, NEW p, Fits(calls, s, hi, p), At(s, p) \in Literals
  PROVE  Fits(calls2, s, hi, p + 1)
<1> DEFINE n == Len(calls)
           level == Level(calls[n].min)
<1>1. /\ level \in Nonterminals /\ Is(s, level, p, hi[n])
      /\ p \in 1 .. Len(s) /\ Len(s) \in Nat /\ At(s, p) = s[p]
  BY FitsFirst
<1>2. n \in 1 .. n /\ calls[n].fn = "precedence"
  BY Innermost
<1>3. Like(calls[n], calls2[n]) /\ calls2[n].value = node
  BY <1>2 DEF Resumed
<1>4. calls2[n].fn = "precedence" /\ calls2[n].min = calls[n].min
  BY <1>2, <1>3 DEF Like
<1> HIDE DEF level
<1>5. Rest(s, Ops(level), level, p, hi[n])
  BY <1>1, Begins
<1>6. (p + 1) - 1 = p
  BY <1>1
<1>7. Awaits(s, calls2[n], p + 1, hi[n])
  BY <1>3, <1>4, <1>5, <1>6 DEF Awaits, level
<1> QED BY <1>7, FitsResumed

\* A prefix begins the operand that a derivation has there.
LEMMA FitsPrefix ==
  ASSUME NEW calls, Nests(calls), NEW calls2, NEW a, NEW b, Extended(calls, calls2, a, b),
         calls[Len(calls)].value = Pending,
         NEW s, NEW hi, NEW p, Fits(calls, s, hi, p),
         a.fn \in {"grouping", "unary"}, Prefix(At(s, p)) = a.fn,
         b.fn = "precedence", b.value = Pending,
         b.min = IF a.fn = "unary" THEN PREC_UNARY ELSE PREC_ASSIGNMENT
  PROVE  \E hi2 : Fits(calls2, s, hi2, p + 1)
<1> DEFINE n == Len(calls)
           level == Level(calls[n].min)
<1>1. /\ level \in Nonterminals /\ Is(s, level, p, hi[n])
      /\ p \in 1 .. Len(s) /\ Len(s) \in Nat /\ At(s, p) = s[p]
  BY FitsFirst
<1>2. calls[n].fn = "precedence"
  BY Innermost
<1>3. hi[n] \in 1 .. Len(s)
  BY <1>1, Begins
<1> HIDE DEF level
<1>4. CASE a.fn = "unary"
  <2>1. s[p] \in UnaryOperators
    BY <1>1, <1>4, TableEntries
  <2>2. PICK m \in p .. hi[n] : Is(s, "unary", p + 1, m) /\ Rest(s, Ops(level), level, m, hi[n])
    BY <1>1, <2>1, Begins
  <2>3. Level(b.min) = "unary" /\ Ops("unary") = {}
    BY <1>4 DEF Level, Ops, PREC_UNARY, PREC_TERM, PREC_FACTOR
  <2>4. m \in 0 .. Len(s)
    BY <1>1, <1>3
  <2>5. Bounded(s, a, m) /\ Bounded(s, b, m)
    BY <1>4, <2>3, <2>4 DEF Bounded
  <2>6. Closes(s, calls[n], a, hi[n], m) /\ Closes(s, a, b, m, m)
    BY <1>2, <1>4, <2>2 DEF Closes, level
  <2>7. Awaits(s, b, p + 1, m)
    BY <2>2, <2>3 DEF Awaits
  <2> QED BY <2>5, <2>6, <2>7, FitsExtended
<1>5. CASE a.fn = "grouping"
  <2>1. s[p] = "("
    BY <1>1, <1>5 DEF Prefix
  <2>2. PICK m \in p .. hi[n] : /\ s[m] = ")" /\ Is(s, "term", p + 1, m - 1)
                                /\ Rest(s, Ops(level), level, m, hi[n])
    BY <1>1, <2>1, Begins
  <2>3. Level(b.min) = "term" /\ ")" \notin Ops("term")
    <3>1. Level(b.min) = "term"
      BY <1>5 DEF Level, PREC_ASSIGNMENT, PREC_TERM
    <3> QED BY <3>1, SymbolsApart DEF Nonterminals
  <2>4. m \in 1 .. Len(s) /\ m \in 0 .. Len(s) /\ m - 1 \in 0 .. Len(s) /\ (m - 1) + 1 = m
    BY <1>1, <1>3
  <2>5. At(s, m) = ")"
    BY <2>2, <2>4 DEF At
  <2>6. Bounded(s, a, m) /\ Bounded(s, b, m - 1)
    BY <1>5, <2>3, <2>4, <2>5 DEF Bounded
  <2>7. Closes(s, calls[n], a, hi[n], m) /\ Closes(s, a, b, m, m - 1)
    BY <1>2, <1>5, <2>2, <2>4, <2>5 DEF Closes, level
  <2>8. Awaits(s, b, p + 1, m - 1)
    BY <2>2, <2>3 DEF Awaits
  <2> QED BY <2>6, <2>7, <2>8, FitsExtended
<1> QED BY <1>4, <1>5

\* An operator is followed by the second operand that a derivation has there.
LEMMA FitsInfix ==
  ASSUME NEW calls, Nests(calls), NEW calls2, NEW a, NEW b, Extended(calls, calls2, a, b),
         calls[Len(calls)].value # Pending, calls[Len(calls)].fn = "precedence",
         NEW s, Len(s) \in Nat, NEW hi, NEW p \in Nat \ {0}, Fits(calls, s, hi, p),
         calls[Len(calls)].min <= PrecedenceOf(At(s, p)), Infix(At(s, p)) # "none",
         a.fn = "binary", a.operator = At(s, p), b.fn = "precedence", b.value = Pending,
         b.min = PrecedenceOf(At(s, p)) + 1
  PROVE  \E hi2 : Fits(calls2, s, hi2, p + 1)
<1> DEFINE n == Len(calls)
           level == Level(calls[n].min)
           operator == At(s, p)
           below == Below(LevelOf(operator))
<1>1. /\ level \in Nonterminals /\ n \in 1 .. n
      /\ calls[n].min \in {PREC_ASSIGNMENT, PREC_FACTOR, PREC_UNARY}
  BY Innermost
<1>2. operator \in Ops(level)
  BY <1>1, Binds
<1>3. Rest(s, Ops(level), level, p - 1, hi[n])
  BY DEF Fits, Awaits
<1>4. Bounded(s, calls[n], hi[n])
  BY <1>1 DEF Fits
<1>5. hi[n] \in 0 .. Len(s) /\ At(s, hi[n] + 1) \notin Ops(level)
  BY <1>4 DEF Bounded
<1>6. p - 1 # hi[n]
  <2>1. p - 1 = hi[n] => hi[n] + 1 = p
    BY <1>5
  <2> QED BY <1>2, <1>5, <2>1
<1>7. Is(s, level, p + 1, hi[n])
  <2>1. (p - 1) + 2 = p + 1
    OBVIOUS
  <2> QED BY <1>3, <1>6, <2>1 DEF Rest
<1>8. Level(b.min) = below
  <2>1. operator \in {"+", "-", "*", "/", "|"}
    BY DEF Infix
  <2>2. CASE operator \in {"+", "-"}
    <3>1. b.min = 7
      BY <2>2 DEF PrecedenceOf, PREC_TERM
    <3> QED BY <2>2, <3>1 DEF Below, LevelOf, TermOperators, Level, PREC_TERM, PREC_FACTOR
  <2>3. CASE operator \in {"*", "/", "|"}
    <3>1. b.min = 8
      BY <2>3 DEF PrecedenceOf, PREC_FACTOR
    <3> QED BY <2>3, <3>1 DEF Below, LevelOf, TermOperators, Level, PREC_TERM, PREC_FACTOR
  <2> QED BY <2>1, <2>2, <2>3
<1> HIDE DEF level, operator
<1>9. PICK m \in p + 1 .. hi[n] : /\ Is(s, below, p + 1, m) /\ At(s, m + 1) \notin Ops(below)
                                  /\ Rest(s, Ops(level), level, m, hi[n])
  BY <1>1, <1>2, <1>5, <1>7, SecondOperand
<1>10. m \in 0 .. Len(s)
  BY <1>5
<1>11. Bounded(s, a, m) /\ Bounded(s, b, m)
  BY <1>8, <1>9, <1>10 DEF Bounded
<1>12. Closes(s, calls[n], a, hi[n], m) /\ Closes(s, a, b, m, m)
  BY <1>9 DEF Closes, level
<1>13. Awaits(s, b, p + 1, m)
  BY <1>8, <1>9 DEF Awaits
<1> QED BY <1>11, <1>12, <1>13, FitsExtended

\* compiler_parse_precedence returns where the expression ends ...
LEMMA FitsReturn ==
  ASSUME NEW calls, Nests(calls),
         calls[Len(calls)].value # Pending, calls[Len(calls)].fn = "precedence",
         NEW s, Len(s) \in Nat, NEW hi, NEW p \in Nat \ {0}, Fits(calls, s, hi, p),
         calls[Len(calls)].min > PrecedenceOf(At(s, p))
  PROVE  hi[Len(calls)] = p - 1
<1> DEFINE n == Len(calls)
           level == Level(calls[n].min)
<1>1. level \in Nonterminals /\ calls[n].min \in {PREC_ASSIGNMENT, PREC_FACTOR, PREC_UNARY}
  BY Innermost
<1>2. At(s, p) \notin Ops(level)
  BY <1>1, Binds
<1>3. Rest(s, Ops(level), level, p - 1, hi[n])
  BY DEF Fits, Awaits
<1> HIDE DEF level
<1>4. (p - 1) + 1 = p /\ (p - 1) + 2 = p + 1
  OBVIOUS
<1>5. p - 1 = hi[n] \/ (s[p] \in Ops(level) /\ Is(s, level, p + 1, hi[n]))
  BY <1>3, <1>4 DEF Rest
<1>6. ASSUME s[p] \in Ops(level), Is(s, level, p + 1, hi[n]) PROVE FALSE
  <2>1. p + 1 \in 1 .. Len(s)
    BY <1>1, <1>6, NotEmpty
  <2>2. At(s, p) = s[p]
    BY <2>1 DEF At
  <2> QED BY <1>2, <1>6, <2>2
<1> QED BY <1>5, <1>6

\* ... and its caller goes on from there.
LEMMA FitsLeave ==
  ASSUME NEW calls, Nests(calls), NEW calls2, NEW node, node # Pending,
         Resumed(calls, calls2, node), Len(calls2) = Len(calls) - 1,
         calls[Len(calls)].value # Pending, calls[Len(calls)].fn = "precedence",
         NEW s, Len(s) \in Nat, NEW hi, NEW p \in Nat \ {0}, Fits(calls, s, hi, p),
         calls[Len(calls)].min > PrecedenceOf(At(s, p))
  PROVE  Fits(calls2, s, hi, p)
<1> DEFINE n == Len(calls)
           call == calls[n - 1]
<1>1. n > 1
  BY DEF Resumed
<1>2. /\ n - 1 \in 1 .. n - 1 /\ n - 1 \in 1 .. n /\ (n - 1) + 1 = n
      /\ call.fn # "precedence"
  BY <1>1, Innermost
<1>3. hi[n] = p - 1
  BY FitsReturn
<1>4. Closes(s, call, calls[n], hi[n - 1], hi[n])
  <2>1. \A i \in 1 .. n - 1 : Closes(s, calls[i], calls[i + 1], hi[i], hi[i + 1])
    BY DEF Fits
  <2> HIDE DEF n
  <2> QED BY <1>2, <2>1
<1>5. Like(call, calls2[n - 1])
  BY <1>2 DEF Resumed
<1>6. calls2[n - 1].fn = call.fn
  BY <1>5 DEF Like
<1>7. (p - 1) + 1 = p
  OBVIOUS
<1>8. Awaits(s, calls2[n - 1], p, hi[n - 1])
  BY <1>2, <1>3, <1>4, <1>6, <1>7 DEF Closes, Awaits
<1> QED BY <1>8, FitsResumed

\* A call that has got its last operand ends where it is to end; where a group
\* is to end is the parenthesis that closes it.
LEMMA FitsNode ==
  ASSUME NEW calls, Nests(calls), NEW calls2, NEW node, node # Pending,
         Resumed(calls, calls2, node), Len(calls2) = Len(calls) - 1,
         calls[Len(calls)].fn # "precedence",
         NEW s, NEW hi, NEW p \in Nat \ {0}, Fits(calls, s, hi, p),
         NEW p2 \in Nat, IF calls[Len(calls)].fn = "grouping" THEN p2 = p + 1 ELSE p2 = p
  PROVE  Fits(calls2, s, hi, p2)
<1> DEFINE n == Len(calls)
           call == calls[n]
           caller == calls[n - 1]
           level == Level(caller.min)
<1>1. /\ n > 1 /\ n - 1 \in 1 .. n - 1 /\ n - 1 \in 1 .. n /\ (n - 1) + 1 = n /\ n \in 1 .. n
      /\ caller.fn = "precedence"
  BY Innermost
<1>2. hi[n] = p2 - 1
  <2>1. Awaits(s, call, p, hi[n])
    BY DEF Fits
  <2>2. call.fn = "grouping" => hi[n] = p
    BY <2>1 DEF Awaits
  <2>3. call.fn # "grouping" => hi[n] = p - 1
    BY <2>1 DEF Awaits
  <2>4. (p + 1) - 1 = p
    OBVIOUS
  <2> QED BY <2>2, <2>3, <2>4
<1>3. Closes(s, caller, call, hi[n - 1], hi[n])
  <2>1. \A i \in 1 .. n - 1 : Closes(s, calls[i], calls[i + 1], hi[i], hi[i + 1])
    BY DEF Fits
  <2> HIDE DEF n
  <2> QED BY <1>1, <2>1
<1>4. Rest(s, Ops(level), level, p2 - 1, hi[n - 1])
  BY <1>1, <1>2, <1>3 DEF Closes
<1>5. Like(caller, calls2[n - 1]) /\ calls2[n - 1].value = node
  BY <1>1 DEF Resumed
<1>6. calls2[n - 1].fn = "precedence" /\ calls2[n - 1].min = caller.min
  BY <1>1, <1>5 DEF Like
<1>7. Awaits(s, calls2[n - 1], p2, hi[n - 1])
  BY <1>4, <1>5, <1>6 DEF Awaits
<1> QED BY <1>7, FitsResumed

\* The closing parenthesis is there.
LEMMA FitsGroup ==
  ASSUME NEW calls, Nests(calls), calls[Len(calls)].fn = "grouping",
         NEW s, NEW hi, NEW p, Fits(calls, s, hi, p)
  PROVE  At(s, p) = ")"
<1>1. Awaits(s, calls[Len(calls)], p, hi[Len(calls)])
  BY DEF Fits
<1> QED BY <1>1 DEF Awaits

-----------------------------------------------------------------------------
(***************************************************************************)
(* What the steps do to the calls, in these terms.                         *)
(***************************************************************************)
LEMMA LikeFilled ==
  ASSUME NEW call \in Frames, NEW value \in Int
  PROVE  /\ Like(call, [call EXCEPT !.value = value])
         /\ [call EXCEPT !.value = value].value = value
         /\ [call EXCEPT !.value = value] \in Frames
         /\ Like(call, call)
BY DEF Frames, Like

\* A call returns to its caller, or the parsing is over.
LEMMA ReturnResumes ==
  ASSUME ShapeInv, OwnersInv, phase = "parsing", NEW node \in Int, Return(node)
  PROVE  IF Len(frames) = 1 THEN phase' = "parsed" /\ ast' = node
         ELSE /\ phase' = "parsing" /\ Resumed(frames, frames', node)
              /\ Len(frames') = Len(frames) - 1
<1> DEFINE L == Len(frames)
           callers == Front(frames)
<1>1. frames # << >> /\ ast = Null
  BY DEF OwnersInv
<1>2. L \in Nat \ {0} /\ \A i \in 1 .. L : frames[i] \in Frames
  BY <1>1, FrameFacts
<1>3. /\ callers \in Seq(Frames) /\ Len(callers) = L - 1
      /\ \A i \in 1 .. L - 1 : callers[i] = frames[i]
  <2>1. callers = SubSeq(frames, 1, L - 1)
    BY DEF Front
  <2> HIDE DEF callers
  <2>2. 1 \in Int /\ L - 1 \in Int /\ \A i \in 1 .. L - 1 : frames[i] \in Frames
    BY <1>2
  <2> HIDE DEF L
  <2>3. /\ callers \in Seq(Frames)
        /\ Len(callers) = IF 1 <= L - 1 THEN L - 1 - 1 + 1 ELSE 0
        /\ \A i \in 1 .. L - 1 - 1 + 1 : callers[i] = frames[1 + i - 1]
    BY <2>1, <2>2, SubSeqProperties
  <2>4. L - 1 - 1 + 1 = L - 1
    BY <1>2
  <2>5. \A i \in 1 .. L - 1 : 1 + i - 1 = i
    OBVIOUS
  <2>6. Len(callers) = L - 1
    BY <1>2, <2>3
  <2> QED BY <2>3, <2>4, <2>5, <2>6
<1>4. CASE callers = << >>
  <2>1. ast' = node /\ phase' = "parsed"
    BY <1>4 DEF Return
  <2>2. L = 1
    BY <1>2, <1>3, <1>4
  <2> QED BY <2>1, <2>2
<1>5. CASE callers # << >>
  <2> DEFINE new == [callers[L - 1] EXCEPT !.value = node]
  <2>1. frames' = [callers EXCEPT ![L - 1] = new] /\ UNCHANGED <<ast, phase>>
    BY <1>3, <1>5 DEF Return
  <2>2. L - 1 \in 1 .. Len(callers) /\ L # 1
    BY <1>2, <1>3, <1>5, EmptySeq
  <2>3. callers[L - 1] \in Frames /\ new = [frames[L - 1] EXCEPT !.value = node]
        /\ callers[L - 1] = frames[L - 1]
    BY <1>3, <2>2
  <2>4. new \in Frames /\ Like(frames[L - 1], new) /\ new.value = node
    BY <2>3, LikeFilled
  <2> HIDE DEF new, callers
  <2>5. /\ Len(frames') = L - 1
        /\ \A i \in 1 .. L - 1 : frames'[i] = IF i = L - 1 THEN new ELSE callers[i]
    BY <1>3, <2>1, <2>2, <2>4, ExceptSeq
  <2>6. L - 1 \in 1 .. L /\ L - 1 \in 1 .. L - 1 /\ L \in Nat
    BY <1>2, <1>3, <2>2
  <2>7. \A i \in 1 .. L - 1 : Like(frames[i], frames'[i])
    BY <1>3, <2>4, <2>5 DEF Like
  <2>8. frames'[L - 1].value = node
    BY <2>4, <2>5, <2>6
  <2>9. Resumed(frames, frames', node)
    BY <2>5, <2>6, <2>7, <2>8 DEF Resumed
  <2> QED BY <2>1, <2>2, <2>5, <2>9
<1> QED BY <1>4, <1>5

\* The innermost call finds its first operand.
LEMMA LiteralResumes ==
  ASSUME PInv, TreeInv, parse_literal
  PROVE  Resumed(frames, frames', New) /\ Len(frames') = Len(frames)
<1> DEFINE L == Len(frames)
           new == [frames[L] EXCEPT !.value = New]
<1>1. phase = "parsing" /\ frames' = [frames EXCEPT ![L] = new]
  BY DEF parse_literal, AtPrefix
<1>2. ShapeInv /\ Len(heap) \in Nat /\ L \in 1 .. L /\ frames \in Seq(Frames) /\ L \in Nat
  BY <1>1, Acting DEF ShapeInv
<1>3. frames[L] \in Frames /\ New \in Int
  BY <1>2, ElementOfSeq DEF New
<1>4. new \in Frames /\ Like(frames[L], new) /\ new.value = New
  BY <1>3, LikeFilled
<1> HIDE DEF new
<1>5. Len(frames') = L /\ \A i \in 1 .. L : frames'[i] = IF i = L THEN new ELSE frames[i]
  BY <1>1, <1>2, <1>4, ExceptSeq
<1>6. \A i \in 1 .. L : Like(frames[i], frames'[i])
  BY <1>4, <1>5 DEF Like
<1> QED BY <1>2, <1>4, <1>5, <1>6 DEF Resumed

\* Two calls are added to others that are like the ones in progress.
LEMMA TwoExtend ==
  ASSUME NEW calls, NEW base \in Seq(Frames), Len(base) = Len(calls), Len(calls) # 0,
         \A i \in 1 .. Len(calls) : Like(calls[i], base[i]),
         NEW a \in Frames, NEW b \in Frames
  PROVE  Extended(calls, base \o <<a, b>>, a, b)
<1> DEFINE pair == <<a, b>>
           calls2 == base \o pair
           n == Len(base)
<1>1. pair \in Seq(Frames) /\ Len(pair) = 2 /\ pair[1] = a /\ pair[2] = b
  OBVIOUS
<1> HIDE DEF pair
<1>2. /\ Len(calls2) = n + 2 /\ n \in Nat \ {0}
      /\ \A i \in 1 .. n + 2 : calls2[i] = IF i <= n THEN base[i] ELSE pair[i - n]
  <2>1. /\ Len(calls2) = n + Len(pair)
        /\ \A i \in 1 .. n + Len(pair) :
             calls2[i] = IF i <= n THEN base[i] ELSE pair[i - n]
    BY <1>1, ConcatProperties
  <2>2. n \in Nat \ {0}
    OBVIOUS
  <2> HIDE DEF calls2, n
  <2> QED BY <1>1, <2>1, <2>2
<1> HIDE DEF calls2
<1>3. \A i \in 1 .. n : calls2[i] = base[i]
  <2> HIDE DEF n
  <2> QED BY <1>2
<1>4. calls2[n + 1] = a
  <2> HIDE DEF n
  <2>1. n + 1 \in 1 .. n + 2 /\ ~ (n + 1 <= n) /\ (n + 1) - n = 1
    BY <1>2
  <2> QED BY <1>1, <1>2, <2>1
<1>5. calls2[n + 2] = b
  <2> HIDE DEF n
  <2>1. n + 2 \in 1 .. n + 2 /\ ~ (n + 2 <= n) /\ (n + 2) - n = 2
    BY <1>2
  <2> QED BY <1>1, <1>2, <2>1
<1>6. Extended(calls, calls2, a, b)
  BY <1>2, <1>3, <1>4, <1>5 DEF Extended
<1> QED BY <1>6 DEF calls2, pair

\* The fields of the calls that a rule makes.
LEMMA CallFields ==
  ASSUME NEW fn \in {"grouping", "unary", "binary"}, NEW operator \in Tokens,
         NEW first \in Int, NEW min \in Nat
  PROVE  /\ Call(fn, operator, first) \in Frames /\ Precedence(min) \in Frames
         /\ Call(fn, operator, first).fn = fn /\ Call(fn, operator, first).operator = operator
         /\ Call(fn, operator, first).first = first
         /\ Precedence(min).fn = "precedence" /\ Precedence(min).min = min
         /\ Precedence(min).value = Pending
BY DEF Call, Precedence, Frames, Tokens, PREC_NONE, Pending, Null

\* The calls that call_prefix makes.
LEMMA PrefixExtends ==
  ASSUME PInv, TreeInv, call_prefix
  PROVE  LET fn == Prefix(compiler.current)
         IN  Extended(frames, frames', Call(fn, compiler.current, Null),
                      Precedence(IF fn = "unary" THEN PREC_UNARY ELSE PREC_ASSIGNMENT))
<1> DEFINE fn == Prefix(compiler.current)
           min == IF fn = "unary" THEN PREC_UNARY ELSE PREC_ASSIGNMENT
           a == Call(fn, compiler.current, Null)
           b == Precedence(min)
<1>1. phase = "parsing" /\ fn \in {"grouping", "unary"} /\ frames' = frames \o <<a, b>>
  BY DEF call_prefix, AtPrefix
<1>2. /\ frames \in Seq(Frames) /\ Len(frames) # 0 /\ compiler.current \in Tokens
      /\ \A i \in 1 .. Len(frames) : frames[i] \in Frames
  BY <1>1, Acting, ElementOfSeq DEF ShapeInv
<1>3. a \in Frames /\ b \in Frames
  <2>1. min \in Nat /\ Null \in Int
    BY DEF PREC_UNARY, PREC_ASSIGNMENT, Null
  <2> QED BY <1>1, <1>2, <2>1, CallFields
<1> HIDE DEF a, b
<1>4. \A i \in 1 .. Len(frames) : Like(frames[i], frames[i])
  BY DEF Like
<1> QED BY <1>1, <1>2, <1>3, <1>4, TwoExtend DEF a, b

\* The calls that call_infix makes.
LEMMA InfixExtends ==
  ASSUME PInv, TreeInv, call_infix, Infix(compiler.current) # "none"
  PROVE  Extended(frames, frames', Call("binary", compiler.current, Top.value),
                  Precedence(PrecedenceOf(compiler.current) + 1))
<1> DEFINE L == Len(frames)
           hollow == [frames[L] EXCEPT !.value = Pending]
           base == [frames EXCEPT ![L] = hollow]
           a == Call("binary", compiler.current, Top.value)
           b == Precedence(PrecedenceOf(compiler.current) + 1)
<1>1. phase = "parsing" /\ frames' = base \o <<a, b>>
  BY DEF call_infix, AtInfix
<1>2. /\ frames \in Seq(Frames) /\ L # 0 /\ L \in 1 .. L /\ compiler.current \in Tokens
      /\ \A i \in 1 .. L : frames[i] \in Frames
      /\ GoodCall(Top, Len(heap))
  BY <1>1, Acting, ElementOfSeq DEF ShapeInv
<1>3. a \in Frames /\ b \in Frames
  <2>1. Top.value \in Int
    BY <1>2 DEF GoodCall, Frames
  <2>2. PrecedenceOf(compiler.current) + 1 \in Nat
    BY TableEntries
  <2> QED BY <1>2, <2>1, <2>2, CallFields
<1>4. hollow \in Frames /\ Like(frames[L], hollow)
  <2>1. Pending \in Int
    BY DEF Pending
  <2> QED BY <1>2, <2>1, LikeFilled
<1> HIDE DEF a, b, hollow
<1>5. /\ base \in Seq(Frames) /\ Len(base) = L
      /\ \A i \in 1 .. L : base[i] = IF i = L THEN hollow ELSE frames[i]
  BY <1>2, <1>4, ExceptSeq
<1> HIDE DEF base
<1>6. \A i \in 1 .. L : Like(frames[i], base[i])
  BY <1>4, <1>5 DEF Like
<1> QED BY <1>1, <1>2, <1>3, <1>5, <1>6, TwoExtend DEF a, b

-----------------------------------------------------------------------------
\* The tokens that have a rule, whether as a prefix or as an operator or as
\* what closes a group.
Expected == Numbers \cup {"(", ")", "+", "-", "*", "/", "|"}

\* The tokens taken from a source so far, the last being under consideration.
Reads(past, token) ==
  /\ past # << >> /\ token = past[Len(past)]
  /\ \A i \in 1 .. Len(past) - 1 : past[i] \in Expected

\* The nodes of literals say which of the tokens they stand for.
LiteralsFrom(tree, past) ==
  \A n \in 1 .. Len(tree) :
    tree[n].kind = "value" => /\ tree[n].value \in 1 .. Len(past) - 1
                              /\ past[tree[n].value] \in Numbers

\* A source is being compiled and no error was reported.
Flawless == phase \notin {"ready", "done", "crashed"} /\ ~compiler.is_error

ScansInv ==
  Flawless => /\ Reads(scanned, compiler.current)
              /\ LiteralsFrom(heap, scanned)
              /\ phase \notin {"parsing", "parsed"} => Ended(scanned)
-----------------------------------------------------------------------------
\* compiler_advance, when neither it nor its caller reports an error.
LEMMA AdvanceTakes ==
  ASSUME ShapeInv, NEW past \in Seq(TokenTypes \cup {"EOF", "ERROR"}),
         NEW reports \in BOOLEAN, Advance(past, reports),
         compiler.is_panic => compiler.is_error, ~compiler'.is_error
  PROVE  /\ ~compiler.is_error /\ ~reports
         /\ IF Ended(past) THEN scanned' = past /\ compiler'.current = "EOF"
                           ELSE scanned' = Append(past, compiler'.current)
<1>1. PICK token \in Answers(past), bad \in {b \in BOOLEAN : b => MayFail /\ ~Ended(past)} :
        /\ compiler' = [current  |-> token,
                     previous |-> compiler.current,
                     is_panic |-> compiler.is_panic \/ reports \/ bad,
                     is_error |-> \/ compiler.is_error
                                  \/ ~compiler.is_panic /\ (reports \/ bad)]
        /\ scanned' = past \o (IF bad THEN <<"ERROR">> ELSE << >>)
                           \o (IF Ended(past) THEN << >> ELSE <<token>>)
  BY DEF Advance
<1>2. compiler.is_error \in BOOLEAN /\ compiler.is_panic \in BOOLEAN
  BY DEF ShapeInv, Compilers
<1>3. compiler'.current = token
      /\ compiler'.is_error = (compiler.is_error \/ (~compiler.is_panic /\ (reports \/ bad)))
  BY <1>1
<1>4. ~compiler.is_error /\ ~reports /\ ~bad
  BY <1>2, <1>3
<1>5. scanned' = past \o (IF Ended(past) THEN << >> ELSE <<token>>)
  <2>1. past \o << >> = past
    OBVIOUS
  <2> QED BY <1>1, <1>4, <2>1
<1>6. CASE Ended(past)
  <2>1. token = "EOF"
    BY <1>6 DEF Answers
  <2>2. past \o << >> = past
    OBVIOUS
  <2> QED BY <1>3, <1>4, <1>5, <1>6, <2>1, <2>2
<1>7. CASE ~Ended(past)
  <2>1. past \o <<token>> = Append(past, token)
    <3>1. past \in Seq(TokenTypes \cup {"EOF", "ERROR", token})
      OBVIOUS
    <3> QED BY <3>1
  <2> QED BY <1>3, <1>4, <1>5, <1>7, <2>1
<1> QED BY <1>6, <1>7

\* A step that goes to the next token.
LEMMA NextTaken ==
  ASSUME PInv, TreeInv, ErrorsInv, ScansInv, phase = "parsing", NEW reports \in BOOLEAN,
         Advance(scanned, reports), compiler.current \in Expected, ~compiler'.is_error
  PROVE  /\ Flawless /\ ~reports
         /\ Reads(scanned', compiler'.current)
         /\ Len(scanned) \in Nat /\ Len(scanned') = Len(scanned) + 1
         /\ \A i \in 1 .. Len(scanned) : scanned'[i] = scanned[i]
         /\ scanned[Len(scanned)] = compiler.current /\ Len(scanned) \in 1 .. Len(scanned)
         /\ LiteralsFrom(heap, scanned')
<1>1. ShapeInv /\ scanned \in Seq(TokenTypes \cup {"EOF", "ERROR"})
  BY DEF PInv, TreeInv
<1>2. /\ ~compiler.is_error /\ ~reports
      /\ IF Ended(scanned) THEN scanned' = scanned /\ compiler'.current = "EOF"
                           ELSE scanned' = Append(scanned, compiler'.current)
  BY <1>1, AdvanceTakes DEF ErrorsInv
<1>3. Flawless /\ Reads(scanned, compiler.current) /\ LiteralsFrom(heap, scanned)
  BY <1>2 DEF Flawless, ScansInv
<1>4. ~Ended(scanned)
  BY <1>3 DEF Ended, Reads, Last, Expected, Numbers
<1>5. /\ Len(scanned') = Len(scanned) + 1 /\ Len(scanned) \in Nat
      /\ \A i \in 1 .. Len(scanned) : scanned'[i] = scanned[i]
      /\ scanned'[Len(scanned) + 1] = compiler'.current
      /\ Len(scanned) \in 1 .. Len(scanned)
  <2> DEFINE S == TokenTypes \cup {"EOF", "ERROR"} \cup {compiler'.current}
  <2>1. scanned \in Seq(S)
    BY <1>1, SeqMonotonic
  <2>2. compiler'.current \in S
    OBVIOUS
  <2>3. Len(scanned) \in Nat /\ Len(scanned) # 0
    BY <1>1, <1>3, EmptySeq DEF Reads
  <2> HIDE DEF S
  <2> QED BY <1>2, <1>4, <2>1, <2>2, <2>3, AppendProperties
<1>6. Reads(scanned', compiler'.current)
  <2>1. scanned' # << >>
    BY <1>5
  <2>2. \A i \in 1 .. Len(scanned') - 1 : scanned'[i] \in Expected
    <3> TAKE i \in 1 .. Len(scanned') - 1
    <3>1. i \in 1 .. Len(scanned) /\ scanned'[i] = scanned[i]
      BY <1>5
    <3>2. CASE i = Len(scanned)
      BY <1>3, <3>1, <3>2 DEF Reads
    <3>3. CASE i # Len(scanned)
      <4>1. i \in 1 .. Len(scanned) - 1
        BY <1>5, <3>1, <3>3
      <4> QED BY <1>3, <3>1, <4>1 DEF Reads
    <3> QED BY <3>2, <3>3
  <2> QED BY <1>5, <2>1, <2>2 DEF Reads
<1>7. LiteralsFrom(heap, scanned')
  <2> SUFFICES ASSUME NEW n \in 1 .. Len(heap), heap[n].kind = "value"
               PROVE  /\ heap[n].value \in 1 .. Len(scanned') - 1
                      /\ scanned'[heap[n].value] \in Numbers
    BY DEF LiteralsFrom
  <2>1. heap[n].value \in 1 .. Len(scanned) - 1 /\ scanned[heap[n].value] \in Numbers
    BY <1>3 DEF LiteralsFrom
  <2>2. heap[n].value \in 1 .. Len(scanned) /\ heap[n].value \in 1 .. Len(scanned') - 1
    BY <1>5, <2>1
  <2> QED BY <1>5, <2>1, <2>2
<1> QED BY <1>2, <1>3, <1>5, <1>6, <1>7 DEF Reads

\* A token that a rule handles is one of those the parser expects.
LEMMA TakenByRules ==
  \A token : /\ Prefix(token) # "none" => token \in Expected
             /\ Infix(token) # "none" => token \in Expected
             /\ token = ")" => token \in Expected
BY DEF Prefix, Infix, Expected, Numbers

\* A node is added to the tree.
LEMMA NodeTaken ==
  ASSUME ShapeInv, NEW node, Allocate(node), NEW past, LiteralsFrom(heap, past),
         node.kind = "value" => /\ node.value \in 1 .. Len(past) - 1
                                /\ past[node.value] \in Numbers
  PROVE  LiteralsFrom(heap', past)
<1>1. PICK S : heap \in Seq(S)
  BY DEF ShapeInv, IsSequence
<1>2. heap \in Seq(S \cup {node})
  BY <1>1, SeqMonotonic
<1>3. /\ Len(heap') = Len(heap) + 1 /\ Len(heap) \in Nat
      /\ \A i \in 1 .. Len(heap) : heap'[i] = heap[i]
      /\ heap'[Len(heap) + 1] = node
  BY <1>2, HeapFacts, AppendProperties DEF Allocate
<1>4. \A n \in 1 .. Len(heap') : n = Len(heap) + 1 \/ n \in 1 .. Len(heap)
  BY <1>3
<1> QED BY <1>3, <1>4 DEF LiteralsFrom

\* A step that finds or makes the value of a call, and takes no token.
LEMMA NoneTaken ==
  ASSUME PInv, TreeInv, ScansInv, phase = "parsing", UNCHANGED <<compiler, scanned>>,
         phase' \in {"parsing", "parsed"},
         \/ UNCHANGED heap
         \/ \E kind, operator, children, type :
              Allocate(Node(kind, operator, children, type, 0)) /\ kind # "value"
  PROVE  ScansInv'
<1> SUFFICES ASSUME Flawless' PROVE ScansInv'
  BY DEF ScansInv
<1>1. ShapeInv /\ Flawless
  BY DEF PInv, Flawless
<1>2. Reads(scanned, compiler.current) /\ LiteralsFrom(heap, scanned)
  BY <1>1 DEF ScansInv
<1>3. CASE UNCHANGED heap
  BY <1>2, <1>3 DEF ScansInv
<1>4. ASSUME NEW kind, NEW operator, NEW children, NEW type, kind # "value",
             Allocate(Node(kind, operator, children, type, 0))
      PROVE  LiteralsFrom(heap', scanned)
  <2>1. Node(kind, operator, children, type, 0).kind # "value"
    BY <1>4 DEF Node
  <2> QED BY <1>1, <1>2, <1>4, <2>1, NodeTaken
<1> QED BY <1>2, <1>3, <1>4 DEF ScansInv

\* The invariant is kept by every step of the parser.
LEMMA ScansKept == PInv /\ TreeInv /\ ErrorsInv /\ ScansInv /\ [ParserNext]_parserVars => ScansInv'
<1> SUFFICES ASSUME PInv, TreeInv, ErrorsInv, ScansInv, [ParserNext]_parserVars PROVE ScansInv'
  OBVIOUS
<1>0. ShapeInv /\ scanned \in Seq(TokenTypes \cup {"EOF", "ERROR"})
  BY DEF PInv, TreeInv
<1>1. CASE UNCHANGED parserVars
  BY <1>1 DEF parserVars, ScansInv, Flawless
<1>2. CASE compiler_generate_ast
  <2> SUFFICES ASSUME ~compiler'.is_error PROVE ScansInv'
    BY DEF ScansInv, Flawless
  <2>1. Advance(<< >>, FALSE) /\ heap' = << >> /\ phase' = "parsing"
    BY <1>2 DEF compiler_generate_ast
  <2>2. ~Ended(<< >>) /\ << >> \in Seq(TokenTypes \cup {"EOF", "ERROR"})
    BY DEF Ended
  <2>3. scanned' = Append(<< >>, compiler'.current)
    BY <1>0, <2>1, <2>2, AdvanceTakes DEF ErrorsInv
  <2>4. scanned' = <<compiler'.current>>
    BY <2>3
  <2>5. Reads(scanned', compiler'.current) /\ LiteralsFrom(heap', scanned')
    BY <2>1, <2>4 DEF Reads, LiteralsFrom
  <2> QED BY <2>1, <2>5 DEF ScansInv
<1>3. CASE no_prefix
  <2>1. Advance(scanned, TRUE)
    BY <1>3 DEF no_prefix
  <2>2. compiler'.is_error
    BY <1>0, <2>1, AdvanceScans DEF Scans, ErrorsInv
  <2> QED BY <2>2 DEF ScansInv, Flawless
<1>4. CASE parse_literal
  <2> SUFFICES ASSUME ~compiler'.is_error PROVE ScansInv'
    BY DEF ScansInv, Flawless
  <2> DEFINE node == Node("value", "none", << >>, compiler.current, Len(scanned))
  <2>1. /\ phase = "parsing" /\ Advance(scanned, FALSE) /\ Allocate(node) /\ phase' = phase
        /\ Prefix(compiler.current) = "literal"
    BY <1>4 DEF parse_literal, AtPrefix
  <2>2. /\ Reads(scanned', compiler'.current) /\ Len(scanned) \in Nat
        /\ Len(scanned') = Len(scanned) + 1
        /\ \A i \in 1 .. Len(scanned) : scanned'[i] = scanned[i]
        /\ scanned[Len(scanned)] = compiler.current /\ Len(scanned) \in 1 .. Len(scanned)
        /\ LiteralsFrom(heap, scanned')
    BY <2>1, NextTaken, TakenByRules
  <2>3. node.value = Len(scanned)
    BY DEF Node
  <2> HIDE DEF node
  <2>4. compiler.current \in Numbers
    BY <2>1, TableEntries
  <2>5. node.value \in 1 .. Len(scanned') - 1 /\ scanned'[node.value] \in Numbers
    BY <2>2, <2>3, <2>4
  <2>6. LiteralsFrom(heap', scanned')
    BY <1>0, <2>1, <2>2, <2>5, NodeTaken
  <2> QED BY <2>1, <2>2, <2>6 DEF ScansInv
<1>5. CASE call_prefix \/ call_infix
  <2> SUFFICES ASSUME Flawless' PROVE ScansInv'
    BY DEF ScansInv
  <2>1. /\ phase = "parsing" /\ Advance(scanned, FALSE) /\ UNCHANGED heap
        /\ Prefix(compiler.current) # "none" \/ Infix(compiler.current) # "none"
        /\ phase' = phase
    BY <1>5 DEF call_prefix, call_infix, AtPrefix, AtInfix, Flawless
  <2>2. Reads(scanned', compiler'.current) /\ LiteralsFrom(heap, scanned')
    BY <2>1, NextTaken, TakenByRules DEF Flawless
  <2> QED BY <2>1, <2>2 DEF ScansInv
<1>6. CASE leave_precedence \/ parse_unary \/ parse_binary
  <2>1. /\ phase = "parsing" /\ UNCHANGED <<compiler, scanned>>
        /\ \/ UNCHANGED heap
           \/ \E kind, operator, children, type :
                Allocate(Node(kind, operator, children, type, 0)) /\ kind # "value"
    BY <1>6 DEF leave_precedence, parse_unary, parse_binary, AtInfix, Returned
  <2>2. phase' \in {"parsing", "parsed"}
    <3>1. \E node : Return(node)
      BY <1>6 DEF leave_precedence, parse_unary, parse_binary
    <3> QED BY <2>1, <3>1 DEF Return
  <2> QED BY <2>1, <2>2, NoneTaken
<1>7. CASE parse_grouping
  <2> SUFFICES ASSUME Flawless' PROVE ScansInv'
    BY DEF ScansInv
  <2> DEFINE node == Node("grouping", "none", <<Top.value>>, "unknown", 0)
  <2>1. phase = "parsing" /\ Consume(")") /\ Allocate(node) /\ Return(New)
    BY <1>7 DEF parse_grouping, Returned
  <2>2. compiler.current = ")" /\ Advance(scanned, FALSE)
    <3>1. ~Report
      BY <1>0 DEF Report, Flawless, ErrorsInv, ShapeInv, Compilers
    <3> QED BY <2>1, <3>1 DEF Consume
  <2>3. Reads(scanned', compiler'.current) /\ LiteralsFrom(heap, scanned')
    BY <2>1, <2>2, NextTaken, TakenByRules DEF Flawless
  <2>4. node.kind # "value"
    BY DEF Node
  <2> HIDE DEF node
  <2>5. LiteralsFrom(heap', scanned')
    BY <1>0, <2>1, <2>3, <2>4, NodeTaken
  <2>6. phase' \in {"parsing", "parsed"}
    BY <2>1 DEF Return
  <2> QED BY <2>3, <2>5, <2>6 DEF ScansInv
<1>8. CASE consume_eof
  <2> SUFFICES ASSUME Flawless' PROVE ScansInv'
    BY DEF ScansInv
  <2>1. phase = "parsed" /\ Consume("EOF") /\ UNCHANGED heap
    BY <1>8 DEF consume_eof
  <2>2. compiler.current = "EOF" /\ Advance(scanned, FALSE)
    <3>1. ~Report
      BY <1>0 DEF Report, Flawless, ErrorsInv, ShapeInv, Compilers
    <3> QED BY <2>1, <3>1 DEF Consume
  <2>3. /\ ~compiler.is_error
        /\ IF Ended(scanned) THEN scanned' = scanned /\ compiler'.current = "EOF"
                             ELSE scanned' = Append(scanned, compiler'.current)
    BY <1>0, <2>2, AdvanceTakes DEF ErrorsInv, Flawless
  <2>4. Reads(scanned, compiler.current) /\ LiteralsFrom(heap, scanned)
    BY <2>1, <2>3 DEF ScansInv, Flawless
  <2>5. Ended(scanned)
    BY <2>2, <2>4 DEF Reads, Ended, Last
  <2> QED BY <2>1, <2>2, <2>3, <2>4, <2>5 DEF ScansInv
<1>9. CASE print
  <2>1. /\ phase \in {"print untyped", "print typed"} /\ UNCHANGED <<compiler, scanned, heap>>
        /\ phase' \in {"crashed", "typecheck", "free"}
    BY <1>9 DEF print
  <2> QED BY <2>1 DEF ScansInv, Flawless
<1>10. CASE typecheck
  <2>1. phase = "typecheck" /\ UNCHANGED <<compiler, scanned>>
    BY <1>10 DEF typecheck
  <2>2. PICK type : /\ Len(heap') = Len(heap)
                    /\ \A n \in 1 .. Len(heap) : heap'[n] = [heap[n] EXCEPT !.type = type[n]]
    BY <1>10, TypesWritten
  <2>3. \A n \in 1 .. Len(heap) : heap[n] \in Nodes
    BY DEF TreeInv, GoodNode
  <2>4. \A n \in 1 .. Len(heap) : heap'[n].kind = heap[n].kind /\ heap'[n].value = heap[n].value
    BY <2>2, <2>3 DEF Nodes
  <2>5. LiteralsFrom(heap, scanned) => LiteralsFrom(heap', scanned)
    BY <2>2, <2>4 DEF LiteralsFrom
  <2> QED BY <2>1, <2>5 DEF ScansInv, Flawless
<1>11. CASE free \/ compiler_init
  <2>1. phase' \in {"done", "ready"}
    BY <1>11 DEF free, compiler_init
  <2> QED BY <2>1 DEF ScansInv, Flawless
<1> QED BY <1>1, <1>2, <1>3, <1>4, <1>5, <1>6, <1>7, <1>8, <1>9, <1>10, <1>11
        DEF ParserNext, ParserStep
-----------------------------------------------------------------------------
(***************************************************************************)
(* Meaning(tree, f) says that f gives the trees of the nodes.              *)
(***************************************************************************)
Build(tree, f, n) ==
  LET it == tree[n]
  IN  CASE it.kind = "value"    -> Leaf(it.type, it.value)
        [] it.kind = "unary"    -> Unary(it.operator, f[it.children[1]])
        [] it.kind = "grouping" -> Grouping(f[it.children[1]])
        [] OTHER                -> Binary(it.operator, f[it.children[1]], f[it.children[2]])

Meaning(tree, f) == \A n \in 1 .. Len(tree) : f[n] = Build(tree, f, n)

\* The tree of a node is made of those of its children only.
LEMMA BuildLocal ==
  ASSUME NEW tree, WholeTree(tree), NEW n \in 1 .. Len(tree), NEW f, NEW g,
         \A i \in 1 .. n - 1 : f[i] = g[i]
  PROVE  Build(tree, f, n) = Build(tree, g, n)
<1> DEFINE c == tree[n].children
<1>1. \A k \in 1 .. Len(c) : c[k] \in 1 .. n - 1
  <2>1. \A k \in 1 .. Len(c) : c[k] \in 0 .. n - 1 /\ c[k] # 0
    BY ChildrenOlder DEF WholeTree, Null
  <2>2. n \in Nat
    BY DEF WholeTree, Ordered
  <2> QED BY <2>1, <2>2
<1>2. \/ tree[n].kind = "value" /\ Len(c) = 0
      \/ tree[n].kind \in {"unary", "grouping"} /\ Len(c) = 1
      \/ tree[n].kind = "binary" /\ Len(c) = 2
  BY DEF WholeTree
<1> HIDE DEF c
<1>3. \A k \in 1 .. Len(c) : f[c[k]] = g[c[k]]
  BY <1>1
<1>4. tree[n].kind # "value" => f[c[1]] = g[c[1]]
  BY <1>2, <1>3
<1>5. ASSUME tree[n].kind = "binary" PROVE f[c[2]] = g[c[2]]
  <2>1. Len(c) = 2
    BY <1>2, <1>5
  <2>2. 2 \in 1 .. Len(c)
    BY <2>1
  <2> QED BY <1>3, <2>2
<1> QED BY <1>2, <1>4, <1>5 DEF Build, c

\* There is a function that satisfies the equation of TreeOf.
LEMMA MeaningExists ==
  ASSUME NEW tree, WholeTree(tree)
  PROVE  \E f : f = [n \in 1 .. Len(tree) |-> Build(tree, f, n)]
<1> DEFINE H == Len(tree)
           T == {n \in 0 .. H : \E f : \A i \in 1 .. n : f[i] = Build(tree, f, i)}
<1>0. H \in Nat
  BY DEF WholeTree, Ordered
<1>1. 0 \in T
  <2>1. \A i \in 1 .. 0 : <<>>[i] = Build(tree, <<>>, i)
    OBVIOUS
  <2> QED BY <1>0, <2>1
<1>2. ASSUME NEW n \in 0 .. H - 1, n \in T PROVE n + 1 \in T
  <2>1. PICK f : \A i \in 1 .. n : f[i] = Build(tree, f, i)
    BY <1>2
  <2> DEFINE g == [i \in 1 .. n + 1 |-> IF i = n + 1 THEN Build(tree, f, i) ELSE f[i]]
  <2>2. \A i \in 1 .. n : g[i] = f[i]
    BY <1>0
  <2>3. g[n + 1] = Build(tree, f, n + 1)
    BY <1>0
  <2> HIDE DEF g
  <2>4. ASSUME NEW i \in 1 .. n + 1 PROVE g[i] = Build(tree, g, i)
    <3>1. i \in 1 .. H /\ \A j \in 1 .. i - 1 : j \in 1 .. n
      BY <1>0
    <3>2. Build(tree, g, i) = Build(tree, f, i)
      BY <2>2, <3>1, BuildLocal
    <3>3. i = n + 1 \/ i \in 1 .. n
      BY <1>0
    <3> QED BY <2>1, <2>2, <2>3, <3>2, <3>3
  <2>5. n + 1 \in 0 .. H
    BY <1>0
  <2> QED BY <2>4, <2>5
<1>3. H \in T
  <2> HIDE DEF T
  <2>1. \A i \in 0 .. H : i \in T
    BY <1>0, <1>1, <1>2, UpTo
  <2> QED BY <1>0, <2>1
<1>4. PICK f : \A i \in 1 .. H : f[i] = Build(tree, f, i)
  BY <1>3
<1> DEFINE tree2 == [n \in 1 .. H |-> f[n]]
<1>5. ASSUME NEW n \in 1 .. H PROVE tree2[n] = Build(tree, tree2, n)
  <2>1. \A i \in 1 .. n - 1 : i \in 1 .. H
    BY <1>0
  <2>2. \A i \in 1 .. n - 1 : f[i] = tree2[i]
    BY <2>1
  <2> HIDE DEF tree2
  <2>3. Build(tree, f, n) = Build(tree, tree2, n)
    BY <2>2, BuildLocal
  <2> QED BY <1>4, <2>3 DEF tree2
<1>6. tree2 = [n \in 1 .. H |-> tree2[n]]
  OBVIOUS
<1> HIDE DEF tree2
<1>7. tree2 = [n \in 1 .. H |-> Build(tree, tree2, n)]
  BY <1>5, <1>6
<1> QED BY <1>7

\* TreeOf is one.
LEMMA TreesMean ==
  ASSUME WholeTree(heap)
  PROVE  \E f : Meaning(heap, f) /\ \A n : TreeOf(n) = f[n]
<1> DEFINE Eqn(f) == f = [n \in 1 .. Len(heap) |-> Build(heap, f, n)]
           t == CHOOSE f : Eqn(f)
<1>1. Eqn(t)
  <2>1. \E f : Eqn(f)
    BY MeaningExists
  <2> HIDE DEF Eqn
  <2> QED BY <2>1
<1>2. \A n : TreeOf(n) = t[n]
  BY Zenon DEF TreeOf, Build
<1>3. \A n \in 1 .. Len(heap) : t[n] = Build(heap, t, n)
  <2> HIDE DEF t
  <2> QED BY <1>1
<1> QED BY <1>2, <1>3 DEF Meaning

\* A node is added.
LEMMA NodeMeans ==
  ASSUME ShapeInv, NEW node, Allocate(node), NEW f, Meaning(heap', f)
  PROVE  /\ Meaning(heap, f)
         /\ f[New] = CASE node.kind = "value"    -> Leaf(node.type, node.value)
                       [] node.kind = "unary"    -> Unary(node.operator, f[node.children[1]])
                       [] node.kind = "grouping" -> Grouping(f[node.children[1]])
                       [] OTHER -> Binary(node.operator, f[node.children[1]], f[node.children[2]])
<1>1. PICK S : heap \in Seq(S)
  BY DEF ShapeInv, IsSequence
<1>2. heap \in Seq(S \cup {node})
  BY <1>1, SeqMonotonic
<1>3. /\ Len(heap') = Len(heap) + 1 /\ Len(heap) \in Nat
      /\ \A i \in 1 .. Len(heap) : heap'[i] = heap[i]
      /\ heap'[Len(heap) + 1] = node
  BY <1>2, HeapFacts, AppendProperties DEF Allocate
<1>4. \A n \in 1 .. Len(heap) : n \in 1 .. Len(heap')
  BY <1>3
<1>5. Meaning(heap, f)
  BY <1>3, <1>4 DEF Meaning, Build
<1>6. New \in 1 .. Len(heap') /\ heap'[New] = node
  BY <1>3 DEF New
<1>7. f[New] = Build(heap', f, New)
  BY <1>6 DEF Meaning
<1> QED BY <1>5, <1>6, <1>7 DEF Build

-----------------------------------------------------------------------------
\* The sources that begin with the tokens scanned so far; the end of the
\* source may be one of them.
Extends(s, past) ==
  /\ Len(s) \in Nat /\ \A i \in 1 .. Len(s) : s[i] # "EOF"
  /\ Len(past) <= Len(s) + 1
  /\ \A i \in 1 .. Len(past) : past[i] = At(s, i)

\* None of them is an expression.
Doomed(past) == \A s : Extends(s, past) => Derivations(s) = {}

\* One more token, or several.
Grows(past, past2) ==
  /\ Len(past) \in Nat /\ Len(past2) \in Nat /\ Len(past) <= Len(past2)
  /\ \A i \in 1 .. Len(past) : past2[i] = past[i]

\* What begins with more tokens begins with fewer.
LEMMA ExtendsLess ==
  ASSUME NEW past, NEW past2, Grows(past, past2)
  PROVE  /\ \A s : Extends(s, past2) => Extends(s, past)
         /\ Doomed(past) => Doomed(past2)
<1>1. ASSUME NEW s, Extends(s, past2) PROVE Extends(s, past)
  <2>1. \A i \in 1 .. Len(past) : i \in 1 .. Len(past2)
    BY DEF Grows
  <2>2. Len(past) <= Len(s) + 1
    BY <1>1 DEF Extends, Grows
  <2> QED BY <1>1, <2>1, <2>2 DEF Extends, Grows
<1> QED BY <1>1 DEF Doomed

\* That a source is an expression.
LEMMA Expressions ==
  ASSUME NEW s, Len(s) \in Nat
  PROVE  /\ Derivations(s) # {} <=> Is(s, "term", 1, Len(s))
         /\ \A tree : Yields(s, "term", 1, Len(s), tree) => tree \in Derivations(s)
<1>1. Piece(s, 1, Len(s))
  BY DEF Piece
<1> QED BY <1>1, DerivationsAre DEF Is, Yields

\* So tokens are no expression with one that is not of the grammar.
LEMMA NoOthers ==
  ASSUME NEW s, Len(s) \in Nat, NEW i \in 1 .. Len(s), s[i] \notin Terminals
  PROVE  Derivations(s) = {}
<1> SUFFICES ASSUME Derivations(s) # {} PROVE FALSE
  OBVIOUS
<1>1. Is(s, "term", 1, Len(s))
  BY Expressions
<1>2. "term" \in Nonterminals /\ 1 \in 1 .. Len(s) + 1 /\ Len(s) \in 0 .. Len(s)
  BY DEF Nonterminals
<1>3. Clean(s, 1, Len(s))
  BY <1>1, <1>2, OnlyTerminals
<1> QED BY <1>3 DEF Clean

\* Nor are those that begin with an error.
LEMMA ErrorsDoom ==
  ASSUME NEW past, NEW i \in 1 .. Len(past), past[i] = "ERROR"
  PROVE  Doomed(past)
<1> SUFFICES ASSUME NEW s, Extends(s, past) PROVE Derivations(s) = {}
  BY DEF Doomed
<1>1. At(s, i) = "ERROR" /\ Len(s) \in Nat
  BY DEF Extends
<1>2. i \in 1 .. Len(s) /\ s[i] = "ERROR"
  BY <1>1 DEF At
<1>3. "ERROR" \notin Terminals
  BY DEF Terminals, Literals, TermOperators, FactorOperators
<1> QED BY <1>1, <1>2, <1>3, NoOthers

\* What compiler_advance makes of the tokens: an error and a token, or none.
Lengthened(past, errors, more, past2) ==
  /\ Grows(past, past2)
  /\ errors # << >> => past2[Len(past) + 1] = "ERROR" /\ Len(past) + 1 \in 1 .. Len(past2)
  /\ \A i \in 1 .. Len(past2) - 1 :
       i \in 1 .. Len(past) - 1 \/ (i = Len(past) /\ more # << >>) \/ past2[i] = "ERROR"
  /\ more = << >> => past2 = past
  /\ more # << >> => Len(past2) > 0

\* They are appended to the tokens, and all but the last are errors.
LEMMA TokensAppended ==
  ASSUME NEW past \in Seq(TokenTypes \cup {"EOF", "ERROR"}),
         NEW token \in TokenTypes \cup {"EOF", "ERROR"},
         NEW errors \in {<< >>, <<"ERROR">>}, NEW more \in {<< >>, <<token>>},
         errors # << >> => more # << >>,
         NEW past2, past2 = past \o errors \o more
  PROVE  Lengthened(past, errors, more, past2)
<1> DEFINE S == TokenTypes \cup {"EOF", "ERROR"}
<1>0. past \in Seq(S) /\ "ERROR" \in S /\ token \in S /\ Len(past) \in Nat
  OBVIOUS
<1> HIDE DEF S
<1>1. past \o << >> = past /\ \A x : Append(past, x) \o << >> = Append(past, x)
  <2>1. past \o << >> = past
    BY <1>0
  <2>2. ASSUME NEW x PROVE Append(past, x) \o << >> = Append(past, x)
    <3>1. Append(past, x) \in Seq(S \cup {x})
      BY <1>0
    <3> QED BY <3>1
  <2> QED BY <2>1, <2>2
<1>2. \A q \in Seq(S) : \A x \in S : q \o <<x>> = Append(q, x)
  OBVIOUS
<1>3. \A q \in Seq(S) : \A x \in S :
        /\ Append(q, x) \in Seq(S) /\ Len(q) \in Nat
        /\ Len(Append(q, x)) = Len(q) + 1
        /\ \A i \in 1 .. Len(q) : Append(q, x)[i] = q[i]
        /\ Append(q, x)[Len(q) + 1] = x
  BY AppendProperties
<1>4. CASE more = << >>
  <2>1. past2 = past
    BY <1>1, <1>4
  <2>2. Grows(past, past)
    BY <1>0 DEF Grows
  <2> QED BY <1>4, <2>1, <2>2 DEF Lengthened
<1>5. CASE more = <<token>> /\ errors = << >>
  <2>1. past2 = Append(past, token)
    BY <1>0, <1>1, <1>2, <1>5
  <2>2. /\ Len(Append(past, token)) = Len(past) + 1
        /\ \A i \in 1 .. Len(past) : Append(past, token)[i] = past[i]
        /\ Append(past, token)[Len(past) + 1] = token
    BY <1>0, <1>3
  <2>3. Grows(past, Append(past, token))
    BY <1>0, <2>2 DEF Grows
  <2>4. \A i \in 1 .. (Len(past) + 1) - 1 : i \in 1 .. Len(past) - 1 \/ i = Len(past)
    BY <1>0
  <2>5. Len(past) + 1 > 0
    BY <1>0
  <2> QED BY <1>5, <2>1, <2>2, <2>3, <2>4, <2>5 DEF Lengthened
<1>6. CASE more = <<token>> /\ errors = <<"ERROR">>
  <2> DEFINE q == Append(past, "ERROR")
             r == Append(q, token)
  <2>1. q \in Seq(S) /\ Len(q) = Len(past) + 1 /\ q[Len(past) + 1] = "ERROR"
        /\ \A i \in 1 .. Len(past) : q[i] = past[i]
    BY <1>0, <1>3
  <2>2. past2 = r
    <3>1. past \o <<"ERROR">> = q
      BY <1>0, <1>2
    <3> HIDE DEF q
    <3>2. q \o <<token>> = Append(q, token)
      BY <1>0, <1>2, <2>1
    <3> QED BY <1>6, <3>1, <3>2
  <2> HIDE DEF q
  <2>3. /\ Len(r) = Len(q) + 1 /\ \A i \in 1 .. Len(q) : r[i] = q[i]
        /\ r[Len(q) + 1] = token
    BY <1>0, <1>3, <2>1
  <2> HIDE DEF r
  <2>4. /\ Len(r) = Len(past) + 2 /\ r[Len(past) + 1] = "ERROR" /\ r[Len(r)] = token
        /\ \A i \in 1 .. Len(past) : r[i] = past[i]
    <3>1. \A i \in 1 .. Len(past) : i \in 1 .. Len(q)
      BY <1>0, <2>1
    <3>2. Len(past) + 1 \in 1 .. Len(q)
      BY <1>0, <2>1
    <3> QED BY <1>0, <2>1, <2>3, <3>1, <3>2
  <2>5. Grows(past, r)
    BY <1>0, <2>4 DEF Grows
  <2>6. \A i \in 1 .. (Len(past) + 2) - 1 :
          i \in 1 .. Len(past) - 1 \/ i = Len(past) \/ i = Len(past) + 1
    BY <1>0
  <2>7. Len(past) + 1 \in 1 .. Len(past) + 2 /\ Len(past) + 2 > 0
    BY <1>0
  <2> QED BY <1>6, <2>2, <2>4, <2>5, <2>6, <2>7 DEF Lengthened
<1> QED BY <1>4, <1>5, <1>6

\* So the end of the source is scanned last, and an error of the lexer, which
\* is reported, shows in the tokens.
NoneBehindEnd(past) == \A i \in 1 .. Len(past) - 1 : past[i] # "EOF"

\* compiler_advance keeps the tokens and appends to them.
LEMMA AdvanceGrows ==
  ASSUME ShapeInv, NEW past \in Seq(TokenTypes \cup {"EOF", "ERROR"}), NoneBehindEnd(past),
         NEW reports \in BOOLEAN, Advance(past, reports)
  PROVE  /\ Grows(past, scanned') /\ NoneBehindEnd(scanned')
         /\ Ended(past) => scanned' = past
         /\ compiler.is_error => compiler'.is_error
         /\ compiler'.is_error => compiler.is_error \/ reports \/ Doomed(scanned')
<1>1. PICK token \in Answers(past), bad \in {b \in BOOLEAN : b => MayFail /\ ~Ended(past)} :
        /\ compiler' = [current  |-> token,
                     previous |-> compiler.current,
                     is_panic |-> compiler.is_panic \/ reports \/ bad,
                     is_error |-> \/ compiler.is_error
                                  \/ ~compiler.is_panic /\ (reports \/ bad)]
        /\ scanned' = past \o (IF bad THEN <<"ERROR">> ELSE << >>)
                           \o (IF Ended(past) THEN << >> ELSE <<token>>)
  BY DEF Advance
<1>2. token \in TokenTypes \cup {"EOF", "ERROR"} /\ bad \in BOOLEAN /\ (bad => ~Ended(past))
      /\ Ended(past) \in BOOLEAN
  BY <1>1 DEF Answers, Ended
<1>3. compiler'.is_error = (compiler.is_error \/ (~compiler.is_panic /\ (reports \/ bad)))
  BY <1>1
<1>4. /\ Grows(past, scanned')
      /\ bad => scanned'[Len(past) + 1] = "ERROR" /\ Len(past) + 1 \in 1 .. Len(scanned')
      /\ \A i \in 1 .. Len(scanned') - 1 :
           i \in 1 .. Len(past) - 1 \/ (i = Len(past) /\ ~Ended(past)) \/ scanned'[i] = "ERROR"
      /\ Ended(past) => scanned' = past
  <2> DEFINE errors == IF bad THEN <<"ERROR">> ELSE << >>
             more   == IF Ended(past) THEN << >> ELSE <<token>>
  <2>1. scanned' = past \o errors \o more
    BY <1>1
  <2>2. /\ errors \in {<< >>, <<"ERROR">>} /\ more \in {<< >>, <<token>>}
        /\ bad <=> errors # << >>
        /\ Ended(past) <=> more = << >>
    OBVIOUS
  <2>3. errors # << >> => more # << >>
    BY <1>2, <2>2
  <2> HIDE DEF errors, more
  <2>4. Lengthened(past, errors, more, scanned')
    BY <1>2, <2>1, <2>2, <2>3, TokensAppended
  <2> QED BY <2>2, <2>4 DEF Lengthened
<1>5. NoneBehindEnd(scanned')
  <2> SUFFICES ASSUME NEW i \in 1 .. Len(scanned') - 1 PROVE scanned'[i] # "EOF"
    BY DEF NoneBehindEnd
  <2>1. CASE i \in 1 .. Len(past) - 1
    <3>1. i \in 1 .. Len(past)
      BY <2>1
    <3> QED BY <1>4, <2>1, <3>1 DEF Grows, NoneBehindEnd
  <2>2. CASE i = Len(past) /\ ~Ended(past)
    <3>1. i \in 1 .. Len(past) /\ past # << >>
      BY <2>2
    <3>2. past[i] # "EOF"
      BY <2>2, <3>1 DEF Ended, Last
    <3> QED BY <1>4, <3>1, <3>2 DEF Grows
  <2> QED BY <1>4, <2>1, <2>2
<1>6. bad => Doomed(scanned')
  BY <1>4, ErrorsDoom
<1>7. compiler.is_error \in BOOLEAN
  BY DEF ShapeInv, Compilers
<1> QED BY <1>3, <1>4, <1>5, <1>6, <1>7

-----------------------------------------------------------------------------
(***************************************************************************)
(* What the parser knows of the sources that begin with the tokens it has  *)
(* taken: whatever their rest is, the calls in progress hold what they     *)
(* have parsed, and if one of them is an expression, then a derivation of  *)
(* it goes on from where the calls are.                                    *)
(***************************************************************************)
Parses(calls, tree, past) ==
  \A s : Extends(s, past) =>
    /\ \A f : Meaning(tree, f) => \E lo : Sound(calls, s, f, lo, Len(past))
    /\ Is(s, "term", 1, Len(s)) => \E hi : Fits(calls, s, hi, Len(past))

Parsed(root, tree, past) ==
  \A s : Extends(s, past) =>
    /\ \A f : Meaning(tree, f) => Yields(s, "term", 1, Len(past) - 1, f[root])
    /\ Is(s, "term", 1, Len(s)) => Len(s) = Len(past) - 1

Derived(root, tree, past) ==
  \A f : Meaning(tree, f) => f[root] \in Derivations(Front(past))

VerdictInv ==
  /\ phase = "parsing" => Nests(frames)
  /\ NoneBehindEnd(scanned)
  /\ phase # "ready" /\ reused => compiler.is_error
  /\ phase = "parsing" /\ ~compiler.is_error => Parses(frames, heap, scanned)
  /\ phase = "parsed" /\ ~compiler.is_error => Parsed(ast, heap, scanned)
  /\ phase \in {"print untyped", "typecheck"} /\ ~compiler.is_error =>
       Derived(ast, heap, scanned)
  /\ phase \in {"print untyped", "typecheck", "print typed", "free", "done"}
       /\ ~compiler.is_error => Ended(scanned) /\ Derivations(Source) # {}
  /\ phase # "ready" /\ compiler.is_error /\ ~reused => Doomed(scanned)

\* All that is known of the parser.
ParserInv == PInv /\ TreeInv /\ ErrorsInv /\ ScansInv /\ VerdictInv

\* The token under consideration is that of the source.
LEMMA Position ==
  ASSUME ParserInv, Flawless, NEW s, Extends(s, scanned)
  PROVE  /\ Len(s) \in Nat /\ Len(scanned) \in Nat \ {0}
         /\ At(s, Len(scanned)) = compiler.current
<1>1. scanned \in Seq(TokenTypes \cup {"EOF", "ERROR"}) /\ Reads(scanned, compiler.current)
  BY DEF ParserInv, TreeInv, ScansInv
<1>2. Len(scanned) \in Nat \ {0}
  BY <1>1, EmptySeq DEF Reads
<1>3. Len(scanned) \in 1 .. Len(scanned)
  BY <1>2
<1> QED BY <1>1, <1>2, <1>3 DEF Extends, Reads

\* After one more token.
LEMMA NextPosition ==
  ASSUME ParserInv, phase = "parsing", Advance(scanned, FALSE), compiler.current \in Expected,
         ~compiler'.is_error, NEW s, Extends(s, scanned')
  PROVE  /\ Flawless /\ Parses(frames, heap, scanned) /\ Extends(s, scanned)
         /\ Len(scanned') = Len(scanned) + 1
         /\ Len(s) \in Nat /\ Len(scanned) \in Nat \ {0}
         /\ At(s, Len(scanned)) = compiler.current
<1>1. /\ Flawless /\ Len(scanned) \in Nat /\ Len(scanned') = Len(scanned) + 1
      /\ \A i \in 1 .. Len(scanned) : scanned'[i] = scanned[i]
  BY NextTaken DEF ParserInv
<1>2. Grows(scanned, scanned')
  BY <1>1 DEF Grows
<1>3. Extends(s, scanned)
  BY <1>2, ExtendsLess
<1>4. Parses(frames, heap, scanned)
  BY <1>1 DEF ParserInv, VerdictInv, Flawless
<1> QED BY <1>1, <1>3, <1>4, Position

\* The calls nest.
LEMMA NestsKept ==
  ASSUME ParserInv, ParserNext, phase' = "parsing"
  PROVE  Nests(frames')
<1>1. CASE compiler_generate_ast
  <2>1. frames' = <<Precedence(PREC_ASSIGNMENT)>>
    BY <1>1 DEF compiler_generate_ast
  <2>2. Precedence(PREC_ASSIGNMENT).fn = "precedence"
        /\ Precedence(PREC_ASSIGNMENT).min = PREC_ASSIGNMENT
    BY DEF Precedence, Call
  <2> QED BY <2>1, <2>2 DEF Nests
<1>2. phase = "parsing" => /\ Nests(frames) /\ PInv /\ TreeInv /\ ShapeInv /\ OwnersInv
                           /\ Top = frames[Len(frames)] /\ Top \in Frames
                           /\ Top.value \in Int
                           /\ New \in Int /\ New # Pending /\ Null \in Int /\ Null # Pending
  <2> SUFFICES ASSUME phase = "parsing" PROVE /\ New \in Int /\ New # Pending
                                              /\ Top = frames[Len(frames)] /\ Top \in Frames
                                              /\ PInv /\ ShapeInv /\ OwnersInv
    BY DEF ParserInv, VerdictInv, Frames, Null, Pending
  <2>1. Len(heap) \in Nat
    BY Acting DEF ParserInv
  <2> QED BY <2>1, ParsingFacts DEF ParserInv, New, Pending
<1>3. ASSUME phase = "parsing", NEW node \in Int, node # Pending, Return(node)
      PROVE  Nests(frames')
  <2>1. Resumed(frames, frames', node)
    BY <1>2, <1>3, ReturnResumes DEF ParserInv
  <2> QED BY <1>2, <1>3, <2>1, NestsResumed
<1>4. CASE no_prefix \/ leave_precedence \/ parse_grouping \/ parse_unary \/ parse_binary
  <2>1. phase = "parsing" /\ \E node \in Int : node # Pending /\ Return(node)
    BY <1>2, <1>4 DEF no_prefix, leave_precedence, parse_grouping, parse_unary, parse_binary,
                      AtPrefix, AtInfix, Returned
  <2> QED BY <1>3, <2>1
<1>5. CASE parse_literal
  <2>1. phase = "parsing"
    BY <1>5 DEF parse_literal, AtPrefix
  <2>2. Resumed(frames, frames', New)
    BY <1>2, <1>5, <2>1, LiteralResumes
  <2> QED BY <1>2, <2>1, <2>2, NestsResumed
<1>6. CASE call_prefix
  <2> DEFINE fn == Prefix(compiler.current)
             a  == Call(fn, compiler.current, Null)
             min == IF fn = "unary" THEN PREC_UNARY ELSE PREC_ASSIGNMENT
             b  == Precedence(min)
  <2>1. phase = "parsing" /\ Top.fn = "precedence" /\ fn \in {"grouping", "unary"}
    BY <1>6 DEF call_prefix, AtPrefix
  <2>2. Extended(frames, frames', a, b)
    BY <1>2, <1>6, <2>1, PrefixExtends
  <2>3. /\ a.fn = fn /\ b.fn = "precedence" /\ b.min = min
        /\ min \in {PREC_ASSIGNMENT, PREC_FACTOR, PREC_UNARY}
    BY DEF Call, Precedence
  <2>4. Level(min) = IF fn = "unary" THEN "unary" ELSE "term"
    BY DEF Level, PREC_UNARY, PREC_ASSIGNMENT, PREC_TERM, PREC_FACTOR
  <2> HIDE DEF a, b, fn, min
  <2>5. Nested(frames[Len(frames)], a)
    BY <1>2, <2>1, <2>3 DEF Nested
  <2>6. Nested(a, b)
    BY <2>1, <2>3, <2>4 DEF Nested, Operand
  <2>7. a.fn \in {"grouping", "unary", "binary"}
        /\ b.min \in {PREC_ASSIGNMENT, PREC_FACTOR, PREC_UNARY}
        /\ frames[Len(frames)].fn = "precedence"
    BY <1>2, <2>1, <2>3
  <2> QED BY <1>2, <2>1, <2>2, <2>5, <2>6, <2>7, NestsExtended
<1>7. CASE call_infix
  <2> DEFINE token == compiler.current
             a == Call("binary", token, Top.value)
             min == PrecedenceOf(token) + 1
             b == Precedence(min)
  <2>1. /\ phase = "parsing" /\ Top.fn = "precedence" /\ Infix(token) # "none"
        /\ Top.min <= PrecedenceOf(token)
    BY <1>7 DEF call_infix, AtInfix
  <2>2. Extended(frames, frames', a, b)
    BY <1>2, <1>7, <2>1, InfixExtends
  <2>3. a.fn = "binary" /\ a.operator = token /\ b.fn = "precedence" /\ b.min = min
    BY DEF Call, Precedence
  <2>4. token \in {"+", "-", "*", "/", "|"}
    BY <2>1 DEF Infix
  <2>5. min \in {PREC_FACTOR, PREC_UNARY} /\ Level(min) = Below(LevelOf(token))
    BY <2>4 DEF PrecedenceOf, PREC_FACTOR, PREC_UNARY, PREC_TERM, Level, Below, LevelOf,
                TermOperators
  <2>6. Top.min \in {PREC_ASSIGNMENT, PREC_FACTOR, PREC_UNARY}
    BY <1>2, <2>1, Innermost
  <2>7. token \in Ops(Level(Top.min))
    BY <2>1, <2>6, Binds
  <2> HIDE DEF a, b, min, token
  <2>8. Nested(frames[Len(frames)], a)
    BY <1>2, <2>1, <2>3, <2>7 DEF Nested
  <2>9. Nested(a, b)
    BY <2>3, <2>5 DEF Nested, Operand
  <2>10. a.fn \in {"grouping", "unary", "binary"}
         /\ b.min \in {PREC_ASSIGNMENT, PREC_FACTOR, PREC_UNARY}
         /\ frames[Len(frames)].fn = "precedence"
    BY <1>2, <2>1, <2>3, <2>5
  <2> QED BY <1>2, <2>1, <2>2, <2>8, <2>9, <2>10, NestsExtended
<1>8. CASE consume_eof \/ print \/ typecheck \/ free \/ compiler_init
  BY <1>8 DEF consume_eof, print, typecheck, free, compiler_init
<1> QED BY <1>1, <1>4, <1>5, <1>6, <1>7, <1>8 DEF ParserNext, ParserStep

\* A source is begun.
LEMMA BegunParses ==
  ASSUME ParserInv, compiler_generate_ast, ~compiler'.is_error
  PROVE  Parses(frames', heap', scanned')
<1>1. /\ Advance(<< >>, FALSE) /\ heap' = << >> /\ frames' = <<Precedence(PREC_ASSIGNMENT)>>
  BY DEF compiler_generate_ast
<1>2. ShapeInv /\ (compiler.is_panic => compiler.is_error)
  BY DEF ParserInv, PInv, ErrorsInv
<1>3. ~Ended(<< >>) /\ << >> \in Seq(TokenTypes \cup {"EOF", "ERROR"})
  BY DEF Ended
<1>4. scanned' = Append(<< >>, compiler'.current)
  BY <1>1, <1>2, <1>3, AdvanceTakes
<1>5. Len(scanned') = 1
  BY <1>4
<1> DEFINE b == Precedence(PREC_ASSIGNMENT)
<1>6. /\ b.fn = "precedence" /\ b.min = PREC_ASSIGNMENT /\ b.value = Pending
      /\ Level(PREC_ASSIGNMENT) = "term" /\ Ops("term") = TermOperators \cup FactorOperators
  BY DEF Precedence, Call, Level, PREC_ASSIGNMENT, PREC_TERM, Ops
<1> HIDE DEF b
<1>7. Len(frames') = 1 /\ frames'[1] = b
  BY <1>1 DEF b
<1> SUFFICES ASSUME NEW s, Extends(s, scanned')
             PROVE  /\ \E lo : \A f : Sound(frames', s, f, lo, 1)
                    /\ Is(s, "term", 1, Len(s)) => \E hi : Fits(frames', s, hi, 1)
  BY <1>5 DEF Parses
<1>8. Len(s) \in Nat
  BY DEF Extends
<1>9. \A f : Sound(frames', s, f, <<1>>, 1)
  BY <1>6, <1>7 DEF Sound, Reached
<1>10. ASSUME Is(s, "term", 1, Len(s)) PROVE Fits(frames', s, <<Len(s)>>, 1)
  <2>1. At(s, Len(s) + 1) = "EOF"
    BY <1>8 DEF At
  <2>2. Bounded(s, b, Len(s))
    BY <1>6, <1>8, <2>1, EndIsNone DEF Bounded
  <2>3. Awaits(s, b, 1, Len(s))
    BY <1>6, <1>10 DEF Awaits
  <2> QED BY <1>7, <1>8, <2>2, <2>3 DEF Fits
<1> QED BY <1>9, <1>10

\* A literal is taken.
LEMMA LiteralParses ==
  ASSUME ParserInv, parse_literal, ~compiler'.is_error
  PROVE  Parses(frames', heap', scanned')
<1> DEFINE node == Node("value", "none", << >>, compiler.current, Len(scanned))
<1>1. /\ phase = "parsing" /\ Prefix(compiler.current) = "literal" /\ Allocate(node)
      /\ Advance(scanned, FALSE) /\ Top.value = Pending
  BY DEF parse_literal, AtPrefix
<1>2. /\ compiler.current \in Expected /\ compiler.current \in Literals
  BY <1>1, TakenByRules DEF Prefix, Literals
<1>3. /\ ShapeInv /\ Nests(frames) /\ Top = frames[Len(frames)]
      /\ Resumed(frames, frames', New) /\ Len(frames') = Len(frames)
      /\ New # Pending
  <2>1. Len(heap) \in Nat /\ ShapeInv /\ Top = frames[Len(frames)]
    BY <1>1, Acting DEF ParserInv
  <2>2. Nests(frames)
    BY <1>1 DEF ParserInv, VerdictInv
  <2>3. Resumed(frames, frames', New) /\ Len(frames') = Len(frames)
    BY LiteralResumes DEF ParserInv
  <2> QED BY <2>1, <2>2, <2>3 DEF New, Pending
<1>4. node.kind = "value" /\ node.type = compiler.current /\ node.value = Len(scanned)
  BY DEF Node
<1> HIDE DEF node
<1> SUFFICES ASSUME NEW s, Extends(s, scanned')
             PROVE  /\ \A f : Meaning(heap', f) => \E lo : Sound(frames', s, f, lo, Len(scanned'))
                    /\ Is(s, "term", 1, Len(s)) => \E hi : Fits(frames', s, hi, Len(scanned'))
  BY DEF Parses
<1> DEFINE p == Len(scanned)
<1>5. /\ Parses(frames, heap, scanned) /\ Extends(s, scanned)
      /\ Len(scanned') = p + 1 /\ Len(s) \in Nat /\ p \in Nat \ {0}
      /\ At(s, p) = compiler.current
  BY <1>1, <1>2, NextPosition
<1>6. ASSUME NEW f, Meaning(heap', f)
      PROVE  \E lo : Sound(frames', s, f, lo, p + 1)
  <2>1. Meaning(heap, f) /\ f[New] = Leaf(compiler.current, p)
    BY <1>1, <1>3, <1>4, <1>6, NodeMeans
  <2>2. PICK lo : Sound(frames, s, f, lo, p)
    BY <1>5, <2>1 DEF Parses
  <2> HIDE DEF p
  <2>3. Sound(frames', s, f, lo, p + 1)
    BY <1>1, <1>2, <1>3, <1>5, <2>1, <2>2, SoundLiteral
  <2> QED BY <2>3
<1>7. ASSUME Is(s, "term", 1, Len(s))
      PROVE  \E hi : Fits(frames', s, hi, p + 1)
  <2>1. PICK hi : Fits(frames, s, hi, p)
    BY <1>5, <1>7 DEF Parses
  <2> HIDE DEF p
  <2>2. Fits(frames', s, hi, p + 1)
    BY <1>1, <1>2, <1>3, <1>5, <2>1, FitsLiteral
  <2> QED BY <2>2
<1> QED BY <1>5, <1>6, <1>7

\* A call is made for a prefix.
LEMMA PrefixParses ==
  ASSUME ParserInv, call_prefix, ~compiler'.is_error
  PROVE  Parses(frames', heap', scanned')
<1> DEFINE fn == Prefix(compiler.current)
           a  == Call(fn, compiler.current, Null)
           min == IF fn = "unary" THEN PREC_UNARY ELSE PREC_ASSIGNMENT
           b  == Precedence(min)
<1>1. /\ phase = "parsing" /\ fn \in {"grouping", "unary"} /\ UNCHANGED heap
      /\ Advance(scanned, FALSE) /\ Top.value = Pending
  BY DEF call_prefix, AtPrefix
<1>2. compiler.current \in Expected
  BY <1>1, TakenByRules
<1>3. /\ Nests(frames) /\ Top = frames[Len(frames)] /\ Extended(frames, frames', a, b)
  <2>1. Top = frames[Len(frames)]
    BY <1>1, Acting DEF ParserInv
  <2>2. Nests(frames)
    BY <1>1 DEF ParserInv, VerdictInv
  <2>3. Extended(frames, frames', a, b)
    BY PrefixExtends DEF ParserInv
  <2> QED BY <2>1, <2>2, <2>3
<1>4. /\ a.fn = fn /\ a.operator = compiler.current /\ b.fn = "precedence"
      /\ b.value = Pending
      /\ b.min = IF fn = "unary" THEN PREC_UNARY ELSE PREC_ASSIGNMENT
  BY DEF Call, Precedence
<1> HIDE DEF a, b, min
<1> SUFFICES ASSUME NEW s, Extends(s, scanned')
             PROVE  /\ \A f : Meaning(heap', f) => \E lo : Sound(frames', s, f, lo, Len(scanned'))
                    /\ Is(s, "term", 1, Len(s)) => \E hi : Fits(frames', s, hi, Len(scanned'))
  BY DEF Parses
<1> DEFINE p == Len(scanned)
<1>5. /\ Parses(frames, heap, scanned) /\ Extends(s, scanned)
      /\ Len(scanned') = p + 1 /\ Len(s) \in Nat /\ p \in Nat \ {0}
      /\ At(s, p) = compiler.current
  BY <1>1, <1>2, NextPosition
<1>6. a.fn \in {"grouping", "unary"} /\ Prefix(At(s, p)) = a.fn /\ a.operator = At(s, p)
      /\ b.min = IF a.fn = "unary" THEN PREC_UNARY ELSE PREC_ASSIGNMENT
  BY <1>1, <1>4, <1>5
<1>7. ASSUME NEW f, Meaning(heap', f)
      PROVE  \E lo : Sound(frames', s, f, lo, p + 1)
  <2>1. PICK lo : Sound(frames, s, f, lo, p)
    BY <1>1, <1>5, <1>7 DEF Parses
  <2> HIDE DEF p, fn
  <2> QED BY <1>1, <1>3, <1>4, <1>5, <1>6, <2>1, SoundPrefix
<1>8. ASSUME Is(s, "term", 1, Len(s))
      PROVE  \E hi : Fits(frames', s, hi, p + 1)
  <2>1. PICK hi : Fits(frames, s, hi, p)
    BY <1>5, <1>8 DEF Parses
  <2> HIDE DEF p, fn
  <2> QED BY <1>1, <1>3, <1>4, <1>5, <1>6, <2>1, FitsPrefix
<1> QED BY <1>5, <1>7, <1>8

\* A call is made for an infix.
LEMMA InfixParses ==
  ASSUME ParserInv, call_infix, Infix(compiler.current) # "none", ~compiler'.is_error
  PROVE  Parses(frames', heap', scanned')
<1> DEFINE token == compiler.current
           a == Call("binary", token, Top.value)
           b == Precedence(PrecedenceOf(token) + 1)
<1>1. /\ phase = "parsing" /\ UNCHANGED heap /\ Advance(scanned, FALSE)
      /\ Top.value # Pending /\ Top.fn = "precedence" /\ Top.min <= PrecedenceOf(token)
  BY DEF call_infix, AtInfix
<1>2. token \in Expected
  BY TakenByRules
<1>3. /\ Nests(frames) /\ Top = frames[Len(frames)] /\ Extended(frames, frames', a, b)
  <2>1. Top = frames[Len(frames)]
    BY <1>1, Acting DEF ParserInv
  <2>2. Nests(frames)
    BY <1>1 DEF ParserInv, VerdictInv
  <2>3. Extended(frames, frames', a, b)
    BY InfixExtends DEF ParserInv
  <2> QED BY <2>1, <2>2, <2>3
<1>4. /\ a.fn = "binary" /\ a.operator = token /\ a.first = frames[Len(frames)].value
      /\ b.fn = "precedence" /\ b.value = Pending /\ b.min = PrecedenceOf(token) + 1
  BY <1>3 DEF Call, Precedence
<1> HIDE DEF a, b
<1> SUFFICES ASSUME NEW s, Extends(s, scanned')
             PROVE  /\ \A f : Meaning(heap', f) => \E lo : Sound(frames', s, f, lo, Len(scanned'))
                    /\ Is(s, "term", 1, Len(s)) => \E hi : Fits(frames', s, hi, Len(scanned'))
  BY DEF Parses
<1> DEFINE p == Len(scanned)
<1>5. /\ Parses(frames, heap, scanned) /\ Extends(s, scanned)
      /\ Len(scanned') = p + 1 /\ Len(s) \in Nat /\ p \in Nat \ {0}
      /\ At(s, p) = token
  BY <1>1, <1>2, NextPosition
<1>6. /\ Infix(At(s, p)) # "none" /\ a.operator = At(s, p)
      /\ b.min = PrecedenceOf(At(s, p)) + 1
      /\ frames[Len(frames)].min <= PrecedenceOf(At(s, p))
      /\ frames[Len(frames)].value # Pending /\ frames[Len(frames)].fn = "precedence"
  BY <1>1, <1>3, <1>4, <1>5
<1>7. ASSUME NEW f, Meaning(heap', f)
      PROVE  \E lo : Sound(frames', s, f, lo, p + 1)
  <2>1. PICK lo : Sound(frames, s, f, lo, p)
    BY <1>1, <1>5, <1>7 DEF Parses
  <2> HIDE DEF p, token
  <2> QED BY <1>3, <1>4, <1>5, <1>6, <2>1, SoundInfix
<1>8. ASSUME Is(s, "term", 1, Len(s))
      PROVE  \E hi : Fits(frames', s, hi, p + 1)
  <2>1. PICK hi : Fits(frames, s, hi, p)
    BY <1>5, <1>8 DEF Parses
  <2> HIDE DEF p, token
  <2> QED BY <1>3, <1>4, <1>5, <1>6, <2>1, FitsInfix
<1> QED BY <1>5, <1>7, <1>8

\* The loop of compiler_parse_precedence ends.
LEMMA LeaveParses ==
  ASSUME ParserInv, leave_precedence, ~compiler.is_error
  PROVE  \/ phase' = "parsing" /\ Parses(frames', heap', scanned')
         \/ phase' = "parsed" /\ Parsed(ast', heap', scanned')
<1> DEFINE n == Len(frames)
           node == Top.value
           p == Len(scanned)
<1>1. /\ phase = "parsing" /\ Top.value # Pending /\ Top.fn = "precedence"
      /\ Top.min > PrecedenceOf(compiler.current) /\ Return(node)
      /\ UNCHANGED <<scanned, heap>>
  BY DEF leave_precedence, AtInfix
<1>2. /\ ShapeInv /\ OwnersInv /\ Nests(frames) /\ Top = frames[n] /\ node \in Int
      /\ Parses(frames, heap, scanned) /\ Flawless
  BY <1>1, ParsingFacts DEF ParserInv, VerdictInv, Flawless, Frames
<1>3. IF n = 1 THEN phase' = "parsed" /\ ast' = node
      ELSE phase' = "parsing" /\ Resumed(frames, frames', node) /\ Len(frames') = n - 1
  BY <1>1, <1>2, ReturnResumes
<1>4. ASSUME NEW s, Extends(s, scanned)
      PROVE  /\ p \in Nat \ {0} /\ Len(s) \in Nat
             /\ frames[n].min > PrecedenceOf(At(s, p))
             /\ frames[n].value = node /\ node # Pending /\ frames[n].fn = "precedence"
  BY <1>1, <1>2, <1>4, Position
<1>5. CASE n = 1
  <2>1. Level(frames[n].min) = "term" /\ n \in Nat
    BY <1>2, <1>5 DEF Nests, Level, PREC_ASSIGNMENT, PREC_TERM
  <2>2. ASSUME NEW s, Extends(s, scanned), NEW f, Meaning(heap, f)
        PROVE  Yields(s, "term", 1, p - 1, f[node])
    <3>1. PICK lo : Sound(frames, s, f, lo, p)
      BY <1>2, <2>2 DEF Parses
    <3>2. lo[n] = 1
      BY <1>5, <3>1 DEF Sound
    <3> HIDE DEF n, node, p
    <3>3. Yields(s, Level(frames[Len(frames)].min), lo[Len(frames)], p - 1,
                 f[frames[Len(frames)].value])
      BY <1>2, <1>4, <2>2, <3>1, SoundReturn DEF n
    <3> QED BY <1>4, <2>1, <2>2, <3>2, <3>3 DEF n
  <2>3. ASSUME NEW s, Extends(s, scanned), Is(s, "term", 1, Len(s))
        PROVE  Len(s) = p - 1
    <3>1. PICK hi : Fits(frames, s, hi, p)
      BY <1>2, <2>3 DEF Parses
    <3>2. hi[n] = Len(s)
      BY <1>5, <3>1 DEF Fits
    <3> HIDE DEF node, p
    <3>3. hi[Len(frames)] = p - 1
      BY <1>2, <1>4, <2>3, <3>1, FitsReturn
    <3> QED BY <3>2, <3>3
  <2> QED BY <1>1, <1>3, <1>5, <2>2, <2>3 DEF Parsed
<1>6. CASE n # 1
  <2>1. phase' = "parsing" /\ Resumed(frames, frames', node) /\ Len(frames') = Len(frames) - 1
    BY <1>3, <1>6
  <2>2. ASSUME NEW s, Extends(s, scanned), NEW f, Meaning(heap, f)
        PROVE  \E lo : Sound(frames', s, f, lo, p)
    <3>1. PICK lo : Sound(frames, s, f, lo, p)
      BY <1>2, <2>2 DEF Parses
    <3>2. /\ p \in Nat \ {0}
          /\ frames[Len(frames)].min > PrecedenceOf(At(s, p))
          /\ frames[Len(frames)].value = node /\ node # Pending
          /\ frames[Len(frames)].fn = "precedence"
      BY <1>4, <2>2
    <3> HIDE DEF node, p, n
    <3>3. Sound(frames', s, f, lo, p)
      BY <1>2, <2>1, <3>1, <3>2, SoundLeave
    <3> QED BY <3>3
  <2>3. ASSUME NEW s, Extends(s, scanned), Is(s, "term", 1, Len(s))
        PROVE  \E hi : Fits(frames', s, hi, p)
    <3>1. PICK hi : Fits(frames, s, hi, p)
      BY <1>2, <2>3 DEF Parses
    <3>2. /\ p \in Nat \ {0} /\ Len(s) \in Nat
          /\ frames[Len(frames)].min > PrecedenceOf(At(s, p))
          /\ frames[Len(frames)].value # Pending /\ node # Pending
          /\ frames[Len(frames)].fn = "precedence"
      BY <1>4, <2>3
    <3> HIDE DEF node, p, n
    <3>3. Fits(frames', s, hi, p)
      BY <1>2, <2>1, <3>1, <3>2, FitsLeave
    <3> QED BY <3>3
  <2> QED BY <1>1, <2>1, <2>2, <2>3 DEF Parses
<1> QED BY <1>5, <1>6

\* A node is made of the operands that were parsed.
LEMMA NodesParse ==
  ASSUME ParserInv, phase = "parsing", ~compiler'.is_error,
         parse_grouping \/ parse_unary \/ parse_binary
  PROVE  phase' = "parsing" /\ Parses(frames', heap', scanned')
<1> DEFINE top == frames[Len(frames)]
           p == Len(scanned)
<1>1. /\ ShapeInv /\ OwnersInv /\ Nests(frames) /\ Top = top /\ New \in Int /\ New # Pending
  <2>1. Len(heap) \in Nat
    BY Acting DEF ParserInv
  <2> QED BY <2>1, ParsingFacts DEF ParserInv, VerdictInv, New, Pending
<1>2. /\ top.value # Pending /\ top.fn \in {"grouping", "unary", "binary"} /\ Return(New)
      /\ top.fn = "grouping" =>
           Consume(")") /\ Allocate(Node("grouping", "none", <<top.value>>, "unknown", 0))
      /\ top.fn = "unary" =>
           /\ Allocate(Node("unary", top.operator, <<top.value>>, "unknown", 0))
           /\ UNCHANGED <<compiler, scanned>>
      /\ top.fn = "binary" =>
           /\ Allocate(Node("binary", top.operator, <<top.first, top.value>>, "unknown", 0))
           /\ UNCHANGED <<compiler, scanned>>
  BY <1>1 DEF parse_grouping, parse_unary, parse_binary, Returned
<1> HIDE DEF top
<1>3. ASSUME NEW f, Meaning(heap', f)
      PROVE  Meaning(heap, f) /\ f[New] = TreeMade(top, f)
  <2>1. CASE top.fn = "grouping"
    <3> DEFINE node == Node("grouping", "none", <<top.value>>, "unknown", 0)
    <3>1. node.kind = "grouping" /\ node.children[1] = top.value
      BY DEF Node
    <3> HIDE DEF node
    <3>2. Meaning(heap, f) /\ f[New] = Grouping(f[node.children[1]])
      <4>1. Allocate(node)
        BY <1>2, <2>1 DEF node
      <4> QED BY <1>1, <1>3, <3>1, <4>1, NodeMeans
    <3> QED BY <2>1, <3>1, <3>2 DEF TreeMade
  <2>2. CASE top.fn = "unary"
    <3> DEFINE node == Node("unary", top.operator, <<top.value>>, "unknown", 0)
    <3>1. node.kind = "unary" /\ node.operator = top.operator /\ node.children[1] = top.value
      BY DEF Node
    <3> HIDE DEF node
    <3>2. Meaning(heap, f) /\ f[New] = Unary(node.operator, f[node.children[1]])
      <4>1. Allocate(node)
        BY <1>2, <2>2 DEF node
      <4> QED BY <1>1, <1>3, <3>1, <4>1, NodeMeans
    <3> QED BY <2>2, <3>1, <3>2 DEF TreeMade
  <2>3. CASE top.fn = "binary"
    <3> DEFINE node == Node("binary", top.operator, <<top.first, top.value>>, "unknown", 0)
    <3>1. /\ node.kind = "binary" /\ node.operator = top.operator
          /\ node.children[1] = top.first /\ node.children[2] = top.value
      BY DEF Node
    <3> HIDE DEF node
    <3>2. /\ Meaning(heap, f)
          /\ f[New] = Binary(node.operator, f[node.children[1]], f[node.children[2]])
      <4>1. Allocate(node)
        BY <1>2, <2>3 DEF node
      <4> QED BY <1>1, <1>3, <3>1, <4>1, NodeMeans
    <3> QED BY <2>3, <3>1, <3>2 DEF TreeMade
  <2> QED BY <1>2, <2>1, <2>2, <2>3
<1>4. top.fn # "precedence" /\ Len(frames) # 1
  BY <1>1, <1>2, Innermost DEF top
<1>5. /\ phase' = "parsing" /\ Resumed(frames, frames', New) /\ Len(frames') = Len(frames) - 1
  BY <1>1, <1>2, <1>4, ReturnResumes
<1>6. ASSUME NEW s, Extends(s, scanned')
      PROVE  /\ Parses(frames, heap, scanned) /\ Extends(s, scanned)
             /\ Len(s) \in Nat /\ p \in Nat \ {0} /\ Len(scanned') \in Nat
             /\ IF top.fn = "grouping" THEN Len(scanned') = p + 1 /\ At(s, p) = ")"
                ELSE Len(scanned') = p
  <2>1. CASE top.fn = "grouping"
    <3>1. compiler.current = ")" /\ Advance(scanned, FALSE)
      <4>1. ~Report
        BY <1>1 DEF Report, ParserInv, ErrorsInv, ShapeInv, Compilers
      <4> QED BY <1>2, <2>1, <4>1 DEF Consume
    <3>2. /\ Parses(frames, heap, scanned) /\ Extends(s, scanned)
          /\ Len(scanned') = p + 1 /\ Len(s) \in Nat /\ p \in Nat \ {0}
          /\ At(s, p) = compiler.current
      BY <1>6, <3>1, TakenByRules, NextPosition
    <3> QED BY <2>1, <3>1, <3>2
  <2>2. CASE top.fn # "grouping"
    <3>1. UNCHANGED <<compiler, scanned>>
      BY <1>2, <2>2
    <3>2. Flawless /\ Parses(frames, heap, scanned)
      BY <3>1 DEF Flawless, ParserInv, VerdictInv
    <3>3. Len(s) \in Nat /\ p \in Nat \ {0}
      BY <1>6, <3>1, <3>2, Position
    <3> QED BY <1>6, <2>2, <3>1, <3>2, <3>3
  <2> QED BY <2>1, <2>2
<1> HIDE DEF p
<1>7. ASSUME NEW s, Extends(s, scanned'), NEW f, Meaning(heap', f)
      PROVE  \E lo : Sound(frames', s, f, lo, Len(scanned'))
  <2>1. PICK lo : Sound(frames, s, f, lo, p)
    BY <1>3, <1>6, <1>7 DEF Parses, p
  <2>2. /\ frames[Len(frames)].fn # "precedence" /\ Len(s) \in Nat /\ p \in Nat \ {0}
        /\ Len(scanned') \in Nat
        /\ IF frames[Len(frames)].fn = "grouping" THEN Len(scanned') = p + 1 /\ At(s, p) = ")"
           ELSE Len(scanned') = p
    BY <1>4, <1>6, <1>7 DEF top
  <2>3. f[New] = TreeMade(frames[Len(frames)], f)
    BY <1>3, <1>7 DEF top
  <2>4. Sound(frames', s, f, lo, Len(scanned'))
    BY <1>1, <1>5, <2>1, <2>2, <2>3, SoundNode
  <2> QED BY <2>4
<1>8. ASSUME NEW s, Extends(s, scanned'), Is(s, "term", 1, Len(s))
      PROVE  \E hi : Fits(frames', s, hi, Len(scanned'))
  <2>1. PICK hi : Fits(frames, s, hi, p)
    BY <1>6, <1>8 DEF Parses, p
  <2>2. /\ frames[Len(frames)].fn # "precedence" /\ p \in Nat \ {0} /\ Len(scanned') \in Nat
        /\ IF frames[Len(frames)].fn = "grouping" THEN Len(scanned') = p + 1
           ELSE Len(scanned') = p
    BY <1>4, <1>6, <1>8 DEF top
  <2>3. Fits(frames', s, hi, Len(scanned'))
    BY <1>1, <1>5, <2>1, <2>2, FitsNode
  <2> QED BY <2>3
<1> QED BY <1>5, <1>7, <1>8 DEF Parses

-----------------------------------------------------------------------------
\* A token that begins no expression where one is due: none of the sources is
\* an expression.
LEMMA NoPrefixDooms ==
  ASSUME ParserInv, no_prefix, ~compiler.is_error
  PROVE  Doomed(scanned)
<1>1. phase = "parsing" /\ Prefix(compiler.current) = "none" /\ Top.value = Pending
  BY DEF no_prefix, AtPrefix
<1>2. /\ Nests(frames) /\ Top = frames[Len(frames)] /\ Parses(frames, heap, scanned) /\ Flawless
  BY <1>1, ParsingFacts DEF ParserInv, VerdictInv, Flawless
<1> SUFFICES ASSUME NEW s, Extends(s, scanned), Derivations(s) # {} PROVE FALSE
  BY DEF Doomed
<1>3. Len(s) \in Nat /\ At(s, Len(scanned)) = compiler.current
  BY <1>2, Position
<1>4. Is(s, "term", 1, Len(s))
  BY <1>3, Expressions
<1>5. PICK hi : Fits(frames, s, hi, Len(scanned))
  BY <1>2, <1>4 DEF Parses
<1>6. At(s, Len(scanned)) \in Literals \cup UnaryOperators \cup {"("}
  BY <1>1, <1>2, <1>5, FitsFirst
<1> QED BY <1>1, <1>3, <1>6 DEF Literals, UnaryOperators, Prefix

\* So for a token where a closing parenthesis is due.
LEMMA NoParenDooms ==
  ASSUME ParserInv, parse_grouping, compiler.current # ")", ~compiler.is_error
  PROVE  Doomed(scanned)
<1>1. phase = "parsing" /\ Top.fn = "grouping"
  BY DEF parse_grouping, Returned
<1>2. /\ Nests(frames) /\ Top = frames[Len(frames)] /\ Parses(frames, heap, scanned) /\ Flawless
  BY <1>1, ParsingFacts DEF ParserInv, VerdictInv, Flawless
<1> SUFFICES ASSUME NEW s, Extends(s, scanned), Derivations(s) # {} PROVE FALSE
  BY DEF Doomed
<1>3. Len(s) \in Nat /\ At(s, Len(scanned)) = compiler.current
  BY <1>2, Position
<1>4. Is(s, "term", 1, Len(s))
  BY <1>3, Expressions
<1>5. PICK hi : Fits(frames, s, hi, Len(scanned))
  BY <1>2, <1>4 DEF Parses
<1> QED BY <1>1, <1>2, <1>3, <1>5, FitsGroup

\* An error is recorded only when the sources are none of them expressions.
LEMMA DoomKept ==
  ASSUME ParserInv, phase \in {"parsing", "parsed"}, NEW reports \in BOOLEAN,
         Advance(scanned, reports), reports /\ ~compiler.is_error => Doomed(scanned)
  PROVE  /\ NoneBehindEnd(scanned')
         /\ compiler.is_error => compiler'.is_error
         /\ compiler'.is_error /\ ~reused => Doomed(scanned')
<1>1. /\ ShapeInv /\ scanned \in Seq(TokenTypes \cup {"EOF", "ERROR"}) /\ NoneBehindEnd(scanned)
      /\ compiler.is_error /\ ~reused => Doomed(scanned)
  BY DEF ParserInv, PInv, TreeInv, VerdictInv
<1>2. /\ Grows(scanned, scanned') /\ NoneBehindEnd(scanned')
      /\ compiler.is_error => compiler'.is_error
      /\ compiler'.is_error => compiler.is_error \/ reports \/ Doomed(scanned')
  BY <1>1, AdvanceGrows
<1>3. Doomed(scanned) => Doomed(scanned')
  BY <1>2, ExtendsLess
<1> QED BY <1>1, <1>2, <1>3

\* The source that ends with the tokens taken.
LEMMA SourceExtends ==
  ASSUME ParserInv, Ended(scanned)
  PROVE  Extends(Source, scanned) /\ Len(Source) = Len(scanned) - 1
<1> DEFINE S == TokenTypes \cup {"EOF", "ERROR"}
<1>1. scanned \in Seq(S) /\ scanned # << >> /\ NoneBehindEnd(scanned)
  BY DEF ParserInv, TreeInv, VerdictInv, Ended
<1>2. scanned[Len(scanned)] = "EOF" /\ Len(scanned) \in Nat \ {0}
  BY <1>1, EmptySeq DEF Ended, Last
<1>3. /\ Len(Source) = Len(scanned) - 1
      /\ \A i \in 1 .. Len(scanned) - 1 : Source[i] = scanned[i]
  <2> DEFINE n == Len(scanned) - 1
  <2>1. n \in Nat /\ 1 \in 1 .. Len(scanned) + 1 /\ n \in 1 - 1 .. Len(scanned) /\ n - 1 + 1 = n
    BY <1>2
  <2>2. Source = SubSeq(scanned, 1, n)
    BY DEF Source, Front
  <2> HIDE DEF S, n
  <2>3. /\ Len(SubSeq(scanned, 1, n)) = n
        /\ \A i \in 1 .. n : SubSeq(scanned, 1, n)[i] = scanned[i]
    BY <1>1, <2>1
  <2> QED BY <2>2, <2>3 DEF n
<1>4. \A i \in 1 .. Len(Source) : Source[i] # "EOF"
  BY <1>1, <1>3 DEF NoneBehindEnd
<1>5. \A i \in 1 .. Len(scanned) : scanned[i] = At(Source, i)
  <2> TAKE i \in 1 .. Len(scanned)
  <2>1. CASE i = Len(scanned)
    BY <1>2, <1>3, <2>1 DEF At
  <2>2. CASE i # Len(scanned)
    <3>1. i \in 1 .. Len(scanned) - 1 /\ i <= Len(Source)
      BY <1>2, <1>3, <2>2
    <3> QED BY <1>3, <3>1 DEF At
  <2> QED BY <2>1, <2>2
<1> QED BY <1>2, <1>3, <1>4, <1>5 DEF Extends

\* The steps of compiler_parse_precedence and the functions it calls.
LEMMA ParsingKept ==
  ASSUME ParserInv,
         no_prefix \/ parse_literal \/ call_prefix \/ call_infix \/ leave_precedence
           \/ parse_grouping \/ parse_unary \/ parse_binary
  PROVE  VerdictInv'
<1>1. /\ phase = "parsing" /\ UNCHANGED reused
      /\ phase' \in {"parsing", "parsed", "crashed"}
  <2>1. phase = "parsing" /\ UNCHANGED reused /\ (phase' = phase \/ phase' = "crashed"
                                                  \/ \E node : Return(node))
    BY DEF no_prefix, parse_literal, call_prefix, call_infix, leave_precedence,
           parse_grouping, parse_unary, parse_binary, AtPrefix, AtInfix, Returned
  <2> QED BY <2>1 DEF Return
<1>2. /\ NoneBehindEnd(scanned')
      /\ compiler.is_error => compiler'.is_error
      /\ compiler'.is_error /\ ~reused => Doomed(scanned')
  <2>1. CASE no_prefix
    <3>1. Advance(scanned, TRUE) /\ (~compiler.is_error => Doomed(scanned))
      BY <2>1, NoPrefixDooms DEF no_prefix
    <3> QED BY <1>1, <3>1, DoomKept
  <2>2. CASE parse_literal \/ call_prefix \/ call_infix
    <3>1. Advance(scanned, FALSE)
      BY <2>2 DEF parse_literal, call_prefix, call_infix
    <3> QED BY <1>1, <3>1, DoomKept
  <2>3. CASE leave_precedence \/ parse_unary \/ parse_binary
    <3>1. UNCHANGED <<compiler, scanned>>
      BY <2>3 DEF leave_precedence, parse_unary, parse_binary
    <3> QED BY <1>1, <3>1 DEF ParserInv, VerdictInv
  <2>4. CASE parse_grouping
    <3>1. CASE compiler.current = ")"
      <4>1. Advance(scanned, FALSE)
        BY <2>4, <3>1 DEF parse_grouping, Consume
      <4> QED BY <1>1, <4>1, DoomKept
    <3>2. CASE compiler.current # ")"
      <4>1. Report
        BY <2>4, <3>2 DEF parse_grouping, Consume
      <4>2. ~compiler.is_error => Doomed(scanned)
        BY <2>4, <3>2, NoParenDooms
      <4>3. compiler \in Compilers
        BY DEF ParserInv, PInv, ShapeInv
      <4>4. scanned' = scanned /\ (compiler.is_error => compiler'.is_error)
        BY <4>1, <4>3 DEF Report, Compilers
      <4> QED BY <1>1, <4>2, <4>4 DEF ParserInv, VerdictInv
    <3> QED BY <3>1, <3>2
  <2> QED BY <2>1, <2>2, <2>3, <2>4
<1>3. reused => compiler'.is_error
  BY <1>1, <1>2 DEF ParserInv, VerdictInv
<1>4. phase' = "parsing" => Nests(frames')
  <2>1. ParserNext
    BY DEF ParserNext, ParserStep
  <2> QED BY <2>1, NestsKept
<1>5. ASSUME ~compiler'.is_error
      PROVE  \/ phase' = "parsing" /\ Parses(frames', heap', scanned')
             \/ phase' = "parsed" /\ Parsed(ast', heap', scanned')
             \/ phase' = "crashed"
  <2>1. ~ no_prefix
    <3>1. ASSUME no_prefix PROVE FALSE
      <4>1. Advance(scanned, TRUE)
        BY <3>1 DEF no_prefix
      <4>2. ShapeInv /\ scanned \in Seq(TokenTypes \cup {"EOF", "ERROR"})
            /\ (compiler.is_panic => compiler.is_error)
        BY DEF ParserInv, PInv, TreeInv, ErrorsInv
      <4>3. compiler'.is_error
        BY <4>1, <4>2, AdvanceScans DEF Scans
      <4> QED BY <1>5, <4>3
    <3> QED BY <3>1
  <2>2. CASE parse_literal
    BY <1>1, <1>5, <2>2, LiteralParses DEF parse_literal
  <2>3. CASE call_prefix
    BY <1>1, <1>5, <2>3, PrefixParses DEF call_prefix
  <2>4. CASE call_infix
    BY <1>1, <1>5, <2>4, InfixParses DEF call_infix
  <2>5. CASE leave_precedence
    BY <1>2, <1>5, <2>5, LeaveParses
  <2>6. CASE parse_grouping \/ parse_unary \/ parse_binary
    BY <1>1, <1>5, <2>6, NodesParse
  <2> QED BY <2>1, <2>2, <2>3, <2>4, <2>5, <2>6
<1> QED BY <1>1, <1>2, <1>3, <1>4, <1>5 DEF VerdictInv

\* compiler_consume of the end of the source, without an error.
LEMMA EndConsumed ==
  ASSUME ParserInv, consume_eof, ~compiler'.is_error
  PROVE  /\ phase' = "print untyped" /\ UNCHANGED <<reused, heap, ast, scanned>>
         /\ Ended(scanned) /\ Derived(ast, heap, scanned) /\ Derivations(Source) # {}
<1>1. phase = "parsed" /\ Consume("EOF") /\ UNCHANGED <<reused, heap, ast>>
      /\ phase' = IF ast = Null THEN "done" ELSE "print untyped"
  BY DEF consume_eof
<1>2. /\ ShapeInv /\ TreeInv /\ scanned \in Seq(TokenTypes \cup {"EOF", "ERROR"})
      /\ (compiler.is_panic => compiler.is_error)
  BY DEF ParserInv, PInv, TreeInv, ErrorsInv
<1>3. compiler.current = "EOF" /\ Advance(scanned, FALSE)
  <2>1. ~Report
    BY <1>2 DEF Report, ShapeInv, Compilers
  <2> QED BY <1>1, <2>1 DEF Consume
<1>4. ~compiler.is_error
  BY <1>2, <1>3, AdvanceTakes
<1>5. /\ Flawless /\ Parsed(ast, heap, scanned) /\ Spotless /\ ast # Null
      /\ Reads(scanned, compiler.current)
  <2>1. Flawless
    BY <1>1, <1>4 DEF Flawless
  <2> QED BY <1>1, <1>4, <2>1 DEF ParserInv, VerdictInv, ErrorsInv, ScansInv, Spotless
<1>6. Ended(scanned)
  BY <1>3, <1>5 DEF Reads, Ended, Last
<1>7. scanned' = scanned
  BY <1>2, <1>3, <1>6, AdvanceTakes
<1>8. Extends(Source, scanned) /\ Len(Source) = Len(scanned) - 1 /\ Len(Source) \in Nat
  BY <1>6, SourceExtends DEF Extends
<1>9. \A f : Meaning(heap, f) => f[ast] \in Derivations(Source)
  BY <1>5, <1>8, Expressions DEF Parsed
<1>10. PICK f : Meaning(heap, f)
  BY <1>2, <1>5, GoodTree, TreesMean DEF Spotless
<1> QED BY <1>1, <1>5, <1>6, <1>7, <1>9, <1>10 DEF Derived, Source

\* A token where the end of the source is due: none of the sources is an
\* expression.
LEMMA NoEndDooms ==
  ASSUME ParserInv, consume_eof, compiler.current # "EOF", ~compiler.is_error
  PROVE  Doomed(scanned)
<1>1. phase = "parsed"
  BY DEF consume_eof
<1>2. Parsed(ast, heap, scanned) /\ Flawless
  BY <1>1 DEF ParserInv, VerdictInv, Flawless
<1> SUFFICES ASSUME NEW s, Extends(s, scanned), Derivations(s) # {} PROVE FALSE
  BY DEF Doomed
<1>3. /\ Len(s) \in Nat /\ Len(scanned) \in Nat \ {0}
      /\ At(s, Len(scanned)) = compiler.current
  BY <1>2, Position
<1>4. Is(s, "term", 1, Len(s))
  BY <1>3, Expressions
<1>5. Len(s) = Len(scanned) - 1
  BY <1>2, <1>4 DEF Parsed
<1>6. At(s, Len(scanned)) = "EOF"
  BY <1>3, <1>5 DEF At
<1> QED BY <1>3, <1>6

\* The invariant is kept by every step of the parser.
LEMMA VerdictKept == ParserInv /\ [ParserNext]_parserVars => VerdictInv'
<1> SUFFICES ASSUME ParserInv, [ParserNext]_parserVars PROVE VerdictInv'
  OBVIOUS
<1>0. VerdictInv /\ ShapeInv /\ scanned \in Seq(TokenTypes \cup {"EOF", "ERROR"})
  BY DEF ParserInv, PInv, TreeInv
<1>1. CASE UNCHANGED parserVars
  BY <1>0, <1>1 DEF parserVars, VerdictInv, Source
<1>2. CASE compiler_generate_ast
  <2>1. Advance(<< >>, FALSE) /\ reused' = compiler.is_error /\ phase' = "parsing"
    BY <1>2 DEF compiler_generate_ast
  <2>2. << >> \in Seq(TokenTypes \cup {"EOF", "ERROR"}) /\ NoneBehindEnd(<< >>)
    BY DEF NoneBehindEnd
  <2>3. /\ NoneBehindEnd(scanned')
        /\ compiler.is_error => compiler'.is_error
        /\ compiler'.is_error => compiler.is_error \/ Doomed(scanned')
    BY <1>0, <2>1, <2>2, AdvanceGrows
  <2>4. Nests(frames')
    BY <1>2, <2>1, NestsKept DEF ParserNext
  <2>5. ~compiler'.is_error => Parses(frames', heap', scanned')
    BY <1>2, BegunParses
  <2> QED BY <2>1, <2>3, <2>4, <2>5 DEF VerdictInv
<1>3. CASE \/ no_prefix \/ parse_literal \/ call_prefix \/ call_infix \/ leave_precedence
           \/ parse_grouping \/ parse_unary \/ parse_binary
  BY <1>3, ParsingKept
<1>4. CASE consume_eof
  <2>1. phase = "parsed" /\ phase' \in {"done", "print untyped"} /\ UNCHANGED reused
    BY <1>4 DEF consume_eof
  <2>2. /\ NoneBehindEnd(scanned')
        /\ compiler.is_error => compiler'.is_error
        /\ compiler'.is_error /\ ~reused => Doomed(scanned')
    <3>1. CASE compiler.current = "EOF"
      <4>1. Advance(scanned, FALSE)
        BY <1>4, <3>1 DEF consume_eof, Consume
      <4> QED BY <2>1, <4>1, DoomKept
    <3>2. CASE compiler.current # "EOF"
      <4>1. Report
        BY <1>4, <3>2 DEF consume_eof, Consume
      <4>2. ~compiler.is_error => Doomed(scanned)
        BY <1>4, <3>2, NoEndDooms
      <4>3. scanned' = scanned /\ (compiler.is_error => compiler'.is_error)
        BY <1>0, <4>1 DEF Report, ShapeInv, Compilers
      <4> QED BY <1>0, <2>1, <4>2, <4>3 DEF VerdictInv
    <3> QED BY <3>1, <3>2
  <2>3. ASSUME ~compiler'.is_error
        PROVE  /\ phase' = "print untyped" /\ Derived(ast', heap', scanned')
               /\ Ended(scanned') /\ Derivations(Source') # {}
    <3>1. /\ phase' = "print untyped" /\ UNCHANGED <<heap, ast, scanned>>
          /\ Ended(scanned) /\ Derived(ast, heap, scanned) /\ Derivations(Source) # {}
      BY <1>4, <2>3, EndConsumed
    <3> QED BY <3>1 DEF Source
  <2> QED BY <1>0, <2>1, <2>2, <2>3 DEF VerdictInv
<1>5. CASE print
  <2>1. /\ phase \in {"print untyped", "print typed"}
        /\ phase' \in {"crashed", IF phase = "print untyped" THEN "typecheck" ELSE "free"}
        /\ UNCHANGED <<compiler, scanned, reused, heap, ast>>
    BY <1>5 DEF print
  <2> QED BY <1>0, <2>1 DEF VerdictInv, Source
<1>6. CASE typecheck
  <2>1. phase = "typecheck" /\ phase' = "print typed" /\ UNCHANGED <<compiler, scanned, reused>>
    BY <1>6 DEF typecheck
  <2> QED BY <1>0, <2>1 DEF VerdictInv, Source
<1>7. CASE free
  <2>1. phase = "free" /\ phase' = "done" /\ UNCHANGED <<compiler, scanned, reused>>
    BY <1>7 DEF free
  <2> QED BY <1>0, <2>1 DEF VerdictInv, Source
<1>8. CASE compiler_init
  <2>1. phase' = "ready" /\ UNCHANGED scanned
    BY <1>8 DEF compiler_init
  <2> QED BY <1>0, <2>1 DEF VerdictInv
<1> QED BY <1>1, <1>2, <1>3, <1>4, <1>5, <1>6, <1>7, <1>8 DEF ParserNext, ParserStep

\* All that is known of the parser is kept by its steps ...
LEMMA ParserInvKept == ParserInv /\ [ParserNext]_parserVars => ParserInv'
BY InvariantKept, TreeInvKept, ErrorsKept, ScansKept, VerdictKept DEF ParserInv

\* ... and it holds at first.
LEMMA ParserInvHolds == ParserInit => ParserInv
<1> SUFFICES ASSUME ParserInit PROVE ScansInv /\ VerdictInv
  BY InvariantHolds, TreeInvHolds, ErrorsHold DEF ParserInv
<1>1. phase = "ready" /\ scanned = << >>
  BY DEF ParserInit
<1>2. NoneBehindEnd(<< >>)
  BY DEF NoneBehindEnd
<1> QED BY <1>1, <1>2 DEF ScansInv, Flawless, VerdictInv

\* What it says of a source that was compiled.
LEMMA VerdictGiven == ParserInv => VerdictExact
<1> SUFFICES ASSUME ParserInv, phase = "done"
             PROVE  ~compiler.is_error <=>
                      ~reused /\ Ended(scanned) /\ Derivations(Source) # {}
  BY DEF VerdictExact
<1>1. CASE ~compiler.is_error
  BY <1>1 DEF ParserInv, VerdictInv
<1>2. CASE compiler.is_error
  <2>1. reused \/ Doomed(scanned)
    BY <1>2 DEF ParserInv, VerdictInv
  <2>2. Doomed(scanned) /\ Ended(scanned) => Derivations(Source) = {}
    BY SourceExtends DEF Doomed
  <2> QED BY <1>2, <2>1, <2>2
<1> QED BY <1>1, <1>2

\* ... and of its tree.
LEMMA TreeGiven == ParserInv => TreeIsDerivation
<1> SUFFICES ASSUME ParserInv, phase = "typecheck", ~compiler.is_error
             PROVE  Derivations(Source) = {TreeOf(ast)}
  BY DEF TreeIsDerivation
<1>1. Derived(ast, heap, scanned) /\ Ended(scanned)
  BY DEF ParserInv, VerdictInv
<1>2. WholeTree(heap)
  BY GoodTree DEF ParserInv, PInv, TreeInv
<1>3. PICK f : Meaning(heap, f) /\ \A n : TreeOf(n) = f[n]
  BY <1>2, TreesMean
<1>4. TreeOf(ast) \in Derivations(Source)
  BY <1>1, <1>3 DEF Derived, Source
<1>5. Len(Source) \in Nat
  BY <1>1, SourceExtends DEF Extends
<1> HIDE DEF TreeOf
<1>6. \A a, b \in Derivations(Source) : a = b
  BY <1>5, Unambiguous
<1> QED BY <1>4, <1>6

(***************************************************************************)
(* compiler_generate_ast accepts exactly the expressions of the language:  *)
(* for all the token types a source may hold and however long it is, no    *)
(* error is recorded if and only if the lexer found none, the parser has   *)
(* come to the end, and the grammar derives the tokens.                    *)
(***************************************************************************)
THEOREM VerdictIsExact == ParserSpec => []VerdictExact
<1>1. ParserInv /\ [ParserNext]_parserVars => ParserInv'
  BY ParserInvKept
<1> QED BY <1>1, ParserInvHolds, VerdictGiven, PTL DEF ParserSpec

\* The tree of an accepted source is its derivation, and it has only one:
\* compiler_parse_precedence gives precedence and associativity as the grammar
\* does, in expressions of any length.
THEOREM TreesAreDerivations == ParserSpec => []TreeIsDerivation
<1>1. ParserInv /\ [ParserNext]_parserVars => ParserInv'
  BY ParserInvKept
<1> QED BY <1>1, ParserInvHolds, TreeGiven, PTL DEF ParserSpec
=============================================================================
