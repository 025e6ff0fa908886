------------------------------- MODULE Grammar -------------------------------
(***************************************************************************)
(* The expression language, independently of how it is parsed: the set of  *)
(* derivation trees of a sequence of tokens.  The operators of a level are *)
(* those compiler.h lists beside PREC_TERM, PREC_FACTOR and PREC_UNARY,    *)
(* with | and the unary + at the levels parse_rules gives them, and        *)
(* without !, which has no rule; binary operators associate to the left.   *)
(***************************************************************************)
EXTENDS Integers, Sequences

TermOperators   == {"+", "-"}
FactorOperators == {"*", "/", "|"}
UnaryOperators  == {"+", "-"}
Literals        == {"int", "real"}

\* Trees: a literal is known by its position among the tokens.
Leaf(token, position)          == <<token, position>>
Unary(operator, child)         == <<"unary", operator, child>>
Binary(operator, first, second) == <<"binary", operator, first, second>>
Grouping(child)                == <<"grouping", child>>

\* The trees of the tokens lo .. hi with one of the operators at the root, d
\* being the trees of shorter pieces.
Binaries(tokens, d, left, operators, right, lo, hi) ==
  UNION {{Binary(tokens[k], parts[1], parts[2]) :
            parts \in d[<<left, lo, k - 1>>] \X d[<<right, k + 1, hi>>]} :
         k \in {j \in lo + 1 .. hi - 1 : tokens[j] \in operators}}

\* The trees of the tokens lo .. hi as an expression of a level: that of the
\* sums, that of the products, or that of what has no binary operator.
Trees(tokens, d, level, lo, hi) ==
  CASE level = "term" ->
         d[<<"factor", lo, hi>>] \cup
         Binaries(tokens, d, "term", TermOperators, "factor", lo, hi)
    [] level = "factor" ->
         d[<<"unary", lo, hi>>] \cup
         Binaries(tokens, d, "factor", FactorOperators, "unary", lo, hi)
    [] level = "unary" ->
         {Leaf(tokens[p], p) : p \in {q \in {lo} : q = hi /\ tokens[q] \in Literals}}
         \cup
         {Unary(tokens[lo], a) :
            a \in IF lo < hi /\ tokens[lo] \in UnaryOperators
                  THEN d[<<"unary", lo + 1, hi>>] ELSE {}}
         \cup
         {Grouping(a) :
            a \in IF lo < hi /\ tokens[lo] = "(" /\ tokens[hi] = ")"
                  THEN d[<<"term", lo + 1, hi - 1>>] ELSE {}}

Nonterminals == {"term", "factor", "unary"}

Derivations(tokens) ==
  LET d[at \in Nonterminals \X (1 .. Len(tokens) + 1) \X (0 .. Len(tokens))] ==
        Trees(tokens, d, at[1], at[2], at[3])
  IN  d[<<"term", 1, Len(tokens)>>]
=============================================================================
