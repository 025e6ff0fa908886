-------------------------------- MODULE Types --------------------------------
(***************************************************************************)
(* The types of expressions and the rules that infer them.  A node of the  *)
(* syntax tree lives in a heap (a sequence, its index is its address); its *)
(* children are addresses, 0 being NULL.                                   *)
(***************************************************************************)
EXTENDS Integers, Sequences

Null == 0

Kinds == {"unknown", "invalid", "real", "int"}

Numbers == {"real", "int"}

\* Mutant: dividing two Ints with / gives an Int.
InferBinary_IntQuotient(operator, first, second) ==
  IF {first, second} \subseteq Numbers
  THEN CASE operator \in {"+", "-", "*", "/"} ->
              IF first = "int" /\ second = "int" THEN "int" ELSE "real"
         [] operator = "|" ->
              IF first = "int" /\ second = "int" THEN "int" ELSE "invalid"
  ELSE "invalid"

\* The five rules of infer_rules for two operands ...
InferBinary(operator, first, second) ==
  IF {first, second} \subseteq Numbers
  THEN CASE operator \in {"+", "-", "*"} ->
              IF first = "int" /\ second = "int" THEN "int" ELSE "real"
         [] operator = "/" -> "real"
         [] operator = "|" ->
              IF first = "int" /\ second = "int" THEN "int" ELSE "invalid"
  ELSE "invalid"

\* ... and the two for one: the other operators have no rule.
InferUnary(operator, child) ==
  IF operator \in {"+", "-"} /\ child \in Numbers THEN child ELSE "invalid"

(***************************************************************************)
(* compiler_get_expression_type: a node whose type is known keeps it, any  *)
(* other gets the type its children (visited first) give it.               *)
(***************************************************************************)
TypeOf(heap, node) ==
  LET type[n \in 1 .. Len(heap)] ==
        LET it    == heap[n]
            of(k) == type[it.children[k]]
        IN  IF it.type # "unknown" THEN it.type
            ELSE CASE it.kind = "unary"    -> InferUnary(it.operator, of(1))
                   [] it.kind = "binary"   -> InferBinary(it.operator, of(1), of(2))
                   [] it.kind = "grouping" -> of(1)
                   [] OTHER                -> "invalid"
  IN  type[node]

\* The addresses below a node in the order ast_node_free frees them, NULL
\* among them where a child is missing.
Postorder(heap, node) ==
  LET walk[n \in 0 .. Len(heap)] ==
        IF n = Null THEN <<Null>>
        ELSE LET children == heap[n].children
             IN  CASE Len(children) = 0 -> <<n>>
                   [] Len(children) = 1 -> Append(walk[children[1]], n)
                   [] OTHER -> Append(walk[children[1]] \o walk[children[2]], n)
  IN  walk[node]
=============================================================================
