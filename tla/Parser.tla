------------------------------- MODULE Parser -------------------------------
(***************************************************************************)
(* compiler_generate_ast: the precedence-climbing parser, run as the C     *)
(* code runs it, one call or return at a time, and what is done with the   *)
(* tree: print it, infer its types, print it again and free it.  The same  *)
(* Compiler may be given one source after another.                         *)
(*                                                                         *)
(* The lexer answers each request with any token; module Compiler joins    *)
(* the parser with the lexer that makes them of characters.                *)
(***************************************************************************)
EXTENDS Types, Grammar, SequencesExt

CONSTANTS
  TokenTypes,  \* the token types a source is made of, besides "EOF"
  MayFail,     \* whether the lexer may also produce "ERROR" tokens
  MaxTokens    \* bound: the source ends when this many tokens were scanned

ASSUME ParserAssumption ==
  /\ "EOF" \notin TokenTypes
  /\ "ERROR" \notin TokenTypes
  /\ MayFail \in BOOLEAN
  /\ MaxTokens \in Nat

VARIABLES
  phase,     \* where compiler_generate_ast is
  compiler,  \* the Compiler struct, tokens being their types
  scanned,   \* history: the tokens of the source scanned so far
  reused,    \* history: is_error when the source was given
  frames,    \* the calls in progress, innermost last
  heap,      \* the nodes allocated for the source
  ast,       \* the root of the tree
  freed      \* the nodes freed, in order

parserVars == <<phase, compiler, scanned, reused, frames, heap, ast, freed>>

\* The levels of enum Precedence that parse_rules uses.
PREC_NONE == 0
PREC_ASSIGNMENT == 1
PREC_TERM == 6
PREC_FACTOR == 7
PREC_UNARY == 8

(***************************************************************************)
(* parse_rules, "none" standing for a NULL function.                       *)
(***************************************************************************)
Prefix(token) ==
  CASE token = "("              -> "grouping"
    [] token \in {"+", "-"}     -> "unary"
    [] token \in {"real", "int"} -> "literal"
    [] OTHER                    -> "none"

\* Mutant: the rule of | is left out of the table.
Infix_WithoutDiv(token) ==
  IF token \in {"+", "-", "*", "/"} THEN "binary" ELSE "none"

Infix(token) ==
  IF token \in {"+", "-", "*", "/", "|"} THEN "binary" ELSE "none"

\* Mutant: all operators bind alike.
PrecedenceOf_Flat(token) ==
  IF token \in {"+", "-", "+=", "-=", "->", "*", "/", "|"}
  THEN PREC_TERM ELSE PREC_NONE

PrecedenceOf(token) ==
  CASE token \in {"+", "-", "+=", "-=", "->"} -> PREC_TERM
    [] token \in {"*", "/", "|"}              -> PREC_FACTOR
    [] OTHER                                  -> PREC_NONE
-----------------------------------------------------------------------------
\* What lexer_scan_token may answer after the tokens in past; a source that
\* ended has ended for good.
Ended(past) == past # << >> /\ Last(past) = "EOF"

Answers(past) ==
  IF Ended(past) \/ Len(past) >= MaxTokens THEN {"EOF"} ELSE TokenTypes \cup {"EOF"}

\* Mutant: error tokens are skipped without a report.
Advance_Silent(past, reports) ==
  \E token \in Answers(past), bad \in {b \in BOOLEAN : b => MayFail /\ ~Ended(past)} :
     /\ compiler' = [current  |-> token,
                     previous |-> compiler.current,
                     is_panic |-> compiler.is_panic \/ reports,
                     is_error |-> compiler.is_error \/ (~compiler.is_panic /\ reports)]
     /\ scanned' = past \o (IF bad THEN <<"ERROR">> ELSE << >>)
                        \o (IF Ended(past) THEN << >> ELSE <<token>>)

(***************************************************************************)
(* compiler_advance, in a step that reports an error of its own or not.    *)
(* Error tokens on the way are reported and skipped (one of them stands    *)
(* for any number).  Only the first report of a Compiler's life counts.    *)
(***************************************************************************)
Advance(past, reports) ==
  \E token \in Answers(past), bad \in {b \in BOOLEAN : b => MayFail /\ ~Ended(past)} :
     /\ compiler' = [current  |-> token,
                     previous |-> compiler.current,
                     is_panic |-> compiler.is_panic \/ reports \/ bad,
                     is_error |-> \/ compiler.is_error
                                  \/ ~compiler.is_panic /\ (reports \/ bad)]
     /\ scanned' = past \o (IF bad THEN <<"ERROR">> ELSE << >>)
                        \o (IF Ended(past) THEN << >> ELSE <<token>>)

\* Mutant: the error is printed but not recorded.
Report_PanicOnly ==
  /\ compiler' = [compiler EXCEPT !.is_panic = TRUE]
  /\ UNCHANGED scanned

\* compiler_parse_error without scanning.
Report ==
  /\ compiler' = [compiler EXCEPT !.is_panic = TRUE,
                                  !.is_error = @ \/ ~compiler.is_panic]
  /\ UNCHANGED scanned

\* compiler_consume.
Consume(token) ==
  IF compiler.current = token THEN Advance(scanned, FALSE) ELSE Report
-----------------------------------------------------------------------------
(***************************************************************************)
(* A call: its function, the least precedence it is to parse or the        *)
(* operator it is for, the operand it was given, and the value it has so   *)
(* far: its variable first, or what the call it made has returned; Pending *)
(* until that call returns, the old first having been handed to it.        *)
(***************************************************************************)
Pending == -1

Call(fn, operator, first) ==
  [fn |-> fn, operator |-> operator, min |-> PREC_NONE,
   first |-> first, value |-> Pending]

Precedence(min) == [Call("precedence", "none", Null) EXCEPT !.min = min]

Top == Last(frames)

Return(node) ==
  LET callers == Front(frames)
  IN  IF callers = << >>
      THEN /\ frames' = << >>
           /\ ast' = node
           /\ phase' = "parsed"
      ELSE /\ frames' = [callers EXCEPT ![Len(callers)].value = node]
           /\ UNCHANGED <<ast, phase>>

New == Len(heap) + 1

\* make_ast_node_...
Node(kind, operator, children, type, value) ==
  [kind |-> kind, operator |-> operator, children |-> children,
   type |-> type, value |-> value]

Allocate(node) == heap' = Append(heap, node)

\* compiler_parse_precedence is about to read a prefix ...
AtPrefix == phase = "parsing" /\ Top.fn = "precedence" /\ Top.value = Pending

\* Mutant: the loop may run before there is a first operand.
AtInfix_TooEarly == phase = "parsing" /\ Top.fn = "precedence"

\* ... or has a first operand and is in its loop.
AtInfix == phase = "parsing" /\ Top.fn = "precedence" /\ Top.value # Pending

\* compiler_parse_... has got its last operand back.
Returned(fn) == phase = "parsing" /\ Top.fn = fn /\ Top.value # Pending

compiler_generate_ast ==
  /\ phase \in {"ready", "done"}
  /\ Advance(<< >>, FALSE)
  /\ reused' = compiler.is_error
  /\ frames' = <<Precedence(PREC_ASSIGNMENT)>>
  /\ heap' = << >>
  /\ ast' = Null
  /\ freed' = << >>
  /\ phase' = "parsing"

no_prefix ==
  /\ AtPrefix /\ Prefix(compiler.current) = "none"
  /\ Advance(scanned, TRUE)
  /\ Return(Null)
  /\ UNCHANGED <<reused, heap, freed>>

\* compiler_parse_real and compiler_parse_int: the value stands for the
\* literal that was scanned last.
parse_literal ==
  /\ AtPrefix /\ Prefix(compiler.current) = "literal"
  /\ Advance(scanned, FALSE)
  /\ Allocate(Node("value", "none", << >>, compiler.current, Len(scanned)))
  /\ frames' = [frames EXCEPT ![Len(frames)].value = New]
  /\ UNCHANGED <<phase, reused, ast, freed>>

call_prefix ==
  /\ AtPrefix /\ Prefix(compiler.current) \in {"grouping", "unary"}
  /\ Advance(scanned, FALSE)
  /\ LET fn  == Prefix(compiler.current)
         min == IF fn = "unary" THEN PREC_UNARY ELSE PREC_ASSIGNMENT
     IN  frames' = frames \o <<Call(fn, compiler.current, Null), Precedence(min)>>
  /\ UNCHANGED <<phase, reused, heap, ast, freed>>

call_infix ==
  /\ AtInfix /\ Top.min <= PrecedenceOf(compiler.current)
  /\ Advance(scanned, FALSE)
  /\ IF Infix(compiler.current) = "none"
     THEN phase' = "crashed" /\ UNCHANGED frames  \* infix_rule is NULL
     ELSE /\ frames' = [frames EXCEPT ![Len(frames)].value = Pending] \o
                         <<Call("binary", compiler.current, Top.value),
                           Precedence(PrecedenceOf(compiler.current) + 1)>>
          /\ UNCHANGED phase
  /\ UNCHANGED <<reused, heap, ast, freed>>

leave_precedence ==
  /\ AtInfix /\ Top.min > PrecedenceOf(compiler.current)
  /\ Return(Top.value)
  /\ UNCHANGED <<compiler, scanned, reused, heap, freed>>

\* Mutant: skip to the closing parenthesis, even past the end.
parse_grouping_SkipToParen ==
  /\ Returned("grouping")
  /\ Advance(scanned, compiler.current # ")")
  /\ IF compiler.current = ")"
     THEN /\ Allocate(Node("grouping", "none", <<Top.value>>, "unknown", 0))
          /\ Return(New)
     ELSE UNCHANGED <<phase, frames, heap, ast>>
  /\ UNCHANGED <<reused, freed>>

parse_grouping ==
  /\ Returned("grouping")
  /\ Consume(")")
  /\ Allocate(Node("grouping", "none", <<Top.value>>, "unknown", 0))
  /\ Return(New)
  /\ UNCHANGED <<reused, freed>>

parse_unary ==
  /\ Returned("unary")
  /\ Allocate(Node("unary", Top.operator, <<Top.value>>, "unknown", 0))
  /\ Return(New)
  /\ UNCHANGED <<compiler, scanned, reused, freed>>

\* Mutant: a missing second operand makes the whole NULL.
parse_binary_Propagate ==
  /\ Returned("binary")
  /\ IF Top.value = Null
     THEN Return(Null) /\ UNCHANGED heap
     ELSE /\ Allocate(Node("binary", Top.operator, <<Top.first, Top.value>>, "unknown", 0))
          /\ Return(New)
  /\ UNCHANGED <<compiler, scanned, reused, freed>>

parse_binary ==
  /\ Returned("binary")
  /\ Allocate(Node("binary", Top.operator, <<Top.first, Top.value>>, "unknown", 0))
  /\ Return(New)
  /\ UNCHANGED <<compiler, scanned, reused, freed>>

\* Mutant: the rest of the source is not looked at.
consume_eof_NoCheck ==
  /\ phase = "parsed"
  /\ phase' = IF ast = Null THEN "done" ELSE "print untyped"
  /\ UNCHANGED <<compiler, scanned, reused, frames, heap, ast, freed>>

consume_eof ==
  /\ phase = "parsed"
  /\ Consume("EOF")
  /\ phase' = IF ast = Null THEN "done" ELSE "print untyped"
  /\ UNCHANGED <<reused, frames, heap, ast, freed>>

\* ast_node_print follows every pointer it finds.
print ==
  /\ phase \in {"print untyped", "print typed"}
  /\ phase' = IF Null \in ToSet(Postorder(heap, ast)) THEN "crashed"
              ELSE IF phase = "print untyped" THEN "typecheck" ELSE "free"
  /\ UNCHANGED <<compiler, scanned, reused, frames, heap, ast, freed>>

\* The result of compiler_typecheck_ast is not used.
typecheck ==
  /\ phase = "typecheck"
  /\ heap' = [n \in 1 .. Len(heap) |->
                IF n \in ToSet(Postorder(heap, ast))
                THEN [heap[n] EXCEPT !.type = TypeOf(heap, n)] ELSE heap[n]]
  /\ phase' = "print typed"
  /\ UNCHANGED <<compiler, scanned, reused, frames, ast, freed>>

\* Mutant: free where ast_node_free is meant.
free_RootOnly ==
  /\ phase = "free"
  /\ freed' = <<ast>>
  /\ phase' = "done"
  /\ UNCHANGED <<compiler, scanned, reused, frames, heap, ast>>

free ==
  /\ phase = "free"
  /\ freed' = Postorder(heap, ast)
  /\ phase' = "done"
  /\ UNCHANGED <<compiler, scanned, reused, frames, heap, ast>>

compiler_init ==
  /\ phase = "done"
  /\ compiler' = [compiler EXCEPT !.is_error = FALSE, !.is_panic = FALSE]
  /\ phase' = "ready"
  /\ UNCHANGED <<scanned, reused, frames, heap, ast, freed>>

ParserInit ==
  /\ phase = "ready"
  /\ compiler = [current |-> "none", previous |-> "none",
                 is_panic |-> FALSE, is_error |-> FALSE]
  /\ scanned = << >>
  /\ reused = FALSE
  /\ frames = << >>
  /\ heap = << >>
  /\ ast = Null
  /\ freed = << >>

\* The steps of a compilation under way.
ParserStep ==
  \/ no_prefix \/ parse_literal \/ call_prefix \/ call_infix \/ leave_precedence
  \/ parse_grouping \/ parse_unary \/ parse_binary
  \/ consume_eof \/ print \/ typecheck \/ free

ParserNext == compiler_generate_ast \/ ParserStep \/ compiler_init

\* A compilation that was begun goes on.
ParserSpec == ParserInit /\ [][ParserNext]_parserVars /\ WF_parserVars(ParserStep)
-----------------------------------------------------------------------------
Pointers == 0 .. Len(heap)

\* Type invariant of the parser.
ParserTypeOK ==
  /\ phase \in {"ready", "parsing", "parsed", "print untyped", "typecheck",
                "print typed", "free", "done", "crashed"}
  /\ compiler \in [current  : TokenTypes \cup {"EOF", "none"},
                   previous : TokenTypes \cup {"EOF", "none"},
                   is_panic : BOOLEAN, is_error : BOOLEAN]
  /\ scanned \in Seq(TokenTypes \cup {"EOF", "ERROR"})
  /\ reused \in BOOLEAN
  /\ \A n \in 1 .. Len(heap) :
       /\ heap[n].kind \in {"value", "unary", "binary", "grouping"}
       /\ heap[n].type \in Kinds
       /\ \A k \in 1 .. Len(heap[n].children) : heap[n].children[k] \in 0 .. (n - 1)
  /\ \A i \in 1 .. Len(frames) : {frames[i].first, frames[i].value}
                                 \subseteq Pointers \cup {Pending}
  /\ ast \in Pointers
  /\ freed \in Seq(Pointers)

\* All the places that hold a pointer to a node: calls, nodes, the root.
Owners(n) ==
  {<<"first", i>> : i \in {j \in 1 .. Len(frames) : frames[j].first = n}}
  \cup {<<"value", i>> : i \in {j \in 1 .. Len(frames) : frames[j].value = n}}
  \cup (UNION {{<<"child", m, k>> :
                 k \in {j \in 1 .. Len(heap[m].children) : heap[m].children[j] = n}} :
                m \in 1 .. Len(heap)})
  \cup (IF ast = n THEN {<<"root">>} ELSE {})

(***************************************************************************)
(* At any moment every node that was allocated is owned by exactly one     *)
(* call in progress, one parent, or the root: error paths neither drop a   *)
(* subtree nor hand it to two parents.                                     *)
(***************************************************************************)
OwnedOnce ==
  phase # "crashed" =>
    \A n \in 1 .. Len(heap) : \E owner \in Owners(n) : Owners(n) = {owner}

\* When the compiler is done with a source, ast_node_free has released every
\* node once: no leak, no double free, whatever errors there were.
FreedOnce ==
  phase = "done" =>
    /\ Len(freed) = Len(heap)
    /\ ToSet(freed) = 1 .. Len(heap)

\* The source, when it was scanned to its end.
Source == Front(scanned)

(***************************************************************************)
(* compiler_generate_ast accepts exactly the sources of the grammar, that  *)
(* end where the expression ends and in which the lexer found no error,    *)
(* except that a Compiler that was not initialised again after an error    *)
(* accepts nothing.                                                        *)
(***************************************************************************)
VerdictExact ==
  phase = "done" =>
    (~compiler.is_error <=>
       ~reused /\ Ended(scanned) /\ Derivations(Source) # {})

TreeOf(node) ==
  LET tree[n \in 1 .. Len(heap)] ==
        LET it == heap[n]
        IN  CASE it.kind = "value"    -> Leaf(it.type, it.value)
              [] it.kind = "unary"    -> Unary(it.operator, tree[it.children[1]])
              [] it.kind = "grouping" -> Grouping(tree[it.children[1]])
              [] OTHER                -> Binary(it.operator, tree[it.children[1]],
                                                tree[it.children[2]])
  IN  tree[node]

\* The tree of an accepted source is its derivation, and it has only one:
\* precedence and associativity are those of the grammar.
TreeIsDerivation ==
  phase = "typecheck" /\ ~compiler.is_error =>
    Derivations(Source) = {TreeOf(ast)}

(***************************************************************************)
(* The parser calls a NULL function or follows a NULL child only for       *)
(* sources it does not accept: either it has reported an error, or it has  *)
(* taken a token that no rule handles for an infix operator.               *)
(***************************************************************************)
CrashExplained ==
  phase = "crashed" => \/ compiler.is_error
                       \/ compiler.previous \in {"+=", "-=", "->"}

(***************************************************************************)
(* compiler.h:92 gives the operators of level PREC_TERM: + and -.  The     *)
(* loop of compiler_parse_precedence, which calls the infix function of    *)
(* every token it accepts at that level, should only meet those.           *)
(***************************************************************************)
TermOperatorsListed ==
  AtInfix /\ PrecedenceOf(compiler.current) = PREC_TERM =>
    compiler.current \in TermOperators

(***************************************************************************)
(* compiler_generate_ast prints the tree only if the parse gave one.  That *)
(* test is meant to keep ast_node_print from NULL, so no child below the   *)
(* root should be missing either.                                          *)
(***************************************************************************)
ChildrenPresent ==
  phase = "print untyped" => Null \notin ToSet(Postorder(heap, ast))

(***************************************************************************)
(* Type inference, seen from the source.  It leaves no node unknown; the   *)
(* expression is invalid if and only if some | has an operand that is not  *)
(* Int; and a valid one is Int if and only if neither a Real literal nor a *)
(* division / occurs in it.                                                *)
(***************************************************************************)
TypesExact ==
  phase = "print typed" =>
    LET nodes   == {heap[n] : n \in 1 .. Len(heap)}
        type    == heap[ast].type
        broken  == \E n \in nodes : n.operator = "|" /\
                     \E k \in {1, 2} : heap[n.children[k]].type # "int"
        integer == \A n \in nodes :
                     n.operator # "/" /\ (n.kind = "value" => n.type = "int")
    IN  /\ \A n \in nodes : n.type # "unknown"
        /\ type = IF broken THEN "invalid" ELSE IF integer THEN "int" ELSE "real"

\* Every compilation ends: parse_precedence takes a token before each call
\* and each turn of its loop.
CompilationEnds == phase = "parsing" ~> phase \in {"done", "crashed"}
=============================================================================
