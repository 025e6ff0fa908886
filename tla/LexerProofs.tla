----------------------------- MODULE LexerProofs -----------------------------
(***************************************************************************)
(* Theorems about Lexer, for every set of texts and every bound: types,    *)
(* no step past the terminator, the order of the tokens, their lines and   *)
(* columns, and that a second pass repeats the first.                      *)
(***************************************************************************)
EXTENDS Lexer, Induction, FiniteSetTheorems, TLAPS

\* The loops that step over the characters of a token.
TokenLoops == {"identifier", "number", "fraction", "string"}

\* Where the text that belongs to no token yet begins.
Frontier == IF pc \in TokenLoops THEN lexer.start ELSE lexer.current

\* The pointers of the struct, and its column, which is never behind them.
PointersInv ==
  /\ 1 <= lexer.start /\ lexer.start <= lexer.current
  /\ lexer.current <= lexer.column + 1
  /\ pc # "astray" => lexer.current <= End
  /\ pc \in TokenLoops => lexer.start < lexer.current
  /\ pc = "string" => lexer.current = lexer.start + 1 /\ source[lexer.start] = Quote
  /\ pc = "astray" => lexer.start = Len(source) /\ source[lexer.start] = Quote

TokensInv ==
  /\ TokensInOrder
  /\ \A i \in 1 .. Len(tokens) : tokens[i].last < Frontier

LInv == LexerTypeOK /\ PointersInv /\ TokensInv

\* The types of tokens that have a text.
TextTypes == TokenTypesMade \ {"EOF", "ERROR"}
-----------------------------------------------------------------------------
\* A place that does not hold NUL is a place of the text; the text holds none.
LEMMA Characters ==
  ASSUME source \in Sources
  PROVE  /\ Len(source) \in Nat
         /\ \A p \in Nat : CharAt(p) # NUL => p \in 1 .. Len(source) /\ CharAt(p) = source[p]
         /\ \A p \in 1 .. Len(source) : CharAt(p) # NUL /\ CharAt(p) = source[p]
<1>1. source \in Seq(STRING) /\ \A i \in 1 .. Len(source) : source[i] # NUL
  BY LexerAssumption
<1> QED BY <1>1 DEF CharAt

\* None of the characters the lexer looks for is the terminator.
LEMMA NotTheEnd ==
  /\ NUL \notin Letters /\ NUL \notin Digits /\ NUL \notin Blanks /\ NUL # Quote
BY DEF NUL, Letters, Digits, Blanks, Quote

\* A character that is a token is a type of its own.
LEMMA SingleTypes == Single \subseteq TextTypes
BY DEF Single, TextTypes, TokenTypesMade

\* The other types the lexer makes.
LEMMA OtherTypes ==
  {"eol", "identifier", "int", "real", "string"} \subseteq TextTypes
BY DEF TextTypes, TokenTypesMade

\* lexer_match_next never takes the terminator for a second character.
LEMMA PairsAreText ==
  \A p \in Pairs : p[2] # NUL /\ p[3] \in TextTypes /\ p[3] # "eol"
BY DEF Pairs, NUL, TextTypes, TokenTypesMade

\* What an identifier is found to be is a token type.
LEMMA KeywordTypes ==
  \A word : lexer_determine_identifier_type(word) \in TextTypes \ {"eol"}
<1>1. \A k \in KeywordCases : k.type \in TextTypes \ {"eol"}
  BY DEF KeywordCases, TextTypes, TokenTypesMade
<1>2. "identifier" \in TextTypes \ {"eol"}
  BY DEF TextTypes, TokenTypesMade
<1> TAKE word
<1> DEFINE cases == {k \in KeywordCases : StartsWith(word, k.prefix)}
<1>3. CASE cases = {}
  BY <1>2, <1>3 DEF lexer_determine_identifier_type
<1>4. CASE cases # {}
  <2>1. (CHOOSE k \in cases : TRUE) \in KeywordCases
    <3> HIDE DEF KeywordCases
    <3> QED BY <1>4
  <2>2. lexer_determine_identifier_type(word)
          = lexer_check_keyword(word, CHOOSE k \in cases : TRUE)
    BY <1>4 DEF lexer_determine_identifier_type
  <2> HIDE DEF cases
  <2> QED BY <1>1, <1>2, <2>1, <2>2 DEF lexer_check_keyword
<1> QED BY <1>3, <1>4
-----------------------------------------------------------------------------
Structs == [start : Nat, current : Nat, line : Nat, column : Nat]
Loops == {"idle", "skip", "line_comment", "block_comment", "identifier",
          "number", "fraction", "string", "astray"}

\* The tokens made so far: records that end before the frontier.
LEMMA TokenFacts ==
  ASSUME LInv
  PROVE  /\ tokens \in Seq(TokenRecords) /\ Frontier \in Nat
         /\ \A i \in 1 .. Len(tokens) :
              tokens[i].last \in Nat /\ tokens[i].last < Frontier
<1>1. tokens \in Seq(TokenRecords)
  BY DEF LInv, LexerTypeOK
<1>2. \A i \in 1 .. Len(tokens) : tokens[i] \in TokenRecords
  BY <1>1
<1>3. \A i \in 1 .. Len(tokens) : tokens[i].last \in Nat
  BY <1>2 DEF TokenRecords
<1>4. Frontier \in Nat
  BY DEF Frontier, LInv, LexerTypeOK
<1>5. \A i \in 1 .. Len(tokens) : tokens[i].last < Frontier
  BY DEF LInv, TokensInv
<1> QED BY <1>1, <1>3, <1>4, <1>5

\* Appending to a sequence.
LEMMA Appended ==
  ASSUME NEW T, NEW s \in Seq(T), NEW e \in T
  PROVE  /\ Len(s) \in Nat /\ Append(s, e) \in Seq(T)
         /\ Len(Append(s, e)) = Len(s) + 1
         /\ \A i \in 1 .. Len(s) : Append(s, e)[i] = s[i]
         /\ Append(s, e)[Len(s) + 1] = e
OBVIOUS

\* A step that makes no token.
LEMMA GoInv ==
  ASSUME LInv, UNCHANGED <<source, tokens, printed>>,
         lexer' \in Structs, pc' \in Loops, PointersInv', Frontier <= Frontier'
  PROVE  LInv'
<1>1. source' = source /\ tokens' = tokens /\ printed' = printed
  OBVIOUS
<1>2. LexerTypeOK'
  BY <1>1 DEF LInv, LexerTypeOK, Structs, Loops
<1>4. TokensInOrder'
  BY <1>1 DEF LInv, TokensInv, TokensInOrder, End
<1>5. ASSUME NEW i \in 1 .. Len(tokens') PROVE tokens'[i].last < Frontier'
  <2>1. tokens[i].last \in Nat /\ tokens[i].last < Frontier /\ Frontier \in Nat
    BY <1>1, TokenFacts
  <2>2. Frontier' \in Nat
    BY DEF Frontier, Structs
  <2> QED BY <1>1, <2>1, <2>2
<1> QED BY <1>2, <1>4, <1>5 DEF LInv, TokensInv

\* A step that makes a token of the text from lexer'.start to lexer'.current.
LEMMA YieldInv ==
  ASSUME LInv, UNCHANGED <<source, printed>>, pc' = "idle",
         lexer' \in Structs, PointersInv', Frontier <= lexer'.start,
         \E token \in TokenRecords :
           /\ tokens' = Append(tokens, token)
           /\ token.first = lexer'.start /\ token.last = lexer'.current - 1
           /\ IF token.type = "EOF" THEN lexer'.start = End /\ lexer'.current = End
                                    ELSE lexer'.start < lexer'.current
  PROVE  LInv'
<1> PICK token \in TokenRecords :
           /\ tokens' = Append(tokens, token)
           /\ token.first = lexer'.start /\ token.last = lexer'.current - 1
           /\ IF token.type = "EOF" THEN lexer'.start = End /\ lexer'.current = End
                                    ELSE lexer'.start < lexer'.current
  OBVIOUS
<1>1. source' = source /\ printed' = printed
  OBVIOUS
<1>2. /\ tokens \in Seq(TokenRecords) /\ tokens' \in Seq(TokenRecords)
      /\ Len(tokens) \in Nat /\ Len(tokens') = Len(tokens) + 1
      /\ \A i \in 1 .. Len(tokens) : tokens'[i] = tokens[i]
      /\ tokens'[Len(tokens) + 1] = token
  BY TokenFacts, Appended
<1>3. LexerTypeOK'
  BY <1>1, <1>2 DEF LInv, LexerTypeOK, Structs
<1>5. Len(source) \in Nat /\ End = Len(source) + 1
  BY Characters DEF LInv, LexerTypeOK, End
<1>6. /\ lexer'.start \in Nat /\ lexer'.current \in Nat /\ Frontier \in Nat
      /\ 1 <= lexer'.start /\ lexer'.start <= lexer'.current /\ lexer'.current <= End
  BY <1>1, TokenFacts DEF Structs, PointersInv, End
<1>7. /\ token.first >= 1
      /\ IF token.type = "EOF"
         THEN token.first = End /\ token.last = End - 1
         ELSE token.first <= token.last /\ token.last <= Len(source)
  BY <1>5, <1>6
<1>8. ASSUME NEW i \in 1 .. Len(tokens)
      PROVE  tokens[i].last \in Nat /\ tokens[i].last < token.first
                                    /\ tokens[i].last < lexer'.current
  <2>1. tokens[i].last \in Nat /\ tokens[i].last < Frontier
    BY TokenFacts
  <2> QED BY <1>6, <2>1
<1>9. TokensInOrder'
  <2>1. End' = End /\ source' = source
    BY <1>1 DEF End
  <2>2. ASSUME NEW i \in 1 .. Len(tokens')
        PROVE  /\ tokens'[i].first >= 1
               /\ IF tokens'[i].type = "EOF"
                  THEN tokens'[i].first = End' /\ tokens'[i].last = End' - 1
                  ELSE /\ tokens'[i].first <= tokens'[i].last
                       /\ tokens'[i].last <= Len(source')
    <3>1. CASE i \in 1 .. Len(tokens)
      <4>1. tokens'[i] = tokens[i]
        BY <1>2, <3>1
      <4> QED BY <2>1, <3>1, <4>1 DEF LInv, TokensInv, TokensInOrder
    <3>2. CASE i = Len(tokens) + 1
      BY <1>2, <1>7, <2>1, <3>2
    <3> QED BY <1>2, <3>1, <3>2
  <2>3. ASSUME NEW i \in 1 .. Len(tokens'), NEW j \in 1 .. Len(tokens'), i < j
        PROVE  tokens'[i].last < tokens'[j].first
    <3>1. i \in 1 .. Len(tokens) /\ tokens'[i] = tokens[i]
      BY <1>2, <2>3
    <3>2. CASE j \in 1 .. Len(tokens)
      <4>1. tokens'[j] = tokens[j]
        BY <1>2, <3>2
      <4> QED BY <2>3, <3>1, <3>2, <4>1 DEF LInv, TokensInv, TokensInOrder
    <3>3. CASE j = Len(tokens) + 1
      BY <1>2, <1>8, <3>1, <3>3
    <3> QED BY <1>2, <3>2, <3>3
  <2> QED BY <2>2, <2>3 DEF TokensInOrder
<1>10. ASSUME NEW i \in 1 .. Len(tokens') PROVE tokens'[i].last < Frontier'
  <2>1. Frontier' = lexer'.current
    BY DEF Frontier, TokenLoops
  <2>2. CASE i \in 1 .. Len(tokens)
    BY <1>2, <1>8, <2>1, <2>2
  <2>3. CASE i = Len(tokens) + 1
    BY <1>2, <1>6, <2>1, <2>3
  <2> QED BY <1>2, <2>2, <2>3
<1> QED BY <1>3, <1>9, <1>10 DEF LInv, TokensInv
-----------------------------------------------------------------------------
\* The struct and the text in a state of the invariant.
LEMMA StructFacts ==
  ASSUME LInv
  PROVE  /\ source \in Sources /\ Len(source) \in Nat
         /\ End = Len(source) + 1 /\ End \in Nat
         /\ lexer \in Structs
         /\ lexer.start \in Nat /\ lexer.current \in Nat
         /\ lexer.line \in Nat /\ lexer.column \in Nat
         /\ 1 <= lexer.start /\ lexer.start <= lexer.current
         /\ lexer.current <= lexer.column + 1
         /\ pc # "astray" => lexer.current <= End
<1>1. source \in Sources /\ lexer \in Structs
  BY DEF LInv, LexerTypeOK, Structs
<1>2. Len(source) \in Nat
  BY <1>1, Characters
<1>3. /\ lexer.start \in Nat /\ lexer.current \in Nat
      /\ lexer.line \in Nat /\ lexer.column \in Nat
  BY <1>1 DEF Structs
<1>4. PointersInv
  BY DEF LInv
<1>5. End = Len(source) + 1 /\ End \in Nat
  BY <1>2 DEF End
<1> QED BY <1>1, <1>2, <1>3, <1>4, <1>5 DEF PointersInv

\* The fields after n calls of lexer_advance.
LEMMA AdvancedFields ==
  ASSUME LInv, NEW n \in Nat
  PROVE  /\ Advanced(n) \in Structs
         /\ Advanced(n).start = lexer.start
         /\ Advanced(n).current = lexer.current + n
         /\ Advanced(n).line = lexer.line
         /\ Advanced(n).column = lexer.column + n
         /\ Begun(n) \in Structs
         /\ Begun(n).start = lexer.current
         /\ Begun(n).current = lexer.current + n
         /\ Begun(n).line = lexer.line
         /\ Begun(n).column = lexer.column + n
<1>1. /\ lexer.start \in Nat /\ lexer.current \in Nat /\ lexer.line \in Nat
      /\ lexer.current + n \in Nat /\ lexer.column + n \in Nat
  BY StructFacts
<1>2. Advanced(n) \in Structs
  BY <1>1 DEF Advanced, Structs
<1>3. Begun(n) \in Structs
  BY <1>1 DEF Begun, Structs
<1>4. /\ Advanced(n).start = lexer.start
      /\ Advanced(n).current = lexer.current + n
      /\ Advanced(n).line = lexer.line
      /\ Advanced(n).column = lexer.column + n
  BY DEF Advanced
<1>5. /\ Begun(n).start = lexer.current
      /\ Begun(n).current = lexer.current + n
      /\ Begun(n).line = lexer.line
      /\ Begun(n).column = lexer.column + n
  BY DEF Begun
<1> QED BY <1>2, <1>3, <1>4, <1>5

\* A character that is not the terminator is in the text.
LEMMA PeekFacts ==
  ASSUME LInv
  PROVE  /\ Peek # NUL => lexer.current + 1 <= End /\ Peek = source[lexer.current]
         /\ CharAt(lexer.current + 1) # NUL => lexer.current + 2 <= End
         /\ Peek = NUL /\ pc # "astray" => lexer.current = End
<1>1. /\ lexer.current \in Nat /\ lexer.current + 1 \in Nat /\ 1 <= lexer.current
      /\ Len(source) \in Nat /\ End = Len(source) + 1 /\ source \in Sources
      /\ pc # "astray" => lexer.current <= End
  BY StructFacts
<1>2. Peek = CharAt(lexer.current)
  BY DEF Peek
<1>3. Peek # NUL => lexer.current \in 1 .. Len(source) /\ Peek = source[lexer.current]
  BY <1>1, <1>2, Characters
<1>4. CharAt(lexer.current + 1) # NUL => lexer.current + 1 \in 1 .. Len(source)
  BY <1>1, Characters
<1>5. lexer.current \in 1 .. Len(source) => Peek # NUL
  BY <1>1, <1>2, Characters
<1> QED BY <1>1, <1>3, <1>4, <1>5

\* A step between tokens: the frontier is the current character.
LEMMA SkipGo ==
  ASSUME LInv, UNCHANGED <<source, tokens, printed>>,
         pc \in {"idle", "skip", "line_comment", "block_comment"},
         pc' \in {"skip", "line_comment", "block_comment"},
         lexer' \in Structs, lexer'.start = lexer.start,
         lexer.current <= lexer'.current, lexer'.current <= End,
         lexer'.current <= lexer'.column + 1
  PROVE  LInv'
<1>1. /\ lexer.start \in Nat /\ lexer.current \in Nat
      /\ 1 <= lexer.start /\ lexer.start <= lexer.current
  BY StructFacts
<1>2. /\ lexer'.start \in Nat /\ lexer'.current \in Nat /\ lexer'.column \in Nat
      /\ End' = End /\ End \in Nat
  <2>1. lexer'.start \in Nat /\ lexer'.current \in Nat /\ lexer'.column \in Nat
    BY DEF Structs
  <2>2. End' = End
    BY DEF End
  <2> QED BY <2>1, <2>2, StructFacts
<1>3. pc' \in Loops /\ pc \notin TokenLoops /\ pc' \notin TokenLoops
      /\ pc' # "string" /\ pc' # "astray"
  BY DEF Loops, TokenLoops
<1>4. /\ 1 <= lexer'.start /\ lexer'.start <= lexer'.current
      /\ lexer'.current <= lexer'.column + 1 /\ lexer'.current <= End'
  <2>1. 1 <= lexer'.start
    BY <1>1
  <2>2. lexer'.start <= lexer.current
    BY <1>1
  <2>3. lexer'.start <= lexer'.current
    BY <1>1, <1>2, <2>2
  <2>4. lexer'.current <= End'
    BY <1>2
  <2> QED BY <2>1, <2>3, <2>4
<1>5. PointersInv'
  BY <1>3, <1>4 DEF PointersInv
<1>6. Frontier <= Frontier'
  BY <1>1, <1>2, <1>3 DEF Frontier
<1> QED BY <1>3, <1>5, <1>6, GoInv

\* lexer_skip_insignificant: the steps over blanks and comments.
LEMMA SkipInv ==
  ASSUME LInv,
         \/ lexer_scan_token \/ skip_whitespace \/ skip_comment
         \/ lexer_skip_single_line_comment \/ lexer_skip_multi_line_comment
  PROVE  LInv'
<1>1. SUFFICES ASSUME \/ lexer' = lexer
                      \/ lexer' = Advanced(1) /\ Peek # NUL
                      \/ lexer' = Advanced(2) /\ CharAt(lexer.current + 1) # NUL,
                      UNCHANGED <<source, tokens, printed>>,
                      pc \in {"idle", "skip", "line_comment", "block_comment"},
                      pc' \in {"skip", "line_comment", "block_comment"}
               PROVE  LInv'
  <2>1. CASE lexer_scan_token
    BY <2>1, <1>1 DEF lexer_scan_token, Go
  <2>2. CASE skip_whitespace
    BY <2>2, <1>1 DEF skip_whitespace, Go, Blanks, NUL
  <2>3. CASE skip_comment
    BY <2>3, <1>1 DEF skip_comment, Go
  <2>4. CASE lexer_skip_single_line_comment
    BY <2>4, <1>1 DEF lexer_skip_single_line_comment, Go
  <2>5. CASE lexer_skip_multi_line_comment
    BY <2>5, <1>1 DEF lexer_skip_multi_line_comment, Go, NUL
  <2> QED BY <2>1, <2>2, <2>3, <2>4, <2>5
<1>2. /\ lexer \in Structs /\ lexer.current <= lexer.column + 1 /\ lexer.current <= End
      /\ lexer.current \in Nat /\ lexer.column \in Nat
  BY <1>1, StructFacts
<1>3. CASE lexer' = lexer
  <2>1. /\ lexer' \in Structs /\ lexer'.start = lexer.start
        /\ lexer.current <= lexer'.current /\ lexer'.current <= End
        /\ lexer'.current <= lexer'.column + 1
    BY <1>2, <1>3
  <2> QED BY <1>1, <2>1, SkipGo
<1>4. CASE lexer' = Advanced(1) /\ Peek # NUL
  <2>1. /\ lexer' \in Structs /\ lexer'.start = lexer.start
        /\ lexer'.current = lexer.current + 1 /\ lexer'.column = lexer.column + 1
    BY <1>4, AdvancedFields
  <2>2. lexer.current + 1 <= End
    BY <1>4, PeekFacts
  <2>3. lexer.current <= lexer'.current /\ lexer'.current <= lexer'.column + 1
    BY <1>2, <2>1
  <2> QED BY <1>1, <2>1, <2>2, <2>3, SkipGo
<1>5. CASE lexer' = Advanced(2) /\ CharAt(lexer.current + 1) # NUL
  <2>1. /\ lexer' \in Structs /\ lexer'.start = lexer.start
        /\ lexer'.current = lexer.current + 2 /\ lexer'.column = lexer.column + 2
    BY <1>5, AdvancedFields
  <2>2. lexer.current + 2 <= End
    BY <1>5, PeekFacts
  <2>3. lexer.current <= lexer'.current /\ lexer'.current <= lexer'.column + 1
    BY <1>2, <2>1
  <2> QED BY <1>1, <2>1, <2>2, <2>3, SkipGo
<1> QED BY <1>1, <1>3, <1>4, <1>5
-----------------------------------------------------------------------------
\* The call makes a token of the text from l.start up to l.current.
Makes(l, type) ==
  /\ Yield(l, IF type = "ERROR" THEN lexer_make_error_token(l)
                                ELSE lexer_make_token(l, type))
  /\ Frontier <= l.start /\ 1 <= l.start /\ l.start <= l.current
  /\ l.current <= l.column + 1 /\ l.current <= End
  /\ IF type = "EOF" THEN l.start = End /\ l.current = End ELSE l.start < l.current

\* Making a token keeps LInv.
LEMMA MakesInv ==
  ASSUME LInv, \E l \in Structs, type \in TokenTypesMade : Makes(l, type)
  PROVE  LInv'
<1> PICK l \in Structs, type \in TokenTypesMade : Makes(l, type)
  OBVIOUS
<1> DEFINE token == IF type = "ERROR" THEN lexer_make_error_token(l)
                                      ELSE lexer_make_token(l, type)
<1>1. /\ lexer' = l /\ tokens' = Append(tokens, token) /\ pc' = "idle"
      /\ UNCHANGED <<source, printed>>
  BY DEF Makes, Yield
<1>2. /\ l.start \in Nat /\ l.current \in Nat /\ l.line \in Nat /\ l.column \in Nat
  BY DEF Structs
<1>3. /\ Frontier <= l.start /\ 1 <= l.start /\ l.start <= l.current
      /\ l.current <= l.column + 1 /\ l.current <= End
      /\ IF type = "EOF" THEN l.start = End /\ l.current = End ELSE l.start < l.current
  BY DEF Makes
<1>4. l.current - 1 \in Nat /\ l.column - (l.current - l.start) + 1 \in Nat
  BY <1>2, <1>3
<1>5. /\ token \in TokenRecords /\ token.type = type
      /\ token.first = l.start /\ token.last = l.current - 1
  <2>1. CASE type = "ERROR"
    BY <1>2, <1>4, <2>1 DEF lexer_make_error_token, TokenRecords
  <2>2. CASE type # "ERROR"
    BY <1>2, <1>4, <2>2 DEF lexer_make_token, TokenRecords
  <2> QED BY <2>1, <2>2
<1>6. PointersInv'
  <2>1. pc' \notin TokenLoops /\ pc' # "string" /\ pc' # "astray"
    BY <1>1 DEF TokenLoops
  <2>2. End' = End
    BY <1>1 DEF End
  <2>3. /\ 1 <= lexer'.start /\ lexer'.start <= lexer'.current
        /\ lexer'.current <= lexer'.column + 1 /\ lexer'.current <= End'
    BY <1>1, <1>3, <2>2
  <2> QED BY <2>1, <2>3 DEF PointersInv
<1> HIDE DEF token
<1> QED BY <1>1, <1>3, <1>5, <1>6, YieldInv

\* lexer_make_eof_token and lexer_make_eol_token.
LEMMA EndMakes ==
  ASSUME LInv, lexer_make_eof_token \/ lexer_make_eol_token
  PROVE  /\ AtToken /\ Peek \in {NUL, "\n"}
         /\ \E l \in Structs, type \in TokenTypesMade :
              /\ Makes(l, type)
              /\ type = IF Peek = NUL THEN "EOF" ELSE "eol"
              /\ l.start = lexer.current
              /\ l.current = lexer.current + (IF type = "eol" THEN 1 ELSE 0)
              /\ l.line = lexer.line + (IF type = "eol" THEN 1 ELSE 0)
              /\ l.column = lexer.column + 1
<1>1. /\ pc = "skip" /\ pc \notin TokenLoops /\ Frontier = lexer.current
  BY DEF lexer_make_eof_token, lexer_make_eol_token, AtToken, Frontier, TokenLoops
<1>2. /\ lexer.current \in Nat /\ lexer.line \in Nat /\ lexer.column \in Nat
      /\ 1 <= lexer.current /\ lexer.current <= lexer.column + 1 /\ End \in Nat
  BY StructFacts
<1>3. CASE lexer_make_eof_token
  <2> DEFINE l == [start |-> lexer.current, current |-> lexer.current,
                   line  |-> lexer.line,    column  |-> lexer.column + 1]
  <2>1. Yield(l, lexer_make_token(l, "EOF")) /\ Peek = NUL
    BY <1>3 DEF lexer_make_eof_token
  <2>2. lexer.current = End
    BY <1>1, <2>1, PeekFacts
  <2>3. /\ l \in Structs /\ l.start = lexer.current /\ l.current = lexer.current
        /\ l.line = lexer.line /\ l.column = lexer.column + 1
    BY <1>2 DEF Structs
  <2> HIDE DEF l
  <2>4. Makes(l, "EOF")
    BY <1>1, <1>2, <2>1, <2>2, <2>3 DEF Makes
  <2>5. "EOF" \in TokenTypesMade
    BY DEF TokenTypesMade
  <2>6. /\ l.current = lexer.current + (IF "EOF" = "eol" THEN 1 ELSE 0)
        /\ l.line = lexer.line + (IF "EOF" = "eol" THEN 1 ELSE 0)
    BY <1>2, <2>3
  <2> QED BY <1>3, <2>1, <2>3, <2>4, <2>5, <2>6 DEF lexer_make_eof_token
<1>4. CASE lexer_make_eol_token
  <2> DEFINE l == [start |-> lexer.current,  current |-> lexer.current + 1,
                   line  |-> lexer.line + 1, column  |-> lexer.column + 1]
  <2>1. Yield(l, lexer_make_token(l, "eol")) /\ Peek = "\n"
    BY <1>4 DEF lexer_make_eol_token
  <2>2. lexer.current + 1 <= End
    <3>1. Peek # NUL
      BY <2>1 DEF NUL
    <3> QED BY <3>1, PeekFacts
  <2>3. /\ l \in Structs /\ l.start = lexer.current /\ l.current = lexer.current + 1
        /\ l.line = lexer.line + 1 /\ l.column = lexer.column + 1
    BY <1>2 DEF Structs
  <2> HIDE DEF l
  <2>4. Makes(l, "eol")
    BY <1>1, <1>2, <2>1, <2>2, <2>3 DEF Makes
  <2>5. "eol" \in TokenTypesMade
    BY DEF TokenTypesMade
  <2>6. Peek # NUL
    BY <2>1 DEF NUL
  <2> QED BY <1>4, <2>1, <2>3, <2>4, <2>5, <2>6 DEF lexer_make_eol_token
<1> QED BY <1>3, <1>4

\* The switch of lexer_scan_token.
PairsHere == {p \in Pairs : p[1] = Peek /\ p[2] = CharAt(lexer.current + 1)}

\* What the switch over the operators makes: a pair, a single character or an error.
LEMMA OperatorMakes ==
  ASSUME LInv, scan_operator
  PROVE  /\ AtToken /\ Peek \notin Letters \cup Digits \cup {Quote, "\n", NUL}
         /\ \/ \E p \in PairsHere : /\ Makes(Begun(2), p[3])
                                   /\ p[3] \in TokenTypesMade \ {"EOF", "ERROR", "eol"}
            \/ /\ PairsHere = {} /\ Peek \in Single /\ Makes(Begun(1), Peek)
               /\ Peek \in TokenTypesMade \ {"EOF", "ERROR", "eol"}
            \/ /\ PairsHere = {} /\ Peek \notin Single /\ Makes(Begun(1), "ERROR")
<1>1. /\ pc \notin TokenLoops /\ Frontier = lexer.current /\ Peek # NUL
  BY DEF scan_operator, AtToken, Frontier, TokenLoops
<1>2. /\ lexer.current \in Nat /\ lexer.column \in Nat /\ End \in Nat
      /\ 1 <= lexer.current /\ lexer.current <= lexer.column + 1
      /\ lexer.current + 1 <= End
  BY <1>1, StructFacts, PeekFacts
<1>0. AtToken /\ Peek \notin Letters \cup Digits \cup {Quote, "\n", NUL}
  BY DEF scan_operator
<1>3. CASE \E p \in PairsHere : Yield(Begun(2), lexer_make_token(Begun(2), p[3]))
  <2> PICK p \in PairsHere : Yield(Begun(2), lexer_make_token(Begun(2), p[3]))
    BY <1>3
  <2>1. p[2] # NUL /\ p[2] = CharAt(lexer.current + 1) /\ p[3] \in TextTypes /\ p[3] # "eol"
    BY PairsAreText DEF PairsHere
  <2>2. lexer.current + 2 <= End
    BY <2>1, PeekFacts
  <2>3. p[3] \in TokenTypesMade /\ p[3] # "EOF" /\ p[3] # "ERROR"
    BY <2>1 DEF TextTypes
  <2>4. /\ Begun(2) \in Structs /\ Begun(2).start = lexer.current
        /\ Begun(2).current = lexer.current + 2 /\ Begun(2).column = lexer.column + 2
    BY AdvancedFields
  <2>5. Makes(Begun(2), p[3])
    BY <1>1, <1>2, <2>2, <2>3, <2>4 DEF Makes
  <2> QED BY <1>0, <2>1, <2>3, <2>5
<1>4. /\ Begun(1) \in Structs /\ Begun(1).start = lexer.current
      /\ Begun(1).current = lexer.current + 1 /\ Begun(1).column = lexer.column + 1
  BY AdvancedFields
<1>5. CASE /\ PairsHere = {} /\ Peek \in Single
           /\ Yield(Begun(1), lexer_make_token(Begun(1), Peek))
  <2>1. Peek \in TokenTypesMade /\ Peek # "EOF" /\ Peek # "ERROR" /\ Peek # "eol"
    BY <1>5, SingleTypes DEF TextTypes, Single
  <2>2. Makes(Begun(1), Peek)
    BY <1>1, <1>2, <1>4, <1>5, <2>1 DEF Makes
  <2> QED BY <1>0, <1>5, <2>1, <2>2
<1>6. CASE /\ PairsHere = {} /\ Peek \notin Single
           /\ Yield(Begun(1), lexer_make_error_token(Begun(1)))
  <2>1. Makes(Begun(1), "ERROR")
    BY <1>1, <1>2, <1>4, <1>6 DEF Makes
  <2> QED BY <1>0, <1>6, <2>1
<1> QED BY <1>3, <1>5, <1>6 DEF scan_operator, PairsHere
-----------------------------------------------------------------------------
\* The first character of a word, a number or a string.
LEMMA FirstInv ==
  ASSUME LInv, scan_first
  PROVE  LInv'
<1>1. /\ UNCHANGED <<source, tokens, printed>> /\ pc = "skip" /\ lexer' = Begun(1)
      /\ pc' \in {"identifier", "number", "string"}
      /\ pc' = "string" => Peek = Quote
      /\ Peek # NUL
  <2>1. CASE Peek \in Letters /\ Go(Begun(1), "identifier")
    BY <2>1, NotTheEnd DEF scan_first, AtToken, Go
  <2>2. CASE Peek \in Digits /\ Go(Begun(1), "number")
    BY <2>2, NotTheEnd DEF scan_first, AtToken, Go
  <2>3. CASE Peek = Quote /\ Go(Begun(1), "string")
    BY <2>3, NotTheEnd DEF scan_first, AtToken, Go
  <2> QED BY <2>1, <2>2, <2>3 DEF scan_first
<1>2. /\ lexer' \in Structs /\ lexer'.start = lexer.current
      /\ lexer'.current = lexer.current + 1 /\ lexer'.column = lexer.column + 1
  BY <1>1, AdvancedFields
<1>3. /\ lexer.current \in Nat /\ lexer.column \in Nat
      /\ 1 <= lexer.current /\ lexer.current <= lexer.column + 1
  BY StructFacts
<1>4. lexer.current + 1 <= End /\ Peek = source[lexer.current]
  BY <1>1, PeekFacts
<1>5. /\ pc' \in Loops /\ pc' \in TokenLoops /\ pc' # "astray" /\ pc \notin TokenLoops
  BY <1>1 DEF Loops, TokenLoops
<1>6. /\ 1 <= lexer'.start /\ lexer'.start < lexer'.current
      /\ lexer'.start <= lexer'.current /\ lexer'.current <= lexer'.column + 1
  BY <1>2, <1>3
<1>7. lexer'.current <= End' /\ source' = source
  BY <1>1, <1>2, <1>4 DEF End
<1>8. pc' = "string" => source'[lexer'.start] = Quote
  BY <1>1, <1>2, <1>4, <1>7
<1>9. pc' = "string" => lexer'.current = lexer'.start + 1
  BY <1>2
<1>10. PointersInv'
  BY <1>5, <1>6, <1>7, <1>8, <1>9 DEF PointersInv
<1>11. Frontier <= Frontier'
  BY <1>2, <1>3, <1>5 DEF Frontier
<1> QED BY <1>1, <1>2, <1>5, <1>10, <1>11, GoInv

\* One more character of a word or of a number.
LEMMA NextInv ==
  ASSUME LInv, UNCHANGED <<source, tokens, printed>>, lexer' = Advanced(1),
         pc \in {"identifier", "number", "fraction"},
         pc' \in {"identifier", "number", "fraction"}, Peek # NUL
  PROVE  LInv'
<1>1. /\ lexer' \in Structs /\ lexer'.start = lexer.start
      /\ lexer'.current = lexer.current + 1 /\ lexer'.column = lexer.column + 1
  BY AdvancedFields
<1>2. /\ lexer.start \in Nat /\ lexer.current \in Nat /\ lexer.column \in Nat
      /\ 1 <= lexer.start /\ lexer.start <= lexer.current
      /\ lexer.current <= lexer.column + 1
  BY StructFacts
<1>3. lexer.current + 1 <= End
  BY PeekFacts
<1>4. /\ pc \in TokenLoops /\ pc' \in TokenLoops /\ pc' \in Loops
      /\ pc' # "string" /\ pc' # "astray"
  BY DEF Loops, TokenLoops
<1>5. /\ 1 <= lexer'.start /\ lexer'.start < lexer'.current
      /\ lexer'.start <= lexer'.current /\ lexer'.current <= lexer'.column + 1
  BY <1>1, <1>2
<1>6. lexer'.current <= End'
  BY <1>1, <1>3 DEF End
<1>7. PointersInv'
  BY <1>4, <1>5, <1>6 DEF PointersInv
<1>8. Frontier <= Frontier'
  BY <1>1, <1>2, <1>4 DEF Frontier
<1> QED BY <1>1, <1>4, <1>7, <1>8, GoInv

\* The end of a word or of a number.
LEMMA LastMakes ==
  ASSUME LInv, pc \in {"identifier", "number", "fraction"}, NEW type \in TextTypes,
         Yield(lexer, lexer_make_token(lexer, type))
  PROVE  Makes(lexer, type)
<1>1. type \in TokenTypesMade /\ type # "EOF" /\ type # "ERROR"
  BY DEF TextTypes
<1>2. /\ lexer \in Structs /\ lexer.start \in Nat /\ 1 <= lexer.start
      /\ lexer.start <= lexer.current /\ lexer.current <= lexer.column + 1
  BY StructFacts
<1>3. /\ lexer.start < lexer.current /\ lexer.current <= End /\ Frontier = lexer.start
  BY DEF LInv, PointersInv, Frontier, TokenLoops
<1> QED BY <1>1, <1>2, <1>3 DEF Makes

\* lexer_scan_identifier and lexer_scan_number: one more character, or the
\* token.
LEMMA WordMakes ==
  ASSUME LInv, lexer_scan_identifier \/ lexer_scan_number \/ lexer_scan_fraction
  PROVE  \/ /\ UNCHANGED <<source, tokens, printed>> /\ lexer' = Advanced(1) /\ Peek # NUL
            /\ \/ pc = "identifier" /\ pc' = "identifier" /\ Peek \in Letters \cup Digits
               \/ pc = "number" /\ pc' = "number" /\ Peek \in Digits
               \/ pc = "number" /\ pc' = "fraction" /\ Peek = "."
               \/ pc = "fraction" /\ pc' = "fraction" /\ Peek \in Digits
         \/ \E type \in TextTypes \ {"eol"} :
              /\ Makes(lexer, type)
              /\ \/ /\ pc = "identifier" /\ Peek \notin Letters \cup Digits
                    /\ type = lexer_determine_identifier_type(
                                SubSeq(source, lexer.start, lexer.current - 1))
                 \/ pc = "number" /\ Peek \notin Digits \cup {"."} /\ type = "int"
                 \/ pc = "fraction" /\ Peek \notin Digits /\ type = "real"
<1>1. Peek \in Letters \cup Digits => Peek # NUL
  BY NotTheEnd
<1>2. CASE lexer_scan_identifier
  <2>1. CASE Peek \in Letters \cup Digits
    BY <1>1, <1>2, <2>1 DEF lexer_scan_identifier, Go
  <2>2. CASE Peek \notin Letters \cup Digits
    <3> DEFINE type == lexer_determine_identifier_type(
                         SubSeq(source, lexer.start, lexer.current - 1))
    <3>1. type \in TextTypes /\ type # "eol"
      BY KeywordTypes
    <3>2. pc = "identifier" /\ Yield(lexer, lexer_make_token(lexer, type))
      BY <1>2, <2>2 DEF lexer_scan_identifier
    <3> HIDE DEF type
    <3>3. Makes(lexer, type)
      BY <3>1, <3>2, LastMakes
    <3> QED BY <2>2, <3>1, <3>2, <3>3 DEF type
  <2> QED BY <2>1, <2>2
<1>3. CASE lexer_scan_number
  <2>1. CASE Peek \in Digits
    BY <1>1, <1>3, <2>1 DEF lexer_scan_number, Go
  <2>2. CASE Peek \notin Digits /\ Peek = "."
    BY <1>3, <2>2 DEF lexer_scan_number, Go, NUL
  <2>3. CASE Peek \notin Digits /\ Peek # "."
    <3>1. pc = "number" /\ Yield(lexer, lexer_make_token(lexer, "int"))
      BY <1>3, <2>3 DEF lexer_scan_number
    <3>2. "int" \in TextTypes \ {"eol"} /\ Makes(lexer, "int")
      BY <3>1, OtherTypes, LastMakes
    <3> QED BY <2>3, <3>1, <3>2
  <2> QED BY <2>1, <2>2, <2>3
<1>4. CASE lexer_scan_fraction
  <2>1. CASE Peek \in Digits
    BY <1>1, <1>4, <2>1 DEF lexer_scan_fraction, Go
  <2>2. CASE Peek \notin Digits
    <3>1. pc = "fraction" /\ Yield(lexer, lexer_make_token(lexer, "real"))
      BY <1>4, <2>2 DEF lexer_scan_fraction
    <3>2. "real" \in TextTypes \ {"eol"} /\ Makes(lexer, "real")
      BY <3>1, OtherTypes, LastMakes
    <3> QED BY <2>2, <3>1, <3>2
  <2> QED BY <2>1, <2>2
<1> QED BY <1>2, <1>3, <1>4

\* The loops over words and numbers keep LInv.
LEMMA WordInv ==
  ASSUME LInv, lexer_scan_identifier \/ lexer_scan_number \/ lexer_scan_fraction
  PROVE  LInv'
<1>1. CASE /\ UNCHANGED <<source, tokens, printed>> /\ lexer' = Advanced(1) /\ Peek # NUL
           /\ pc \in {"identifier", "number", "fraction"}
           /\ pc' \in {"identifier", "number", "fraction"}
  BY <1>1, NextInv
<1>2. CASE \E type \in TextTypes : Makes(lexer, type)
  BY <1>2, StructFacts, MakesInv DEF TextTypes
<1> QED BY <1>1, <1>2, WordMakes

(***************************************************************************)
(* lexer_scan_string: that it leaves the block at the end of the text only *)
(* if the text ends with the quote follows from its making a token of      *)
(* whatever single character follows a quote.                              *)
(***************************************************************************)
LEMMA StringMakes ==
  ASSUME LInv, lexer_scan_string
  PROVE  /\ pc = "string"
         /\ \/ /\ UNCHANGED <<source, tokens, printed>> /\ lexer' = Advanced(1)
               /\ pc' = "astray" /\ Peek = NUL /\ LInv'
            \/ Peek = "\n" /\ Makes(lexer, "ERROR")
            \/ Peek \notin {NUL, "\n"} /\ Makes(Advanced(1), "string")
<1>1. /\ pc = "string" /\ pc \in TokenLoops /\ pc # "astray" /\ Frontier = lexer.start
  BY DEF lexer_scan_string, TokenLoops, Frontier
<1>2. /\ lexer \in Structs /\ lexer.start \in Nat /\ lexer.current \in Nat
      /\ lexer.column \in Nat /\ 1 <= lexer.start /\ lexer.current <= lexer.column + 1
      /\ lexer.current <= End /\ Len(source) \in Nat /\ End = Len(source) + 1
  BY <1>1, StructFacts
<1>3. lexer.current = lexer.start + 1 /\ source[lexer.start] = Quote
  BY <1>1 DEF LInv, PointersInv
<1>4. /\ Advanced(1) \in Structs /\ Advanced(1).start = lexer.start
      /\ Advanced(1).current = lexer.current + 1
      /\ Advanced(1).column = lexer.column + 1
  BY AdvancedFields
<1>5. CASE Peek = NUL
  <2>1. /\ lexer' = Advanced(1) /\ pc' = "astray" /\ UNCHANGED <<source, tokens, printed>>
    BY <1>5 DEF lexer_scan_string, Go, NUL
  <2>2. lexer.current = End
    BY <1>1, <1>5, PeekFacts
  <2>3. lexer'.start = Len(source') /\ source'[lexer'.start] = Quote
    BY <1>2, <1>3, <1>4, <2>1, <2>2
  <2>4. /\ 1 <= lexer'.start /\ lexer'.start <= lexer'.current
        /\ lexer'.current <= lexer'.column + 1
    BY <1>2, <1>3, <1>4, <2>1
  <2>5. /\ pc' \in Loops /\ pc' \notin TokenLoops /\ pc' # "string"
    BY <2>1 DEF Loops, TokenLoops
  <2>6. PointersInv'
    BY <2>1, <2>3, <2>4, <2>5 DEF PointersInv
  <2>7. Frontier <= Frontier'
    BY <1>1, <1>2, <1>3, <1>4, <2>1, <2>5 DEF Frontier
  <2>8. lexer' \in Structs
    BY <1>4, <2>1
  <2> QED BY <1>1, <1>5, <2>1, <2>5, <2>6, <2>7, <2>8, GoInv
<1>6. CASE Peek = "\n"
  <2>1. Yield(lexer, lexer_make_error_token(lexer))
    BY <1>6 DEF lexer_scan_string, NUL
  <2>2. Makes(lexer, "ERROR")
    BY <1>1, <1>2, <1>3, <2>1 DEF Makes
  <2> QED BY <1>1, <1>6, <2>2
<1>7. CASE Peek # NUL /\ Peek # "\n"
  <2>1. Yield(Advanced(1), lexer_make_token(Advanced(1), "string"))
    BY <1>7 DEF lexer_scan_string
  <2>2. lexer.current + 1 <= End
    BY <1>7, PeekFacts
  <2> DEFINE l == Advanced(1)
  <2>3. /\ Frontier <= l.start /\ 1 <= l.start /\ l.start < l.current
        /\ l.current <= l.column + 1 /\ l.current <= End
    BY <1>1, <1>2, <1>3, <1>4, <2>2
  <2>4. l \in Structs /\ l.start \in Nat /\ l.current \in Nat
    BY <1>2, <1>4
  <2> HIDE DEF l
  <2>5. Makes(l, "string")
    BY <2>1, <2>3, <2>4 DEF Makes, l
  <2> QED BY <1>1, <1>7, <2>5 DEF l
<1> QED BY <1>5, <1>6, <1>7

\* The steps that make a token.
LEMMA TokenInv ==
  ASSUME LInv, \/ lexer_make_eof_token \/ lexer_make_eol_token
               \/ scan_operator \/ lexer_scan_string
  PROVE  LInv'
<1>1. "ERROR" \in TokenTypesMade /\ "string" \in TokenTypesMade
  BY DEF TokenTypesMade
<1>2. lexer \in Structs /\ Advanced(1) \in Structs /\ Begun(1) \in Structs /\ Begun(2) \in Structs
  BY StructFacts, AdvancedFields
<1>3. CASE lexer_make_eof_token \/ lexer_make_eol_token
  BY <1>3, EndMakes, MakesInv
<1>4. CASE scan_operator
  BY <1>1, <1>2, <1>4, OperatorMakes, MakesInv
<1>5. CASE lexer_scan_string
  BY <1>1, <1>2, <1>5, StringMakes, MakesInv
<1> QED BY <1>3, <1>4, <1>5
-----------------------------------------------------------------------------
\* What lexer_init and lexer_reset leave behind.
Fresh ==
  /\ source \in Sources /\ pc = "idle" /\ tokens = << >>
  /\ lexer = [start |-> 1, current |-> 1, line |-> 1, column |-> 0]
  /\ printed \in Seq(TokenRecords)

\* A lexer that is fresh satisfies LInv.
LEMMA FreshInv == Fresh => LInv
<1> SUFFICES ASSUME Fresh PROVE LInv
  OBVIOUS
<1> USE DEF Fresh
<1>1. Len(source) \in Nat /\ End = Len(source) + 1
  BY Characters DEF End
<1>2. pc \notin TokenLoops /\ pc # "string" /\ pc # "astray"
  BY DEF TokenLoops
<1>3. LexerTypeOK
  BY DEF LexerTypeOK
<1>4. PointersInv
  BY <1>1, <1>2 DEF PointersInv
<1>5. Len(tokens) = 0
  OBVIOUS
<1>6. TokensInv
  BY <1>5 DEF TokensInv, TokensInOrder
<1> QED BY <1>3, <1>4, <1>6 DEF LInv

\* lexer_reset leaves such a lexer.
LEMMA ResetInv ==
  ASSUME LInv, lexer_reset
  PROVE  LInv'
<1>1. Fresh'
  BY DEF lexer_reset, LInv, LexerTypeOK, Fresh
<1>2. Fresh' => LInv'
  BY FreshInv, PTL
<1> QED BY <1>1, <1>2

\* LInv is inductive.
LEMMA LInvKept == LInv /\ [LexerNext]_lexerVars => LInv'
<1> SUFFICES ASSUME LInv, [LexerNext]_lexerVars PROVE LInv'
  OBVIOUS
<1>1. CASE UNCHANGED lexerVars
  BY <1>1 DEF lexerVars, LInv, LexerTypeOK, PointersInv, TokensInv, TokensInOrder,
              Frontier, End
<1>2. CASE LexerNext
  BY <1>2, SkipInv, TokenInv, FirstInv, WordInv, ResetInv
     DEF LexerNext, ScanStep
<1> QED BY <1>1, <1>2

\* LInv holds when a text is given.
LEMMA FirstLInv == lexer_init => LInv
<1> SUFFICES ASSUME lexer_init PROVE LInv
  OBVIOUS
<1>1. << >> \in Seq(TokenRecords)
  OBVIOUS
<1> QED BY <1>1, FreshInv DEF lexer_init, Fresh

\* So it always holds.
LEMMA Inductive == LexerSpec => []LInv
<1>1. lexer_init => LInv
  BY FirstLInv
<1>2. LInv /\ [LexerNext]_lexerVars => LInv'
  BY LInvKept
<1> QED BY <1>1, <1>2, PTL DEF LexerSpec

(***************************************************************************)
(* Type correctness of the lexer, for every set of texts and every bound.  *)
(***************************************************************************)
THEOREM TypeCorrect == LexerSpec => []LexerTypeOK
<1>1. LInv => LexerTypeOK
  BY DEF LInv
<1> QED BY <1>1, Inductive, PTL

(***************************************************************************)
(* No loop of the lexer (lexer.c:149-187, 277-316) steps past the          *)
(* terminator of any text that does not end with a quote.                  *)
(***************************************************************************)
THEOREM NeverPastTheEnd == LexerSpec => []StaysInSource
<1>1. LInv => StaysInSource
  BY DEF LInv, PointersInv, StaysInSource
<1> QED BY <1>1, Inductive, PTL

(***************************************************************************)
(* The tokens of lexer_scan_token (lexer.c:319-394) follow one another in  *)
(* every text, none overlaps another or is empty except the end.           *)
(***************************************************************************)
THEOREM InOrder == LexerSpec => []TokensInOrder
<1>1. LInv => TokensInOrder
  BY DEF LInv, TokensInv
<1> QED BY <1>1, Inductive, PTL
-----------------------------------------------------------------------------
\* The tokens of a type among the first n of a sequence.
OfType(s, type, n) == {j \in 1 .. n : s[j].type = type}

\* The tokens of one type are finitely many, so that they can be counted.
LEMMA OfTypeFinite ==
  ASSUME NEW s, NEW type, NEW n \in Nat
  PROVE  IsFiniteSet(OfType(s, type, n)) /\ Cardinality(OfType(s, type, n)) \in Nat
<1>1. IsFiniteSet(1 .. n)
  BY FS_Interval
<1>2. OfType(s, type, n) \subseteq 1 .. n
  BY DEF OfType
<1> QED BY <1>1, <1>2, FS_Subset, FS_CardinalityType

\* One more token: how many there are of a type.
LEMMA OfTypeAppended ==
  ASSUME NEW s \in Seq(TokenRecords), NEW e \in TokenRecords, NEW type
  PROVE  /\ \A n \in 0 .. Len(s) : OfType(Append(s, e), type, n) = OfType(s, type, n)
         /\ Cardinality(OfType(Append(s, e), type, Len(s) + 1)) =
              Cardinality(OfType(s, type, Len(s))) + (IF e.type = type THEN 1 ELSE 0)
<1> DEFINE new == Append(s, e)
<1>1. /\ Len(s) \in Nat /\ new[Len(s) + 1] = e
      /\ \A i \in 1 .. Len(s) : new[i] = s[i]
  BY Appended
<1> HIDE DEF new
<1>2. ASSUME NEW n \in 0 .. Len(s) PROVE OfType(new, type, n) = OfType(s, type, n)
  <2>1. \A j \in 1 .. n : new[j] = s[j]
    BY <1>1
  <2> QED BY <2>1 DEF OfType
<1>3. OfType(new, type, Len(s) + 1) =
        IF e.type = type THEN OfType(s, type, Len(s)) \cup {Len(s) + 1}
                         ELSE OfType(s, type, Len(s))
  <2>1. \A j : j \in 1 .. Len(s) + 1 <=> j \in 1 .. Len(s) \/ j = Len(s) + 1
    BY <1>1
  <2> QED BY <1>1, <2>1 DEF OfType
<1>4. Len(s) + 1 \notin OfType(s, type, Len(s))
  BY <1>1 DEF OfType
<1>5. Cardinality(OfType(new, type, Len(s) + 1)) =
        Cardinality(OfType(s, type, Len(s))) + (IF e.type = type THEN 1 ELSE 0)
  <2>1. CASE e.type = type
    BY <1>1, <1>3, <1>4, <2>1, OfTypeFinite, FS_AddElement
  <2>2. CASE e.type # type
    BY <1>1, <1>3, <2>2, OfTypeFinite
  <2> QED BY <2>1, <2>2
<1> QED BY <1>2, <1>5 DEF new

\* What PositionsExact says of the i-th token.
Positioned(s, i) ==
  /\ s[i].line = 1 + Cardinality(OfType(s, "eol", i))
  /\ s[i].column = CASE s[i].type = "EOF"   -> s[i].first + Cardinality(OfType(s, "EOF", i))
                     [] s[i].type = "ERROR" -> s[i].last
                     [] OTHER               -> s[i].first

\* PositionsExact, one token at a time.
LEMMA PositionsAre ==
  LInv => /\ PositionsExact <=> \A i \in 1 .. Len(tokens) : Positioned(tokens, i)
          /\ Ends = OfType(tokens, "EOF", Len(tokens))
<1> SUFFICES ASSUME LInv
             PROVE  /\ PositionsExact <=> \A i \in 1 .. Len(tokens) : Positioned(tokens, i)
                    /\ Ends = OfType(tokens, "EOF", Len(tokens))
  OBVIOUS
<1>1. Len(tokens) \in Nat
  BY TokenFacts, Appended
<1>2. ASSUME NEW i \in 1 .. Len(tokens)
      PROVE  /\ {j \in 1 .. i : tokens[j].type = "eol"} = OfType(tokens, "eol", i)
             /\ {j \in Ends : j <= i} = OfType(tokens, "EOF", i)
  BY <1>1 DEF OfType, Ends
<1>3. Ends = OfType(tokens, "EOF", Len(tokens))
  BY DEF OfType, Ends
<1> QED BY <1>2, <1>3 DEF PositionsExact, Positioned

(***************************************************************************)
(* The line of the struct counts the ends of line that were made tokens;   *)
(* its column falls behind its pointer by one for each time the end was    *)
(* asked for.                                                              *)
(***************************************************************************)
PositionsInv ==
  /\ lexer.line = 1 + Cardinality(OfType(tokens, "eol", Len(tokens)))
  /\ lexer.column + 1 = lexer.current + Cardinality(Ends)
  /\ PositionsExact

\* Before the first token, nothing is counted.
LEMMA FreshPositions ==
  tokens = << >> /\ lexer.line = 1 /\ lexer.column = 0 /\ lexer.current = 1 => PositionsInv
<1> SUFFICES ASSUME tokens = << >>, lexer.line = 1, lexer.column = 0, lexer.current = 1
             PROVE  PositionsInv
  OBVIOUS
<1>1. Len(tokens) = 0
  OBVIOUS
<1>2. Ends = {} /\ OfType(tokens, "eol", 0) = {}
  BY <1>1 DEF Ends, OfType
<1>3. Cardinality({}) = 0
  BY FS_EmptySet
<1>4. PositionsExact
  BY <1>1 DEF PositionsExact
<1>5. /\ Cardinality(Ends) = 0 /\ Cardinality(OfType(tokens, "eol", Len(tokens))) = 0
  BY <1>1, <1>2, <1>3
<1>6. lexer.line = 1 + 0 /\ lexer.column + 1 = lexer.current + 0
  OBVIOUS
<1> QED BY <1>4, <1>5, <1>6 DEF PositionsInv

\* A step that makes no token.
Passes ==
  /\ UNCHANGED <<source, tokens, printed>> /\ lexer'.line = lexer.line
  /\ \E n \in Nat : /\ lexer'.current = lexer.current + n
                    /\ lexer'.column = lexer.column + n

\* A step that makes one.
Delivers ==
  \E l \in Structs, type \in TokenTypesMade :
    /\ Makes(l, type)
    /\ l.line = lexer.line + (IF type = "eol" THEN 1 ELSE 0)
    /\ l.column = lexer.column + (l.current - lexer.current) + (IF type = "EOF" THEN 1 ELSE 0)

\* A step that makes no token moves the column with current.
LEMMA PassesPositions ==
  ASSUME LInv, LInv', PositionsInv, Passes
  PROVE  PositionsInv'
<1>1. PICK n \in Nat : /\ lexer'.current = lexer.current + n
                       /\ lexer'.column = lexer.column + n
  BY DEF Passes
<1>2. tokens' = tokens /\ lexer'.line = lexer.line
  BY DEF Passes
<1>3. Ends' = Ends
  BY <1>2 DEF Ends
<1>4. Cardinality(Ends) \in Nat
  BY PositionsAre, OfTypeFinite, TokenFacts, Appended
<1>5. /\ lexer.current \in Nat /\ lexer.column \in Nat
  BY StructFacts
<1>6. lexer'.column + 1 = lexer'.current + Cardinality(Ends')
  BY <1>1, <1>3, <1>4, <1>5 DEF PositionsInv
<1>7. PositionsExact'
  BY <1>2, <1>3 DEF PositionsInv, PositionsExact
<1> QED BY <1>2, <1>6, <1>7 DEF PositionsInv

\* A step that makes a token counts it.
LEMMA DeliversPositions ==
  ASSUME LInv, LInv', PositionsInv, Delivers
  PROVE  PositionsInv'
<1>1. PICK l \in Structs, type \in TokenTypesMade :
        /\ Makes(l, type)
        /\ l.line = lexer.line + (IF type = "eol" THEN 1 ELSE 0)
        /\ l.column = lexer.column + (l.current - lexer.current) + (IF type = "EOF" THEN 1 ELSE 0)
  BY DEF Delivers
<1> DEFINE token == IF type = "ERROR" THEN lexer_make_error_token(l)
                                      ELSE lexer_make_token(l, type)
           N == Len(tokens)
           lines == Cardinality(OfType(tokens, "eol", N))
           ends == Cardinality(OfType(tokens, "EOF", N))
<1>2. /\ lexer' = l /\ tokens' = Append(tokens, token)
      /\ UNCHANGED source
  BY <1>1 DEF Makes, Yield
<1>3. /\ l.start \in Nat /\ l.current \in Nat /\ l.line \in Nat /\ l.column \in Nat
      /\ lexer.current \in Nat /\ lexer.column \in Nat /\ lexer.line \in Nat
  BY StructFacts DEF Structs
<1>4. /\ Frontier <= l.start /\ 1 <= l.start /\ l.start <= l.current
      /\ l.current <= l.column + 1 /\ l.current <= End
      /\ IF type = "EOF" THEN l.start = End /\ l.current = End ELSE l.start < l.current
  BY <1>1 DEF Makes
<1>5. /\ token \in TokenRecords /\ token.type = type
      /\ token.first = l.start /\ token.last = l.current - 1 /\ token.line = l.line
      /\ token.column = IF type = "ERROR" THEN l.column
                        ELSE l.column - (l.current - l.start) + 1
  <2>0. l.current - 1 \in Nat /\ l.column - (l.current - l.start) + 1 \in Nat
    BY <1>3, <1>4
  <2>1. CASE type = "ERROR"
    BY <1>3, <2>0, <2>1 DEF lexer_make_error_token, TokenRecords
  <2>2. CASE type # "ERROR"
    BY <1>3, <2>0, <2>2 DEF lexer_make_token, TokenRecords
  <2> QED BY <2>1, <2>2
<1> HIDE DEF token
<1>6. /\ tokens \in Seq(TokenRecords) /\ N \in Nat /\ Len(tokens') = N + 1
      /\ tokens'[N + 1] = token
      /\ \A i \in 1 .. N : tokens'[i] = tokens[i]
  BY <1>2, <1>5, TokenFacts, Appended
<1>7. lines \in Nat /\ ends \in Nat
  BY <1>6, OfTypeFinite
<1>8. /\ \A n \in 0 .. N : /\ OfType(tokens', "eol", n) = OfType(tokens, "eol", n)
                           /\ OfType(tokens', "EOF", n) = OfType(tokens, "EOF", n)
      /\ Cardinality(OfType(tokens', "eol", N + 1)) = lines + (IF type = "eol" THEN 1 ELSE 0)
      /\ Cardinality(OfType(tokens', "EOF", N + 1)) = ends + (IF type = "EOF" THEN 1 ELSE 0)
  <2>1. tokens \in Seq(TokenRecords) /\ token \in TokenRecords /\ token.type = type
        /\ tokens' = Append(tokens, token)
    BY <1>2, <1>5, <1>6
  <2>2. /\ \A n \in 0 .. N : OfType(tokens', "eol", n) = OfType(tokens, "eol", n)
        /\ Cardinality(OfType(tokens', "eol", N + 1)) = lines + (IF type = "eol" THEN 1 ELSE 0)
    BY <2>1, OfTypeAppended
  <2>3. /\ \A n \in 0 .. N : OfType(tokens', "EOF", n) = OfType(tokens, "EOF", n)
        /\ Cardinality(OfType(tokens', "EOF", N + 1)) = ends + (IF type = "EOF" THEN 1 ELSE 0)
    BY <2>1, OfTypeAppended
  <2> QED BY <2>2, <2>3
<1>9. /\ lexer.line = 1 + lines /\ lexer.column + 1 = lexer.current + ends
      /\ \A i \in 1 .. N : Positioned(tokens, i)
  BY PositionsAre DEF PositionsInv
\* Before the end, it was never asked for.
<1>10. ASSUME type # "EOF" PROVE ends = 0
  <2>1. ASSUME NEW j \in OfType(tokens, "EOF", N) PROVE FALSE
    <3>1. j \in 1 .. N /\ tokens[j].type = "EOF"
      BY <2>1 DEF OfType
    <3>2. tokens[j].last = End - 1
      BY <3>1 DEF LInv, TokensInv, TokensInOrder
    <3>3. tokens[j].last < Frontier /\ Frontier \in Nat /\ End \in Nat
      BY <3>1, TokenFacts, StructFacts
    <3> QED BY <1>3, <1>4, <1>10, <3>2, <3>3
  <2>2. OfType(tokens, "EOF", N) = {}
    BY <2>1
  <2> QED BY <2>2, FS_EmptySet
<1> HIDE DEF lines, ends
<1>11. l.column + 1 = l.current + ends + (IF type = "EOF" THEN 1 ELSE 0)
  <2>1. CASE type = "EOF"
    <3>1. l.column = lexer.column + (l.current - lexer.current) + 1
      BY <1>1, <2>1
    <3>2. lexer.column + 1 = lexer.current + ends
      BY <1>9
    <3> QED BY <1>3, <1>7, <2>1, <3>1, <3>2
  <2>2. CASE type # "EOF"
    <3>1. l.column = lexer.column + (l.current - lexer.current) + 0
      BY <1>1, <2>2
    <3>2. lexer.column + 1 = lexer.current + ends
      BY <1>9
    <3> QED BY <1>3, <1>7, <2>2, <3>1, <3>2
  <2> QED BY <2>1, <2>2
<1>12. /\ token.line = 1 + Cardinality(OfType(tokens', "eol", N + 1))
       /\ l.line = 1 + Cardinality(OfType(tokens', "eol", N + 1))
  <2>1. l.line = 1 + Cardinality(OfType(tokens', "eol", N + 1))
    <3>1. CASE type = "eol"
      <4>1. l.line = lexer.line + 1 /\ Cardinality(OfType(tokens', "eol", N + 1)) = lines + 1
        BY <1>1, <1>8, <3>1
      <4> QED BY <1>3, <1>7, <1>9, <4>1
    <3>2. CASE type # "eol"
      <4>1. l.line = lexer.line + 0 /\ Cardinality(OfType(tokens', "eol", N + 1)) = lines + 0
        BY <1>1, <1>8, <3>2
      <4> QED BY <1>3, <1>7, <1>9, <4>1
    <3> QED BY <3>1, <3>2
  <2> QED BY <1>5, <2>1
<1>13. Positioned(tokens', N + 1)
  <2>1. CASE type = "EOF"
    <3>1. token.column = token.first + (ends + 1)
      BY <1>3, <1>4, <1>5, <1>7, <1>11, <2>1
    <3> QED BY <1>5, <1>6, <1>8, <1>12, <2>1, <3>1 DEF Positioned
  <2>2. CASE type = "ERROR"
    <3>1. token.column = token.last
      BY <1>3, <1>4, <1>5, <1>7, <1>10, <1>11, <2>2
    <3> QED BY <1>5, <1>6, <1>12, <2>2, <3>1 DEF Positioned
  <2>3. CASE type # "EOF" /\ type # "ERROR"
    <3>1. token.column = token.first
      BY <1>3, <1>4, <1>5, <1>7, <1>10, <1>11, <2>3
    <3> QED BY <1>5, <1>6, <1>12, <2>3, <3>1 DEF Positioned
  <2> QED BY <2>1, <2>2, <2>3
<1>14. \A i \in 1 .. Len(tokens') : Positioned(tokens', i)
  <2> SUFFICES ASSUME NEW i \in 1 .. N + 1 PROVE Positioned(tokens', i)
    BY <1>6
  <2>1. CASE i = N + 1
    BY <1>13, <2>1
  <2>2. CASE i # N + 1
    <3>1. i \in 1 .. N /\ i \in 0 .. N
      BY <1>6, <2>2
    <3> QED BY <1>6, <1>8, <1>9, <3>1 DEF Positioned
  <2> QED BY <2>1, <2>2
<1>15. /\ PositionsExact' <=> \A i \in 1 .. Len(tokens') : Positioned(tokens', i)
       /\ Ends' = OfType(tokens', "EOF", N + 1)
  <2>1. LInv' => (/\ PositionsExact <=> \A i \in 1 .. Len(tokens) : Positioned(tokens, i)
                  /\ Ends = OfType(tokens, "EOF", Len(tokens)))'
    BY PositionsAre, PTL
  <2> QED BY <1>6, <2>1
<1>16. lexer'.column + 1 = lexer'.current + Cardinality(Ends')
  BY <1>2, <1>3, <1>7, <1>8, <1>11, <1>15
<1> QED BY <1>2, <1>6, <1>12, <1>14, <1>15, <1>16 DEF PositionsInv
-----------------------------------------------------------------------------
\* What each step of lexer_scan_token does to the struct and to the tokens.
LEMMA StepPassesOrDelivers ==
  ASSUME LInv, lexer_scan_token \/ ScanStep
  PROVE  Passes \/ Delivers
<1>0. /\ lexer.current \in Nat /\ lexer.line \in Nat /\ lexer.column \in Nat
      /\ lexer.start \in Nat /\ 1 <= lexer.start /\ lexer.start <= lexer.current
      /\ lexer.current <= lexer.column + 1 /\ End \in Nat /\ lexer \in Structs
      /\ Len(source) \in Nat /\ End = Len(source) + 1
  BY StructFacts
\* Pass: the struct is as it was, or has advanced.
<1>1. ASSUME UNCHANGED <<source, tokens, printed>>,
             \/ lexer' = lexer
             \/ \E n \in {1, 2} : lexer' = Advanced(n) \/ lexer' = Begun(n)
      PROVE  Passes
  <2>1. CASE lexer' = lexer
    <3>1. /\ lexer'.current = lexer.current + 0 /\ lexer'.column = lexer.column + 0
          /\ lexer'.line = lexer.line
      BY <1>0, <2>1
    <3> QED BY <1>1, <3>1 DEF Passes
  <2>2. CASE \E n \in {1, 2} : lexer' = Advanced(n) \/ lexer' = Begun(n)
    <3>1. PICK n \in {1, 2} : lexer' = Advanced(n) \/ lexer' = Begun(n)
      BY <2>2
    <3>2. /\ lexer'.current = lexer.current + n /\ lexer'.column = lexer.column + n
          /\ lexer'.line = lexer.line
      BY <3>1, AdvancedFields
    <3> QED BY <1>1, <3>2 DEF Passes
  <2> QED BY <1>1, <2>1, <2>2
\* Deliver: what Delivers adds to Makes.
<1>2. ASSUME NEW l \in Structs, NEW type \in TokenTypesMade, Makes(l, type),
             l.line = lexer.line + (IF type = "eol" THEN 1 ELSE 0),
             l.column = lexer.column + (l.current - lexer.current)
                                     + (IF type = "EOF" THEN 1 ELSE 0)
      PROVE  Delivers
  BY <1>2 DEF Delivers
<1>3. CASE lexer_scan_token
  BY <1>1, <1>3 DEF lexer_scan_token, Go
<1>4. CASE skip_whitespace \/ skip_comment \/ lexer_skip_single_line_comment
           \/ lexer_skip_multi_line_comment
  <2>1. /\ UNCHANGED <<source, tokens, printed>>
        /\ \/ lexer' = lexer
           \/ \E n \in {1, 2} : lexer' = Advanced(n)
    <3>1. CASE skip_whitespace \/ skip_comment
      BY <3>1 DEF skip_whitespace, skip_comment, Go
    <3>2. CASE lexer_skip_single_line_comment
      BY <3>2 DEF lexer_skip_single_line_comment, Go
    <3>3. CASE lexer_skip_multi_line_comment
      BY <3>3 DEF lexer_skip_multi_line_comment, Go, NUL
    <3> QED BY <1>4, <3>1, <3>2, <3>3
  <2> QED BY <1>1, <2>1
<1>5. CASE lexer_make_eof_token \/ lexer_make_eol_token
  <2>1. PICK l \in Structs, type \in TokenTypesMade :
          /\ Makes(l, type) /\ (type = "EOF" \/ type = "eol")
          /\ l.current = lexer.current + (IF type = "eol" THEN 1 ELSE 0)
          /\ l.line = lexer.line + (IF type = "eol" THEN 1 ELSE 0)
          /\ l.column = lexer.column + 1
    BY <1>5, EndMakes
  <2>2. l.column = lexer.column + (l.current - lexer.current)
                                + (IF type = "EOF" THEN 1 ELSE 0)
    <3>1. CASE type = "EOF"
      <4>1. l.current = lexer.current + 0
        BY <2>1, <3>1
      <4> QED BY <1>0, <2>1, <3>1, <4>1
    <3>2. CASE type = "eol"
      <4>1. l.current = lexer.current + 1
        BY <2>1, <3>2
      <4> QED BY <1>0, <2>1, <3>2, <4>1
    <3> QED BY <2>1, <3>1, <3>2
  <2>3. l.line = lexer.line + (IF type = "eol" THEN 1 ELSE 0)
    BY <2>1
  <2>4. Makes(l, type)
    BY <2>1
  <2> QED BY <1>2, <2>2, <2>3, <2>4
<1>6. CASE scan_first
  BY <1>1, <1>6 DEF scan_first, Go
<1>7. ASSUME NEW n \in 1 .. 2, NEW type \in TokenTypesMade \ {"EOF", "eol"},
             Makes(Begun(n), type) \/ Makes(Advanced(n), type)
      PROVE  Delivers
  <2>1. PICK l \in {Begun(n), Advanced(n)} : Makes(l, type)
    BY <1>7
  <2>2. /\ l \in Structs /\ l.line = lexer.line /\ l.current = lexer.current + n
        /\ l.column = lexer.column + n
    BY AdvancedFields
  <2>3. /\ l.line = lexer.line + 0
        /\ l.column = lexer.column + (l.current - lexer.current) + 0
    BY <1>0, <2>2
  <2> QED BY <1>2, <1>7, <2>1, <2>2, <2>3
<1>8. ASSUME NEW type \in TokenTypesMade \ {"EOF", "eol"}, Makes(lexer, type)
      PROVE  Delivers
  <2>1. /\ lexer.line = lexer.line + 0
        /\ lexer.column = lexer.column + (lexer.current - lexer.current) + 0
    BY <1>0
  <2> QED BY <1>0, <1>2, <1>8, <2>1
<1>9. CASE scan_operator
  <2>1. "ERROR" \in TokenTypesMade \ {"EOF", "eol"}
    BY DEF TokenTypesMade
  <2> QED BY <1>7, <1>9, <2>1, OperatorMakes
<1>10. CASE lexer_scan_identifier \/ lexer_scan_number \/ lexer_scan_fraction
  <2>1. \/ /\ lexer' = Advanced(1) /\ UNCHANGED <<source, tokens, printed>>
        \/ \E type \in TokenTypesMade \ {"EOF", "eol"} : Makes(lexer, type)
    BY <1>10, WordMakes DEF TextTypes
  <2> QED BY <1>1, <1>8, <2>1
<1>11. CASE lexer_scan_string
  <2>1. \/ /\ lexer' = Advanced(1) /\ UNCHANGED <<source, tokens, printed>>
        \/ \E type \in TokenTypesMade \ {"EOF", "eol"} :
             Makes(lexer, type) \/ Makes(Advanced(1), type)
    <3>1. {"ERROR", "string"} \subseteq TokenTypesMade \ {"EOF", "eol"}
      BY DEF TokenTypesMade
    <3> QED BY <1>11, <3>1, StringMakes
  <2> QED BY <1>1, <1>7, <1>8, <2>1
<1> QED BY <1>3, <1>4, <1>5, <1>6, <1>9, <1>10, <1>11 DEF ScanStep

\* PositionsInv is inductive.
LEMMA PositionsKept ==
  LInv /\ LInv' /\ PositionsInv /\ [LexerNext]_lexerVars => PositionsInv'
<1> SUFFICES ASSUME LInv, LInv', PositionsInv, [LexerNext]_lexerVars PROVE PositionsInv'
  OBVIOUS
<1>1. CASE UNCHANGED lexerVars
  <2>1. /\ UNCHANGED <<source, tokens, printed>> /\ lexer' = lexer
        /\ lexer.current \in Nat /\ lexer.column \in Nat
    BY <1>1, StructFacts DEF lexerVars
  <2>2. /\ lexer'.current = lexer.current + 0 /\ lexer'.column = lexer.column + 0
        /\ lexer'.line = lexer.line
    BY <2>1
  <2>3. Passes
    BY <2>1, <2>2 DEF Passes
  <2> QED BY <2>3, PassesPositions
<1>2. CASE lexer_scan_token \/ ScanStep
  BY <1>2, StepPassesOrDelivers, PassesPositions, DeliversPositions
<1>3. CASE lexer_reset
  <2>1. tokens' = << >> /\ lexer'.line = 1 /\ lexer'.column = 0 /\ lexer'.current = 1
    BY <1>3 DEF lexer_reset
  <2>2. (tokens = << >> /\ lexer.line = 1 /\ lexer.column = 0 /\ lexer.current = 1 => PositionsInv)'
    BY FreshPositions, PTL
  <2> QED BY <2>1, <2>2
<1> QED BY <1>1, <1>2, <1>3 DEF LexerNext

\* PositionsInv holds when a text is given.
LEMMA FirstPositions == lexer_init => PositionsInv
<1> SUFFICES ASSUME lexer_init PROVE PositionsInv
  OBVIOUS
<1>1. tokens = << >> /\ lexer.line = 1 /\ lexer.column = 0 /\ lexer.current = 1
  BY DEF lexer_init
<1> QED BY <1>1, FreshPositions

(***************************************************************************)
(* The line and column of every token are what PositionsExact says: the    *)
(* column of lexer_make_token (lexer.c:78-90), which is computed back from *)
(* the end of the token, is the place of its first character.              *)
(***************************************************************************)
THEOREM PositionsAreExact == LexerSpec => []PositionsExact
<1>1. lexer_init => PositionsInv
  BY FirstPositions
<1>2. LInv /\ LInv' /\ PositionsInv /\ [LexerNext]_lexerVars => PositionsInv'
  BY PositionsKept
<1>3. PositionsInv => PositionsExact
  BY DEF PositionsInv
<1> QED BY <1>1, <1>2, <1>3, Inductive, PTL DEF LexerSpec
-----------------------------------------------------------------------------
(***************************************************************************)
(* Determinism: what the next step of a pass makes of the state s, as a    *)
(* function of it.  A pass over a text is then one sequence of states, and *)
(* a second one has no choice but to repeat it.                            *)
(***************************************************************************)
Now == [lexer |-> lexer, pc |-> pc, tokens |-> tokens]

States == [lexer : Structs, pc : Loops, tokens : Seq(TokenRecords)]

CharOf(text, place) == IF place \in 1 .. Len(text) THEN text[place] ELSE NUL

Moved(l, n) ==
  [start |-> l.start, current |-> l.current + n, line |-> l.line, column |-> l.column + n]
Opened(l, n) ==
  [start |-> l.current, current |-> l.current + n, line |-> l.line, column |-> l.column + n]

Turns(s, l, loop) == [lexer |-> l, pc |-> loop, tokens |-> s.tokens]
Adds(s, l, token) == [lexer |-> l, pc |-> "idle", tokens |-> Append(s.tokens, token)]

AtEnd(l) ==
  [start |-> l.current, current |-> l.current, line |-> l.line, column |-> l.column + 1]
AtEol(l) ==
  [start |-> l.current, current |-> l.current + 1, line |-> l.line + 1, column |-> l.column + 1]

AddsOperator(s, c, d) ==
  LET pairs == {p \in Pairs : p[1] = c /\ p[2] = d}
      one   == Opened(s.lexer, 1)
      two   == Opened(s.lexer, 2)
  IN  IF pairs # {} THEN Adds(s, two, lexer_make_token(two, (CHOOSE p \in pairs : TRUE)[3]))
      ELSE IF c \in Single THEN Adds(s, one, lexer_make_token(one, c))
      ELSE Adds(s, one, lexer_make_error_token(one))

AfterGap(s, c, d) ==
  IF c = NUL THEN Adds(s, AtEnd(s.lexer), lexer_make_token(AtEnd(s.lexer), "EOF"))
  ELSE IF c = "\n" THEN Adds(s, AtEol(s.lexer), lexer_make_token(AtEol(s.lexer), "eol"))
  ELSE IF c \in Letters THEN Turns(s, Opened(s.lexer, 1), "identifier")
  ELSE IF c \in Digits THEN Turns(s, Opened(s.lexer, 1), "number")
  ELSE IF c = Quote THEN Turns(s, Opened(s.lexer, 1), "string")
  ELSE AddsOperator(s, c, d)

AfterSkip(s, c, d) ==
  IF c \in Blanks THEN Turns(s, Moved(s.lexer, 1), "skip")
  ELSE IF c = "/" /\ d = "/" THEN Turns(s, s.lexer, "line_comment")
  ELSE IF c = "/" /\ d = "*" THEN Turns(s, s.lexer, "block_comment")
  ELSE AfterGap(s, c, d)

AfterComment(s, c, d) ==
  IF c = NUL THEN Turns(s, s.lexer, "skip")
  ELSE IF s.pc = "line_comment"
  THEN IF c = "\n" THEN Turns(s, s.lexer, "skip") ELSE Turns(s, Moved(s.lexer, 1), s.pc)
  ELSE IF c = "*" /\ d = "/" THEN Turns(s, Moved(s.lexer, 2), "skip")
  ELSE Turns(s, Moved(s.lexer, 1), s.pc)

AfterWord(text, s, c) ==
  LET word == SubSeq(text, s.lexer.start, s.lexer.current - 1)
  IN  IF c \in Letters \cup Digits THEN Turns(s, Moved(s.lexer, 1), s.pc)
      ELSE Adds(s, s.lexer, lexer_make_token(s.lexer, lexer_determine_identifier_type(word)))

AfterDigits(s, c) ==
  IF c \in Digits THEN Turns(s, Moved(s.lexer, 1), s.pc)
  ELSE IF s.pc = "number" /\ c = "." THEN Turns(s, Moved(s.lexer, 1), "fraction")
  ELSE Adds(s, s.lexer, lexer_make_token(s.lexer, IF s.pc = "number" THEN "int" ELSE "real"))

AfterQuote(s, c) ==
  IF c = NUL THEN Turns(s, Moved(s.lexer, 1), "astray")
  ELSE IF c = "\n" THEN Adds(s, s.lexer, lexer_make_error_token(s.lexer))
  ELSE Adds(s, Moved(s.lexer, 1), lexer_make_token(Moved(s.lexer, 1), "string"))

After(text, s) ==
  LET c == CharOf(text, s.lexer.current)
      d == CharOf(text, s.lexer.current + 1)
  IN  IF s.pc = "idle" THEN Turns(s, s.lexer, "skip")
      ELSE IF s.pc = "skip" THEN AfterSkip(s, c, d)
      ELSE IF s.pc \in {"line_comment", "block_comment"} THEN AfterComment(s, c, d)
      ELSE IF s.pc = "identifier" THEN AfterWord(text, s, c)
      ELSE IF s.pc \in {"number", "fraction"} THEN AfterDigits(s, c)
      ELSE AfterQuote(s, c)

\* A state is read through the operators of Lexer.
LEMMA NowFacts ==
  /\ Now.lexer = lexer /\ Now.pc = pc /\ Now.tokens = tokens
  /\ \A p : CharOf(source, p) = CharAt(p)
  /\ Peek = CharOf(source, lexer.current)
  /\ \A n : Moved(lexer, n) = Advanced(n) /\ Opened(lexer, n) = Begun(n)
BY DEF Now, CharOf, CharAt, Peek, Moved, Advanced, Opened, Begun

\* The fields of what Go gives.
LEMMA GoIs ==
  ASSUME NEW l, NEW loop, Go(l, loop)
  PROVE  Now' = Turns(Now, l, loop)
BY NowFacts DEF Go, Turns, Now

\* The fields of what Yield gives.
LEMMA YieldIs ==
  ASSUME NEW l, NEW token, Yield(l, token)
  PROVE  Now' = Adds(Now, l, token)
BY NowFacts DEF Yield, Adds, Now

\* The characters the lexer tells apart are different ones, and two of them
\* make one token.
LEMMA Apart ==
  /\ \A c \in Letters : c \notin Digits /\ c # Quote /\ c # "\n" /\ c # NUL
  /\ \A c \in Digits : c # Quote /\ c # "\n" /\ c # NUL
  /\ Quote # "\n" /\ Quote # NUL /\ NUL # "\n"
  /\ \A c \in Blanks : c # "/"
BY DEF Letters, Digits, Quote, NUL, Blanks

\* A pair of characters is one operator at most.
LEMMA PairsApart == \A p, q \in Pairs : p[1] = q[1] /\ p[2] = q[2] => p = q
BY DEF Pairs

\* At the first character of a token, the lexer goes on with what begins there.
LEMMA GapIs ==
  ASSUME AtToken, NEW t, t = AfterGap(Now, Peek, CharAt(lexer.current + 1))
  PROVE  After(source, Now) = t
<1>1. pc = "skip" /\ Peek \notin Blanks /\ ~AtComment
  BY DEF AtToken
<1>2. ~(Peek = "/" /\ CharAt(lexer.current + 1) \in {"/", "*"})
  BY <1>1 DEF AtComment, PeekNext, NUL
<1>3. AfterSkip(Now, Peek, CharAt(lexer.current + 1)) = t
  BY <1>1, <1>2 DEF AfterSkip
<1> QED BY <1>1, <1>3, NowFacts DEF After

\* Every step of a call of the lexer goes on as After says.
LEMMA StepIsAfter ==
  ASSUME lexer_scan_token \/ ScanStep
  PROVE  Now' = After(source, Now)
<1> DEFINE c == Peek
           d == CharAt(lexer.current + 1)
<1>0. /\ c = CharOf(source, Now.lexer.current) /\ d = CharOf(source, Now.lexer.current + 1)
      /\ Now.lexer = lexer /\ Now.pc = pc
  BY NowFacts
<1>1. CASE lexer_scan_token
  BY <1>1, GoIs, NowFacts DEF lexer_scan_token, After
<1>2. CASE skip_whitespace
  <2>1. Now' = Turns(Now, Moved(lexer, 1), "skip")
    BY <1>2, GoIs, NowFacts DEF skip_whitespace
  <2>2. AfterSkip(Now, c, d) = Turns(Now, Moved(lexer, 1), "skip")
    BY <1>2, NowFacts DEF skip_whitespace, AfterSkip
  <2> QED BY <1>0, <1>2, <2>1, <2>2 DEF skip_whitespace, After
<1>3. CASE skip_comment
  <2>1. /\ pc = "skip" /\ c = "/" /\ c # NUL /\ PeekNext = d /\ d \in {"/", "*"}
        /\ c \notin Blanks
    BY <1>3 DEF skip_comment, AtComment, PeekNext, NUL, Blanks
  <2>2. Now' = Turns(Now, lexer, IF d = "/" THEN "line_comment" ELSE "block_comment")
    BY <1>3, <2>1, GoIs DEF skip_comment
  <2>3. AfterSkip(Now, c, d) = Turns(Now, lexer, IF d = "/" THEN "line_comment" ELSE "block_comment")
    BY <1>0, <2>1 DEF AfterSkip
  <2> QED BY <1>0, <2>1, <2>2, <2>3 DEF After
<1>4. CASE lexer_skip_single_line_comment
  <2>1. pc = "line_comment"
    BY <1>4 DEF lexer_skip_single_line_comment
  <2>2. Now' = AfterComment(Now, c, d)
    BY <1>0, <1>4, GoIs, NowFacts DEF lexer_skip_single_line_comment, AfterComment
  <2> QED BY <1>0, <2>1, <2>2 DEF After
<1>5. CASE lexer_skip_multi_line_comment
  <2>1. pc = "block_comment"
    BY <1>5 DEF lexer_skip_multi_line_comment
  <2>2. CASE c = NUL
    <3>1. Go(lexer, "skip")
      BY <1>5, <2>2 DEF lexer_skip_multi_line_comment, NUL
    <3>2. Now' = Turns(Now, lexer, "skip")
      BY <3>1, GoIs
    <3>3. AfterComment(Now, c, d) = Turns(Now, lexer, "skip")
      BY <1>0, <2>2 DEF AfterComment
    <3> QED BY <1>0, <2>1, <3>2, <3>3 DEF After
  <2>3. CASE c # NUL /\ c = "*" /\ d = "/"
    <3>1. Go(Advanced(2), "skip")
      BY <1>5, <2>3 DEF lexer_skip_multi_line_comment
    <3>2. Now' = Turns(Now, Moved(lexer, 2), "skip")
      BY <3>1, GoIs, NowFacts
    <3>3. AfterComment(Now, c, d) = Turns(Now, Moved(lexer, 2), "skip")
      BY <1>0, <2>1, <2>3 DEF AfterComment
    <3> QED BY <1>0, <2>1, <3>2, <3>3 DEF After
  <2>4. CASE c # NUL /\ ~(c = "*" /\ d = "/")
    <3>1. Go(Advanced(1), "block_comment")
      BY <1>5, <2>4 DEF lexer_skip_multi_line_comment
    <3>2. Now' = Turns(Now, Moved(lexer, 1), "block_comment")
      BY <3>1, GoIs, NowFacts
    <3>3. AfterComment(Now, c, d) = Turns(Now, Moved(lexer, 1), "block_comment")
      BY <1>0, <2>1, <2>4 DEF AfterComment
    <3> QED BY <1>0, <2>1, <3>2, <3>3 DEF After
  <2> QED BY <2>2, <2>3, <2>4
<1>6. CASE lexer_make_eof_token
  <2>1. AtToken /\ c = NUL /\ Yield(AtEnd(lexer), lexer_make_token(AtEnd(lexer), "EOF"))
    BY <1>6 DEF lexer_make_eof_token, AtEnd
  <2>2. Now' = Adds(Now, AtEnd(lexer), lexer_make_token(AtEnd(lexer), "EOF"))
    BY <2>1, YieldIs
  <2>3. AfterGap(Now, c, d) = Adds(Now, AtEnd(lexer), lexer_make_token(AtEnd(lexer), "EOF"))
    BY <1>0, <2>1 DEF AfterGap
  <2> QED BY <2>1, <2>2, <2>3, GapIs
<1>7. CASE lexer_make_eol_token
  <2>1. AtToken /\ c = "\n" /\ Yield(AtEol(lexer), lexer_make_token(AtEol(lexer), "eol"))
    BY <1>7 DEF lexer_make_eol_token, AtEol
  <2>2. Now' = Adds(Now, AtEol(lexer), lexer_make_token(AtEol(lexer), "eol"))
    BY <2>1, YieldIs
  <2>3. AfterGap(Now, c, d) = Adds(Now, AtEol(lexer), lexer_make_token(AtEol(lexer), "eol"))
    BY <1>0, <2>1, Apart DEF AfterGap
  <2> QED BY <2>1, <2>2, <2>3, GapIs
<1>8. CASE scan_first
  <2>1. AtToken
    BY <1>8 DEF scan_first
  <2>2. \/ c \in Letters /\ Go(Begun(1), "identifier")
        \/ c \in Digits /\ Go(Begun(1), "number")
        \/ c = Quote /\ Go(Begun(1), "string")
    BY <1>8 DEF scan_first
  <2>3. CASE c \in Letters /\ Go(Begun(1), "identifier")
    <3>1. Now' = Turns(Now, Opened(lexer, 1), "identifier")
      BY <2>3, GoIs, NowFacts
    <3>2. AfterGap(Now, c, d) = Turns(Now, Opened(lexer, 1), "identifier")
      BY <1>0, <2>3, Apart DEF AfterGap
    <3> QED BY <2>1, <3>1, <3>2, GapIs
  <2>4. CASE c \in Digits /\ Go(Begun(1), "number")
    <3>1. Now' = Turns(Now, Opened(lexer, 1), "number")
      BY <2>4, GoIs, NowFacts
    <3>2. AfterGap(Now, c, d) = Turns(Now, Opened(lexer, 1), "number")
      BY <1>0, <2>4, Apart DEF AfterGap
    <3> QED BY <2>1, <3>1, <3>2, GapIs
  <2>5. CASE c = Quote /\ Go(Begun(1), "string")
    <3>1. Now' = Turns(Now, Opened(lexer, 1), "string")
      BY <2>5, GoIs, NowFacts
    <3>2. AfterGap(Now, c, d) = Turns(Now, Opened(lexer, 1), "string")
      BY <1>0, <2>5, Apart DEF AfterGap
    <3> QED BY <2>1, <3>1, <3>2, GapIs
  <2> QED BY <2>2, <2>3, <2>4, <2>5
<1>9. CASE scan_operator
  <2>1. AtToken /\ c \notin Letters \cup Digits \cup {Quote, "\n", NUL}
    BY <1>9 DEF scan_operator
  <2>2. AfterGap(Now, c, d) = AddsOperator(Now, c, d)
    BY <2>1 DEF AfterGap
  <2>3. PairsHere = {p \in Pairs : p[1] = c /\ p[2] = d}
    BY DEF PairsHere
  <2>4. \/ \E p \in PairsHere : Yield(Begun(2), lexer_make_token(Begun(2), p[3]))
        \/ /\ PairsHere = {} /\ c \in Single
           /\ Yield(Begun(1), lexer_make_token(Begun(1), c))
        \/ /\ PairsHere = {} /\ c \notin Single
           /\ Yield(Begun(1), lexer_make_error_token(Begun(1)))
    BY <1>9 DEF scan_operator, PairsHere
  <2>5. Opened(lexer, 1) = Begun(1) /\ Opened(lexer, 2) = Begun(2)
    BY NowFacts
  <2>6. Now' = AddsOperator(Now, c, d)
    <3>1. CASE \E p \in PairsHere : Yield(Begun(2), lexer_make_token(Begun(2), p[3]))
      <4>1. PICK p \in PairsHere : Yield(Begun(2), lexer_make_token(Begun(2), p[3]))
        BY <3>1
      <4>2. PairsHere = {p}
        BY <2>3, PairsApart
      <4>3. (CHOOSE q \in PairsHere : TRUE) = p
        BY <4>2
      <4>4. AddsOperator(Now, c, d) = Adds(Now, Begun(2), lexer_make_token(Begun(2), p[3]))
        BY <1>0, <2>3, <2>5, <4>1, <4>3 DEF AddsOperator
      <4> QED BY <4>1, <4>4, YieldIs
    <3>2. CASE /\ PairsHere = {} /\ c \in Single
               /\ Yield(Begun(1), lexer_make_token(Begun(1), c))
      <4>1. AddsOperator(Now, c, d) = Adds(Now, Begun(1), lexer_make_token(Begun(1), c))
        BY <1>0, <2>3, <2>5, <3>2 DEF AddsOperator
      <4> QED BY <3>2, <4>1, YieldIs
    <3>3. CASE /\ PairsHere = {} /\ c \notin Single
               /\ Yield(Begun(1), lexer_make_error_token(Begun(1)))
      <4>1. AddsOperator(Now, c, d) = Adds(Now, Begun(1), lexer_make_error_token(Begun(1)))
        BY <1>0, <2>3, <2>5, <3>3 DEF AddsOperator
      <4> QED BY <3>3, <4>1, YieldIs
    <3> QED BY <2>4, <3>1, <3>2, <3>3
  <2> QED BY <2>1, <2>2, <2>6, GapIs
<1>10. CASE lexer_scan_identifier
  <2> DEFINE word == SubSeq(source, lexer.start, lexer.current - 1)
             made == lexer_make_token(lexer, lexer_determine_identifier_type(word))
  <2>1. pc = "identifier"
    BY <1>10 DEF lexer_scan_identifier
  <2>2. Now' = IF c \in Letters \cup Digits THEN Turns(Now, Moved(lexer, 1), pc)
               ELSE Adds(Now, lexer, made)
    BY <1>10, <2>1, GoIs, YieldIs, NowFacts DEF lexer_scan_identifier
  <2>3. AfterWord(source, Now, c) = IF c \in Letters \cup Digits THEN Turns(Now, Moved(lexer, 1), pc)
                                    ELSE Adds(Now, lexer, made)
    BY <1>0 DEF AfterWord
  <2> QED BY <1>0, <2>1, <2>2, <2>3 DEF After
<1>11. CASE lexer_scan_number
  <2>1. pc = "number"
    BY <1>11 DEF lexer_scan_number
  <2>2. "." \notin Digits
    BY DEF Digits
  <2>3. Now' = IF c \in Digits THEN Turns(Now, Moved(lexer, 1), "number")
               ELSE IF c = "." THEN Turns(Now, Moved(lexer, 1), "fraction")
               ELSE Adds(Now, lexer, lexer_make_token(lexer, "int"))
    BY <1>11, <2>2, GoIs, YieldIs, NowFacts DEF lexer_scan_number
  <2>4. Now' = AfterDigits(Now, c)
    BY <1>0, <2>1, <2>3 DEF AfterDigits
  <2> QED BY <1>0, <2>1, <2>4 DEF After
<1>12. CASE lexer_scan_fraction
  <2>1. pc = "fraction"
    BY <1>12 DEF lexer_scan_fraction
  <2>3. Now' = IF c \in Digits THEN Turns(Now, Moved(lexer, 1), "fraction")
               ELSE Adds(Now, lexer, lexer_make_token(lexer, "real"))
    BY <1>12, GoIs, YieldIs, NowFacts DEF lexer_scan_fraction
  <2>4. Now' = AfterDigits(Now, c)
    BY <1>0, <2>1, <2>3 DEF AfterDigits
  <2> QED BY <1>0, <2>1, <2>4 DEF After
<1>13. CASE lexer_scan_string
  <2>1. pc = "string"
    BY <1>13 DEF lexer_scan_string
  <2>2. Now' = IF c = NUL THEN Turns(Now, Moved(lexer, 1), "astray")
               ELSE IF c = "\n" THEN Adds(Now, lexer, lexer_make_error_token(lexer))
               ELSE Adds(Now, Moved(lexer, 1), lexer_make_token(Moved(lexer, 1), "string"))
    BY <1>13, Apart, GoIs, YieldIs, NowFacts DEF lexer_scan_string
  <2>3. Now' = AfterQuote(Now, c)
    BY <1>0, <2>2 DEF AfterQuote
  <2> QED BY <1>0, <2>1, <2>3 DEF After
<1> QED BY <1>1, <1>2, <1>3, <1>4, <1>5, <1>6, <1>7, <1>8, <1>9, <1>10, <1>11, <1>12, <1>13
        DEF ScanStep
-----------------------------------------------------------------------------
FirstStruct == [start |-> 1, current |-> 1, line |-> 1, column |-> 0]

FirstState == [lexer |-> FirstStruct, pc |-> "idle", tokens |-> << >>]

\* t begins with s.
Grown(s, t) == Len(s) <= Len(t) /\ \A k \in 1 .. Len(s) : t[k] = s[k]

\* The states of a pass over the text, from its beginning on.
IsPass(text, r) ==
  /\ r \in Seq(States) /\ Len(r) >= 1 /\ r[1] = FirstState
  /\ \A i \in 1 .. Len(r) - 1 : /\ r[i + 1] = After(text, r[i])
                                /\ Grown(r[i].tokens, r[i + 1].tokens)

\* A pass has a state, and each is what its type says.
LEMMA PassFacts ==
  ASSUME NEW text, NEW r, IsPass(text, r)
  PROVE  /\ Len(r) \in Nat /\ Len(r) >= 1
         /\ \A i \in 1 .. Len(r) : r[i] \in States /\ Len(r[i].tokens) \in Nat
<1>1. r \in Seq(States) /\ Len(r) \in Nat /\ Len(r) >= 1
  BY DEF IsPass
<1>2. ASSUME NEW i \in 1 .. Len(r) PROVE r[i] \in States /\ Len(r[i].tokens) \in Nat
  <2>1. r[i] \in States
    BY <1>1
  <2>2. r[i].tokens \in Seq(TokenRecords)
    BY <2>1 DEF States
  <2> QED BY <2>1, <2>2
<1> QED BY <1>1, <1>2

\* Two passes over a text are in the same state after as many steps.
LEMMA SamePass ==
  ASSUME NEW text, NEW r, NEW q, IsPass(text, r), IsPass(text, q),
         NEW n \in Nat, n < Len(r), n < Len(q)
  PROVE  r[n + 1] = q[n + 1]
<1> DEFINE T == {i \in 0 .. n : r[i + 1] = q[i + 1]}
<1>1. Len(r) \in Nat /\ Len(q) \in Nat
  BY PassFacts
<1>2. 0 \in T
  <2>1. r[1] = FirstState /\ q[1] = FirstState
    BY DEF IsPass
  <2> QED BY <2>1
<1>3. ASSUME NEW i \in 0 .. n - 1, i \in T PROVE i + 1 \in T
  <2>1. i + 1 \in 1 .. Len(r) - 1 /\ i + 1 \in 1 .. Len(q) - 1
    BY <1>1
  <2>2. r[(i + 1) + 1] = After(text, r[i + 1]) /\ q[(i + 1) + 1] = After(text, q[i + 1])
    BY <2>1 DEF IsPass
  <2>3. r[i + 1] = q[i + 1] /\ i + 1 \in 0 .. n
    BY <1>3
  <2> QED BY <2>2, <2>3
<1>4. n \in T
  <2> HIDE DEF T
  <2>1. \A i \in 0 .. n : i \in T
    BY <1>2, <1>3, UpTo
  <2> QED BY <2>1
<1> QED BY <1>4

\* The tokens made so far stay.
LEMMA PassGrows ==
  ASSUME NEW text, NEW r, IsPass(text, r), NEW n \in Nat, n < Len(r)
  PROVE  Grown(r[n + 1].tokens, r[Len(r)].tokens)
<1> DEFINE N == Len(r) - 1
           T == {i \in 0 .. N : Grown(r[i + 1].tokens, r[Len(r)].tokens)}
<1>1. /\ Len(r) \in Nat /\ Len(r) >= 1 /\ N \in Nat /\ n \in 0 .. N
      /\ N + 1 = Len(r) /\ N \in 0 .. N
      /\ \A i \in 1 .. Len(r) : Len(r[i].tokens) \in Nat
  BY PassFacts
<1>2. N \in T
  <2>1. Grown(r[Len(r)].tokens, r[Len(r)].tokens)
    BY <1>1 DEF Grown
  <2> QED BY <1>1, <2>1
<1>3. ASSUME NEW i \in 0 .. N - 1, i + 1 \in T PROVE i \in T
  <2>1. /\ i + 1 \in 1 .. Len(r) - 1 /\ i \in 0 .. N /\ i + 1 \in 1 .. Len(r)
        /\ (i + 1) + 1 \in 1 .. Len(r) /\ Len(r) \in 1 .. Len(r)
    BY <1>1
  <2>2. Grown(r[i + 1].tokens, r[(i + 1) + 1].tokens)
    BY <2>1 DEF IsPass
  <2>3. Grown(r[(i + 1) + 1].tokens, r[Len(r)].tokens)
    BY <1>3
  <2>4. /\ Len(r[i + 1].tokens) \in Nat /\ Len(r[(i + 1) + 1].tokens) \in Nat
        /\ Len(r[Len(r)].tokens) \in Nat
    BY <1>1, <2>1
  <2>5. Grown(r[i + 1].tokens, r[Len(r)].tokens)
    BY <2>2, <2>3, <2>4 DEF Grown
  <2> QED BY <2>1, <2>5
<1>4. n \in T
  <2> HIDE DEF T, N
  <2> QED BY <1>1, <1>2, <1>3, DownFrom
<1> QED BY <1>4

\* Of two passes over a text, one has the tokens of the other, as far as that
\* one got.
LEMMA PassesAgree ==
  ASSUME NEW text, NEW r, NEW q, IsPass(text, r), IsPass(text, q),
         NEW k \in Nat \ {0}, k <= Len(r[Len(r)].tokens), k <= Len(q[Len(q)].tokens)
  PROVE  r[Len(r)].tokens[k] = q[Len(q)].tokens[k]
<1>1. ASSUME NEW a, NEW b, IsPass(text, a), IsPass(text, b), Len(a) <= Len(b),
             k <= Len(a[Len(a)].tokens)
      PROVE  a[Len(a)].tokens[k] = b[Len(b)].tokens[k]
  <2>1. /\ Len(a) - 1 \in Nat /\ Len(a) - 1 < Len(a) /\ Len(a) - 1 < Len(b)
        /\ (Len(a) - 1) + 1 = Len(a) /\ Len(a[Len(a)].tokens) \in Nat
    BY <1>1, PassFacts
  <2>2. a[Len(a)] = b[Len(a)]
    BY <1>1, <2>1, SamePass
  <2>3. Grown(b[Len(a)].tokens, b[Len(b)].tokens)
    BY <1>1, <2>1, PassGrows
  <2> QED BY <1>1, <2>1, <2>2, <2>3 DEF Grown
<1>2. Len(r) \in Nat /\ Len(q) \in Nat
  BY PassFacts
<1>3. Len(r) <= Len(q) \/ Len(q) <= Len(r)
  BY <1>2
<1> QED BY <1>1, <1>3

(***************************************************************************)
(* The state is one of a pass over the text, and what was printed are the  *)
(* tokens of one.                                                          *)
(***************************************************************************)
PassInv ==
  /\ \E r : IsPass(source, r) /\ r[Len(r)] = Now
  /\ printed # << >> => \E r : IsPass(source, r) /\ r[Len(r)].tokens = printed

\* lexer_init begins a pass.
LEMMA FirstPass ==
  ASSUME NEW text
  PROVE  IsPass(text, <<FirstState>>) /\ <<FirstState>>[Len(<<FirstState>>)] = FirstState
<1>1. FirstStruct \in Structs /\ "idle" \in Loops
  BY DEF FirstStruct, Structs, Loops
<1>2. FirstState \in States
  BY <1>1 DEF FirstState, States
<1> DEFINE r == <<FirstState>>
<1>3. r \in Seq(States) /\ Len(r) = 1 /\ r[1] = FirstState
  BY <1>2
<1> HIDE DEF r
<1>4. IsPass(text, r)
  BY <1>3 DEF IsPass
<1> QED BY <1>3, <1>4 DEF r

\* Each step of the lexer lengthens the pass it is in.
LEMMA StepsPass ==
  ASSUME LInv, LInv', PassInv, lexer_scan_token \/ ScanStep
  PROVE  PassInv'
<1>1. PICK r : IsPass(source, r) /\ r[Len(r)] = Now
  BY DEF PassInv
<1>2. Now' = After(source, Now)
  BY StepIsAfter
<1>3. Now' \in States /\ tokens \in Seq(TokenRecords)
  BY DEF LInv, LexerTypeOK, Now, States, Structs, Loops
<1>4. Grown(tokens, tokens') /\ UNCHANGED <<source, printed>>
  <2>1. CASE Passes
    <3>1. tokens' = tokens
      BY <2>1 DEF Passes
    <3> QED BY <1>3, <2>1, <3>1 DEF Passes, Grown
  <2>2. CASE Delivers
    <3>1. PICK e : tokens' = Append(tokens, e)
      BY <2>2 DEF Delivers, Makes, Yield
    <3>2. tokens' \in Seq(TokenRecords)
      BY DEF LInv, LexerTypeOK
    <3>3. Len(tokens') = Len(tokens) + 1 /\ \A k \in 1 .. Len(tokens) : tokens'[k] = tokens[k]
      BY <1>3, <3>1
    <3> QED BY <1>3, <2>2, <3>3 DEF Delivers, Makes, Yield, Grown
  <2> QED BY <2>1, <2>2, StepPassesOrDelivers
<1> DEFINE q == Append(r, Now')
<1>5. /\ r \in Seq(States) /\ Len(r) \in Nat /\ Len(r) >= 1 /\ r[1] = FirstState
      /\ \A i \in 1 .. Len(r) - 1 : r[i + 1] = After(source, r[i])
                                    /\ Grown(r[i].tokens, r[i + 1].tokens)
  BY <1>1 DEF IsPass
<1>6. /\ q \in Seq(States) /\ Len(q) = Len(r) + 1 /\ q[Len(r) + 1] = Now'
      /\ \A i \in 1 .. Len(r) : q[i] = r[i]
  BY <1>3, <1>5, Appended
<1> HIDE DEF q
<1>7. IsPass(source, q)
  <2>1. ASSUME NEW i \in 1 .. Len(q) - 1
        PROVE  q[i + 1] = After(source, q[i]) /\ Grown(q[i].tokens, q[i + 1].tokens)
    <3>1. CASE i = Len(r)
      <4>1. q[i] = Now /\ q[i + 1] = Now'
        BY <1>1, <1>5, <1>6, <3>1
      <4>2. Now.tokens = tokens /\ (Now').tokens = tokens'
        BY DEF Now
      <4> QED BY <1>2, <1>4, <4>1, <4>2
    <3>2. CASE i # Len(r)
      <4>1. i \in 1 .. Len(r) - 1 /\ i \in 1 .. Len(r) /\ i + 1 \in 1 .. Len(r)
        BY <1>5, <1>6, <3>2
      <4> QED BY <1>5, <1>6, <4>1
    <3> QED BY <3>1, <3>2
  <2>2. q[1] = FirstState /\ Len(q) >= 1
    BY <1>5, <1>6
  <2> QED BY <1>6, <2>1, <2>2 DEF IsPass
<1>8. q[Len(q)] = Now'
  BY <1>6
<1>9. \E p : IsPass(source', p) /\ p[Len(p)] = Now'
  BY <1>4, <1>7, <1>8
<1>10. printed' # << >> => \E p : IsPass(source', p) /\ p[Len(p)].tokens = printed'
  BY <1>4 DEF PassInv
<1> QED BY <1>9, <1>10 DEF PassInv

\* PassInv holds when a text is given.
LEMMA FirstPassInv == lexer_init => PassInv
<1> SUFFICES ASSUME lexer_init PROVE PassInv
  OBVIOUS
<1>1. Now = FirstState /\ printed = << >>
  BY DEF lexer_init, Now, FirstState, FirstStruct
<1>2. \E r : IsPass(source, r) /\ r[Len(r)] = Now
  BY <1>1, FirstPass
<1> QED BY <1>1, <1>2 DEF PassInv

\* PassInv is inductive.
LEMMA PassInvKept ==
  LInv /\ LInv' /\ PassInv /\ [LexerNext]_lexerVars => PassInv'
<1> SUFFICES ASSUME LInv, LInv', PassInv, [LexerNext]_lexerVars PROVE PassInv'
  OBVIOUS
<1>1. CASE UNCHANGED lexerVars
  <2>1. source' = source /\ printed' = printed /\ Now' = Now
    BY <1>1 DEF lexerVars, Now
  <2> QED BY <2>1 DEF PassInv
<1>2. CASE lexer_scan_token \/ ScanStep
  BY <1>2, StepsPass
<1>3. CASE lexer_reset
  <2>1. /\ source' = source /\ printed' = tokens
        /\ Now' = FirstState
    BY <1>3 DEF lexer_reset, Now, FirstState, FirstStruct
  <2>2. \E r : IsPass(source, r) /\ r[Len(r)].tokens = tokens
    BY DEF PassInv, Now
  <2>3. \E r : IsPass(source', r) /\ r[Len(r)] = Now'
    BY <2>1, FirstPass
  <2> QED BY <2>1, <2>2, <2>3 DEF PassInv
<1> QED BY <1>1, <1>2, <1>3 DEF LexerNext

\* Two passes over one text agree as far as both go.
LEMMA PassesRepeat == LInv /\ PassInv => SecondPassRepeats
<1> SUFFICES ASSUME LInv, PassInv, printed # << >>, NEW i \in 1 .. Len(tokens), i <= Len(printed)
             PROVE  tokens[i] = printed[i]
  BY DEF SecondPassRepeats
<1>1. PICK r : IsPass(source, r) /\ r[Len(r)] = Now
  BY DEF PassInv
<1>2. PICK q : IsPass(source, q) /\ q[Len(q)].tokens = printed
  BY DEF PassInv
<1>3. r[Len(r)].tokens = tokens
  BY <1>1 DEF Now
<1>4. i \in Nat \ {0}
  BY TokenFacts
<1> QED BY <1>1, <1>2, <1>3, <1>4, PassesAgree

(***************************************************************************)
(* What the lexer makes of a text depends on nothing but the text: after   *)
(* lexer_reset (lexer.c:17-23) the tokens that the parser takes are the    *)
(* tokens that lexer_print printed, at the same positions.                 *)
(***************************************************************************)
THEOREM SecondPassIsTheFirst == LexerSpec => []SecondPassRepeats
<1>1. lexer_init => PassInv
  BY FirstPassInv
<1>2. LInv /\ LInv' /\ PassInv /\ [LexerNext]_lexerVars => PassInv'
  BY PassInvKept
<1> QED BY <1>1, <1>2, PassesRepeat, Inductive, PTL DEF LexerSpec
=============================================================================
