---------------------------- MODULE ScannerProofs ----------------------------
(***************************************************************************)
(* The character loops of the lexer implement the scanner, for every set   *)
(* of texts: the lemmas say what NextSignificant and Longest of the        *)
(* scanner are by the characters at a place, that the lists of operators   *)
(* and keywords of lexer.h are those of the switch of lexer.c, and what    *)
(* of the next lexeme the lexer has read in the middle of a loop.          *)
(***************************************************************************)
EXTENDS LexerProofs, MCLexer, SequenceTheorems
-----------------------------------------------------------------------------
\* The scanner's characters are the lexer's.
LEMMA SameCharacters ==
  /\ Abstract!Letters = Letters /\ Abstract!Digits = Digits
  /\ Abstract!Blanks = Blanks /\ Abstract!Quote = Quote
BY DEF Abstract!Letters, Abstract!Digits, Abstract!Blanks, Abstract!Quote,
       Letters, Digits, Blanks, Quote

\* A text at a place: its characters there.
LEMMA SpellingAt ==
  ASSUME LInv, NEW p \in Nat, p >= 1, NEW S, NEW spelling \in Seq(S)
  PROVE  Abstract!At(p, spelling) <=>
           /\ p + Len(spelling) - 1 <= Len(source)
           /\ \A i \in 1 .. Len(spelling) : source[p + i - 1] = spelling[i]
<1>1. Len(source) \in Nat /\ source \in Seq(STRING) /\ Len(spelling) \in Nat
  BY StructFacts, LexerAssumption
<1> DEFINE q == p + Len(spelling) - 1
           part == SubSeq(source, p, q)
<1>2. CASE q <= Len(source)
  <2>1. /\ part \in Seq(STRING) /\ Len(part) = Len(spelling)
        /\ \A i \in 1 .. Len(spelling) : part[i] = source[p + i - 1]
    BY <1>1, <1>2
  <2>2. /\ part \in Seq(STRING \cup S) /\ spelling \in Seq(STRING \cup S)
    BY <2>1
  <2> HIDE DEF part
  <2>3. part = spelling <=> \A i \in 1 .. Len(spelling) : part[i] = spelling[i]
    BY <2>1, <2>2, SeqEqual
  <2>4. Abstract!At(p, spelling) <=> part = spelling
    BY <1>2 DEF Abstract!At, part
  <2>5. (\A i \in 1 .. Len(spelling) : part[i] = spelling[i]) <=>
          (\A i \in 1 .. Len(spelling) : source[p + i - 1] = spelling[i])
    BY <2>1
  <2> QED BY <1>2, <2>3, <2>4, <2>5
<1>3. CASE ~(q <= Len(source))
  BY <1>3 DEF Abstract!At
<1> QED BY <1>2, <1>3

\* One character, and two.
LEMMA OneAt ==
  ASSUME LInv, NEW p \in Nat, p >= 1, NEW a
  PROVE  Abstract!At(p, <<a>>) <=> p <= Len(source) /\ source[p] = a
<1> DEFINE one == <<a>>
<1>1. one \in Seq({a}) /\ Len(one) = 1 /\ one[1] = a
  OBVIOUS
<1> HIDE DEF one
<1>2. p + Len(one) - 1 = p /\ \A i \in 1 .. Len(one) : i = 1 /\ p + i - 1 = p
  BY <1>1
<1>3. 1 \in 1 .. Len(one)
  BY <1>1
<1>4. Abstract!At(p, one) <=> /\ p + Len(one) - 1 <= Len(source)
                              /\ \A i \in 1 .. Len(one) : source[p + i - 1] = one[i]
  BY <1>1, SpellingAt
<1>5. Abstract!At(p, one) <=> p <= Len(source) /\ source[p] = a
  BY <1>1, <1>2, <1>3, <1>4
<1> QED BY <1>5 DEF one

\* The same of two characters.
LEMMA TwoAt ==
  ASSUME LInv, NEW p \in Nat, p >= 1, NEW a, NEW b
  PROVE  Abstract!At(p, <<a, b>>) <=> p + 1 <= Len(source) /\ source[p] = a /\ source[p + 1] = b
<1> DEFINE two == <<a, b>>
<1>1. two \in Seq({a, b}) /\ Len(two) = 2 /\ two[1] = a /\ two[2] = b
  OBVIOUS
<1> HIDE DEF two
<1>2. /\ p + Len(two) - 1 = p + 1 /\ 1 \in 1 .. Len(two) /\ 2 \in 1 .. Len(two)
      /\ p + 1 - 1 = p /\ p + 2 - 1 = p + 1
      /\ \A i \in 1 .. Len(two) : i = 1 \/ i = 2
  BY <1>1
<1>3. Abstract!At(p, two) <=> /\ p + Len(two) - 1 <= Len(source)
                              /\ \A i \in 1 .. Len(two) : source[p + i - 1] = two[i]
  BY <1>1, SpellingAt
<1>4. Abstract!At(p, two) <=> p + 1 <= Len(source) /\ source[p] = a /\ source[p + 1] = b
  BY <1>1, <1>2, <1>3
<1> QED BY <1>4 DEF two
-----------------------------------------------------------------------------
\* What two sequences joined are.
LEMMA Joined ==
  ASSUME NEW S, NEW s \in Seq(S), NEW t \in Seq(S), NEW u \in Seq(S),
         Len(u) = Len(s) + Len(t), \A i \in 1 .. Len(s) : u[i] = s[i],
         \A i \in 1 .. Len(t) : u[Len(s) + i] = t[i]
  PROVE  s \o t = u
<1>1. s \o t \in Seq(S) /\ Len(s \o t) = Len(u)
  OBVIOUS
<1>2. \A i \in 1 .. Len(s \o t) : (s \o t)[i] = u[i]
  OBVIOUS
<1> QED BY <1>1, <1>2, SeqEqual

\* The ways in which the switch splits the keywords.
LEMMA Split12 ==
  ASSUME NEW a, NEW b, NEW c
  PROVE  <<a>> \o <<b, c>> = <<a, b, c>>
<1> DEFINE S == {a, b, c}
<1>1. <<a>> \in Seq(S) /\ <<b, c>> \in Seq(S) /\ <<a, b, c>> \in Seq(S)
  OBVIOUS
<1> HIDE DEF S
<1>2. Len(<<a, b, c>>) = Len(<<a>>) + Len(<<b, c>>)
  OBVIOUS
<1>3. \A i \in 1 .. Len(<<a>>) : <<a, b, c>>[i] = <<a>>[i]
  OBVIOUS
<1>4. \A i \in 1 .. Len(<<b, c>>) : <<a, b, c>>[Len(<<a>>) + i] = <<b, c>>[i]
  OBVIOUS
<1> QED BY <1>1, <1>2, <1>3, <1>4, Joined

\* One before three.
LEMMA Split13 ==
  ASSUME NEW a, NEW b, NEW c, NEW d
  PROVE  <<a>> \o <<b, c, d>> = <<a, b, c, d>>
<1> DEFINE S == {a, b, c, d}
<1>1. <<a>> \in Seq(S) /\ <<b, c, d>> \in Seq(S) /\ <<a, b, c, d>> \in Seq(S)
  OBVIOUS
<1> HIDE DEF S
<1>2. Len(<<a, b, c, d>>) = Len(<<a>>) + Len(<<b, c, d>>)
  OBVIOUS
<1>3. \A i \in 1 .. Len(<<a>>) : <<a, b, c, d>>[i] = <<a>>[i]
  OBVIOUS
<1>4. \A i \in 1 .. Len(<<b, c, d>>) : <<a, b, c, d>>[Len(<<a>>) + i] = <<b, c, d>>[i]
  OBVIOUS
<1> QED BY <1>1, <1>2, <1>3, <1>4, Joined

\* One before four.
LEMMA Split14 ==
  ASSUME NEW a, NEW b, NEW c, NEW d, NEW e
  PROVE  <<a>> \o <<b, c, d, e>> = <<a, b, c, d, e>>
<1> DEFINE S == {a, b, c, d, e}
<1>1. <<a>> \in Seq(S) /\ <<b, c, d, e>> \in Seq(S) /\ <<a, b, c, d, e>> \in Seq(S)
  OBVIOUS
<1> HIDE DEF S
<1>2. Len(<<a, b, c, d, e>>) = Len(<<a>>) + Len(<<b, c, d, e>>)
  OBVIOUS
<1>3. \A i \in 1 .. Len(<<a>>) : <<a, b, c, d, e>>[i] = <<a>>[i]
  OBVIOUS
<1>4. \A i \in 1 .. Len(<<b, c, d, e>>) :
      <<a, b, c, d, e>>[Len(<<a>>) + i] = <<b, c, d, e>>[i]
  OBVIOUS
<1> QED BY <1>1, <1>2, <1>3, <1>4, Joined

\* One before five.
LEMMA Split15 ==
  ASSUME NEW a, NEW b, NEW c, NEW d, NEW e, NEW f
  PROVE  <<a>> \o <<b, c, d, e, f>> = <<a, b, c, d, e, f>>
<1> DEFINE S == {a, b, c, d, e, f}
<1>1. <<a>> \in Seq(S) /\ <<b, c, d, e, f>> \in Seq(S) /\ <<a, b, c, d, e, f>> \in Seq(S)
  OBVIOUS
<1> HIDE DEF S
<1>2. Len(<<a, b, c, d, e, f>>) = Len(<<a>>) + Len(<<b, c, d, e, f>>)
  OBVIOUS
<1>3. \A i \in 1 .. Len(<<a>>) : <<a, b, c, d, e, f>>[i] = <<a>>[i]
  OBVIOUS
<1>4. \A i \in 1 .. Len(<<b, c, d, e, f>>) :
      <<a, b, c, d, e, f>>[Len(<<a>>) + i] = <<b, c, d, e, f>>[i]
  OBVIOUS
<1> QED BY <1>1, <1>2, <1>3, <1>4, Joined

\* One before six.
LEMMA Split16 ==
  ASSUME NEW a, NEW b, NEW c, NEW d, NEW e, NEW f, NEW g
  PROVE  <<a>> \o <<b, c, d, e, f, g>> = <<a, b, c, d, e, f, g>>
<1> DEFINE S == {a, b, c, d, e, f, g}
<1>1. <<a>> \in Seq(S) /\ <<b, c, d, e, f, g>> \in Seq(S)
      /\ <<a, b, c, d, e, f, g>> \in Seq(S)
  OBVIOUS
<1> HIDE DEF S
<1>2. Len(<<a, b, c, d, e, f, g>>) = Len(<<a>>) + Len(<<b, c, d, e, f, g>>)
  OBVIOUS
<1>3. \A i \in 1 .. Len(<<a>>) : <<a, b, c, d, e, f, g>>[i] = <<a>>[i]
  OBVIOUS
<1>4. \A i \in 1 .. Len(<<b, c, d, e, f, g>>) :
      <<a, b, c, d, e, f, g>>[Len(<<a>>) + i] = <<b, c, d, e, f, g>>[i]
  OBVIOUS
<1> QED BY <1>1, <1>2, <1>3, <1>4, Joined

\* Two before one.
LEMMA Split21 ==
  ASSUME NEW a, NEW b, NEW c
  PROVE  <<a, b>> \o <<c>> = <<a, b, c>>
<1> DEFINE S == {a, b, c}
<1>1. <<a, b>> \in Seq(S) /\ <<c>> \in Seq(S) /\ <<a, b, c>> \in Seq(S)
  OBVIOUS
<1> HIDE DEF S
<1>2. Len(<<a, b, c>>) = Len(<<a, b>>) + Len(<<c>>)
  OBVIOUS
<1>3. \A i \in 1 .. Len(<<a, b>>) : <<a, b, c>>[i] = <<a, b>>[i]
  OBVIOUS
<1>4. \A i \in 1 .. Len(<<c>>) : <<a, b, c>>[Len(<<a, b>>) + i] = <<c>>[i]
  OBVIOUS
<1> QED BY <1>1, <1>2, <1>3, <1>4, Joined

\* Two before two.
LEMMA Split22 ==
  ASSUME NEW a, NEW b, NEW c, NEW d
  PROVE  <<a, b>> \o <<c, d>> = <<a, b, c, d>>
<1> DEFINE S == {a, b, c, d}
<1>1. <<a, b>> \in Seq(S) /\ <<c, d>> \in Seq(S) /\ <<a, b, c, d>> \in Seq(S)
  OBVIOUS
<1> HIDE DEF S
<1>2. Len(<<a, b, c, d>>) = Len(<<a, b>>) + Len(<<c, d>>)
  OBVIOUS
<1>3. \A i \in 1 .. Len(<<a, b>>) : <<a, b, c, d>>[i] = <<a, b>>[i]
  OBVIOUS
<1>4. \A i \in 1 .. Len(<<c, d>>) : <<a, b, c, d>>[Len(<<a, b>>) + i] = <<c, d>>[i]
  OBVIOUS
<1> QED BY <1>1, <1>2, <1>3, <1>4, Joined

\* Two before three.
LEMMA Split23 ==
  ASSUME NEW a, NEW b, NEW c, NEW d, NEW e
  PROVE  <<a, b>> \o <<c, d, e>> = <<a, b, c, d, e>>
<1> DEFINE S == {a, b, c, d, e}
<1>1. <<a, b>> \in Seq(S) /\ <<c, d, e>> \in Seq(S) /\ <<a, b, c, d, e>> \in Seq(S)
  OBVIOUS
<1> HIDE DEF S
<1>2. Len(<<a, b, c, d, e>>) = Len(<<a, b>>) + Len(<<c, d, e>>)
  OBVIOUS
<1>3. \A i \in 1 .. Len(<<a, b>>) : <<a, b, c, d, e>>[i] = <<a, b>>[i]
  OBVIOUS
<1>4. \A i \in 1 .. Len(<<c, d, e>>) : <<a, b, c, d, e>>[Len(<<a, b>>) + i] = <<c, d, e>>[i]
  OBVIOUS
<1> QED BY <1>1, <1>2, <1>3, <1>4, Joined

\* Two before four.
LEMMA Split24 ==
  ASSUME NEW a, NEW b, NEW c, NEW d, NEW e, NEW f
  PROVE  <<a, b>> \o <<c, d, e, f>> = <<a, b, c, d, e, f>>
<1> DEFINE S == {a, b, c, d, e, f}
<1>1. <<a, b>> \in Seq(S) /\ <<c, d, e, f>> \in Seq(S) /\ <<a, b, c, d, e, f>> \in Seq(S)
  OBVIOUS
<1> HIDE DEF S
<1>2. Len(<<a, b, c, d, e, f>>) = Len(<<a, b>>) + Len(<<c, d, e, f>>)
  OBVIOUS
<1>3. \A i \in 1 .. Len(<<a, b>>) : <<a, b, c, d, e, f>>[i] = <<a, b>>[i]
  OBVIOUS
<1>4. \A i \in 1 .. Len(<<c, d, e, f>>) :
      <<a, b, c, d, e, f>>[Len(<<a, b>>) + i] = <<c, d, e, f>>[i]
  OBVIOUS
<1> QED BY <1>1, <1>2, <1>3, <1>4, Joined

\* The two tables of keywords are the same.
LEMMA SameKeywords ==
  /\ \A k \in KeywordCases :
       /\ [type |-> k.type, spelling |-> k.prefix \o k.rest] \in Abstract!Keywords
       /\ k.prefix \in Seq(Letters) /\ k.rest \in Seq(Letters) /\ Len(k.prefix) \in {1, 2}
  /\ \A w \in Abstract!Keywords :
       \E k \in KeywordCases : w = [type |-> k.type, spelling |-> k.prefix \o k.rest]
<1>1. ASSUME NEW k \in KeywordCases
      PROVE  /\ [type |-> k.type, spelling |-> k.prefix \o k.rest] \in Abstract!Keywords
             /\ k.prefix \in Seq(Letters) /\ k.rest \in Seq(Letters) /\ Len(k.prefix) \in {1, 2}
  <2> DEFINE Same(j) ==
               /\ [type |-> j.type, spelling |-> j.prefix \o j.rest] \in Abstract!Keywords
               /\ j.prefix \in Seq(Letters) /\ j.rest \in Seq(Letters)
               /\ Len(j.prefix) \in {1, 2}
  <2>1. Same([prefix |-> <<"d">>, rest |-> <<"u", "m", "p">>, type |-> "dump"])
    <3>1. <<"d">> \in Seq(Letters) /\ <<"u", "m", "p">> \in Seq(Letters)
          /\ Len(<<"d">>) \in {1, 2}
      BY DEF Letters
    <3>2. <<"d">> \o <<"u", "m", "p">> = <<"d", "u", "m", "p">>
      BY Split13
    <3> QED BY <3>1, <3>2 DEF Abstract!Keywords
  <2>2. Same([prefix |-> <<"e">>, rest |-> <<"l", "s", "e">>, type |-> "else"])
    <3>1. <<"e">> \in Seq(Letters) /\ <<"l", "s", "e">> \in Seq(Letters)
          /\ Len(<<"e">>) \in {1, 2}
      BY DEF Letters
    <3>2. <<"e">> \o <<"l", "s", "e">> = <<"e", "l", "s", "e">>
      BY Split13
    <3> QED BY <3>1, <3>2 DEF Abstract!Keywords
  <2>3. Same([prefix |-> <<"f", "a">>, rest |-> <<"l", "s", "e">>, type |-> "false"])
    <3>1. <<"f", "a">> \in Seq(Letters) /\ <<"l", "s", "e">> \in Seq(Letters)
          /\ Len(<<"f", "a">>) \in {1, 2}
      BY DEF Letters
    <3>2. <<"f", "a">> \o <<"l", "s", "e">> = <<"f", "a", "l", "s", "e">>
      BY Split23
    <3> QED BY <3>1, <3>2 DEF Abstract!Keywords
  <2>4. Same([prefix |-> <<"f", "n">>, rest |-> << >>, type |-> "fn"])
    <3>1. <<"f", "n">> \in Seq(Letters) /\ << >> \in Seq(Letters)
          /\ Len(<<"f", "n">>) \in {1, 2}
      BY DEF Letters
    <3>2. <<"f", "n">> \o << >> = <<"f", "n">>
      OBVIOUS
    <3> QED BY <3>1, <3>2 DEF Abstract!Keywords
  <2>5. Same([prefix |-> <<"f", "o">>, rest |-> <<"r">>, type |-> "for"])
    <3>1. <<"f", "o">> \in Seq(Letters) /\ <<"r">> \in Seq(Letters)
          /\ Len(<<"f", "o">>) \in {1, 2}
      BY DEF Letters
    <3>2. <<"f", "o">> \o <<"r">> = <<"f", "o", "r">>
      BY Split21
    <3> QED BY <3>1, <3>2 DEF Abstract!Keywords
  <2>6. Same([prefix |-> <<"i", "f">>, rest |-> << >>, type |-> "if"])
    <3>1. <<"i", "f">> \in Seq(Letters) /\ << >> \in Seq(Letters)
          /\ Len(<<"i", "f">>) \in {1, 2}
      BY DEF Letters
    <3>2. <<"i", "f">> \o << >> = <<"i", "f">>
      OBVIOUS
    <3> QED BY <3>1, <3>2 DEF Abstract!Keywords
  <2>7. Same([prefix |-> <<"i", "m">>, rest |-> <<"p", "o", "r", "t">>, type |-> "import"])
    <3>1. <<"i", "m">> \in Seq(Letters) /\ <<"p", "o", "r", "t">> \in Seq(Letters)
          /\ Len(<<"i", "m">>) \in {1, 2}
      BY DEF Letters
    <3>2. <<"i", "m">> \o <<"p", "o", "r", "t">> = <<"i", "m", "p", "o", "r", "t">>
      BY Split24
    <3> QED BY <3>1, <3>2 DEF Abstract!Keywords
  <2>8. Same([prefix |-> <<"l">>, rest |-> <<"e", "t">>, type |-> "let"])
    <3>1. <<"l">> \in Seq(Letters) /\ <<"e", "t">> \in Seq(Letters)
          /\ Len(<<"l">>) \in {1, 2}
      BY DEF Letters
    <3>2. <<"l">> \o <<"e", "t">> = <<"l", "e", "t">>
      BY Split12
    <3> QED BY <3>1, <3>2 DEF Abstract!Keywords
  <2>9. Same([prefix |-> <<"m">>, rest |-> <<"a", "t", "c", "h">>, type |-> "match"])
    <3>1. <<"m">> \in Seq(Letters) /\ <<"a", "t", "c", "h">> \in Seq(Letters)
          /\ Len(<<"m">>) \in {1, 2}
      BY DEF Letters
    <3>2. <<"m">> \o <<"a", "t", "c", "h">> = <<"m", "a", "t", "c", "h">>
      BY Split14
    <3> QED BY <3>1, <3>2 DEF Abstract!Keywords
  <2>10. Same([prefix |-> <<"n">>, rest |-> <<"i", "l">>, type |-> "nil"])
    <3>1. <<"n">> \in Seq(Letters) /\ <<"i", "l">> \in Seq(Letters)
          /\ Len(<<"n">>) \in {1, 2}
      BY DEF Letters
    <3>2. <<"n">> \o <<"i", "l">> = <<"n", "i", "l">>
      BY Split12
    <3> QED BY <3>1, <3>2 DEF Abstract!Keywords
  <2>11. Same([prefix |-> <<"p">>, rest |-> <<"a", "c", "k", "a", "g", "e">>, type |-> "package"])
    <3>1. <<"p">> \in Seq(Letters) /\ <<"a", "c", "k", "a", "g", "e">> \in Seq(Letters)
          /\ Len(<<"p">>) \in {1, 2}
      BY DEF Letters
    <3>2. <<"p">> \o <<"a", "c", "k", "a", "g", "e">>
          = <<"p", "a", "c", "k", "a", "g", "e">>
      BY Split16
    <3> QED BY <3>1, <3>2 DEF Abstract!Keywords
  <2>12. Same([prefix |-> <<"r">>, rest |-> <<"e", "t", "u", "r", "n">>, type |-> "return"])
    <3>1. <<"r">> \in Seq(Letters) /\ <<"e", "t", "u", "r", "n">> \in Seq(Letters)
          /\ Len(<<"r">>) \in {1, 2}
      BY DEF Letters
    <3>2. <<"r">> \o <<"e", "t", "u", "r", "n">> = <<"r", "e", "t", "u", "r", "n">>
      BY Split15
    <3> QED BY <3>1, <3>2 DEF Abstract!Keywords
  <2>13. Same([prefix |-> <<"s", "e">>, rest |-> <<"l", "f">>, type |-> "self"])
    <3>1. <<"s", "e">> \in Seq(Letters) /\ <<"l", "f">> \in Seq(Letters)
          /\ Len(<<"s", "e">>) \in {1, 2}
      BY DEF Letters
    <3>2. <<"s", "e">> \o <<"l", "f">> = <<"s", "e", "l", "f">>
      BY Split22
    <3> QED BY <3>1, <3>2 DEF Abstract!Keywords
  <2>14. Same([prefix |-> <<"s", "t">>, rest |-> <<"r", "u", "c", "t">>, type |-> "struct"])
    <3>1. <<"s", "t">> \in Seq(Letters) /\ <<"r", "u", "c", "t">> \in Seq(Letters)
          /\ Len(<<"s", "t">>) \in {1, 2}
      BY DEF Letters
    <3>2. <<"s", "t">> \o <<"r", "u", "c", "t">> = <<"s", "t", "r", "u", "c", "t">>
      BY Split24
    <3> QED BY <3>1, <3>2 DEF Abstract!Keywords
  <2>15. Same([prefix |-> <<"t">>, rest |-> <<"r", "u", "e">>, type |-> "true"])
    <3>1. <<"t">> \in Seq(Letters) /\ <<"r", "u", "e">> \in Seq(Letters)
          /\ Len(<<"t">>) \in {1, 2}
      BY DEF Letters
    <3>2. <<"t">> \o <<"r", "u", "e">> = <<"t", "r", "u", "e">>
      BY Split13
    <3> QED BY <3>1, <3>2 DEF Abstract!Keywords
  <2>16. Same([prefix |-> <<"w", "h">>, rest |-> <<"i", "l", "e">>, type |-> "while"])
    <3>1. <<"w", "h">> \in Seq(Letters) /\ <<"i", "l", "e">> \in Seq(Letters)
          /\ Len(<<"w", "h">>) \in {1, 2}
      BY DEF Letters
    <3>2. <<"w", "h">> \o <<"i", "l", "e">> = <<"w", "h", "i", "l", "e">>
      BY Split23
    <3> QED BY <3>1, <3>2 DEF Abstract!Keywords
  <2>17. Same([prefix |-> <<"w", "i">>, rest |-> <<"t", "h">>, type |-> "with"])
    <3>1. <<"w", "i">> \in Seq(Letters) /\ <<"t", "h">> \in Seq(Letters)
          /\ Len(<<"w", "i">>) \in {1, 2}
      BY DEF Letters
    <3>2. <<"w", "i">> \o <<"t", "h">> = <<"w", "i", "t", "h">>
      BY Split22
    <3> QED BY <3>1, <3>2 DEF Abstract!Keywords
  <2> HIDE DEF Same
  <2>18. Same(k)
    BY <2>1, <2>2, <2>3, <2>4, <2>5, <2>6, <2>7, <2>8, <2>9, <2>10, <2>11, <2>12, <2>13, <2>14,
       <2>15, <2>16, <2>17 DEF KeywordCases
  <2> QED BY <2>18 DEF Same
<1>2. ASSUME NEW w \in Abstract!Keywords
      PROVE  \E k \in KeywordCases : w = [type |-> k.type, spelling |-> k.prefix \o k.rest]
  BY Split12, Split13, Split14, Split15, Split16, Split21, Split22, Split23, Split24
     DEF KeywordCases, Abstract!Keywords
<1> QED BY <1>1, <1>2

\* No two rows of the switch begin alike.
LEMMA PrefixesApart ==
  \A j, k \in KeywordCases :
    /\ j.prefix[1] = k.prefix[1]
    /\ Len(j.prefix) = 2 /\ Len(k.prefix) = 2 => j.prefix[2] = k.prefix[2]
    => j = k
BY DEF KeywordCases

\* A word is a keyword if it begins and goes on as a row says.
IsSplit(w, p, r) ==
  StartsWith(w, p) /\ Len(w) = Len(p) + Len(r) /\ SubSeq(w, Len(p) + 1, Len(w)) = r

Whole(p, r) == p \o r

\* StartsWith and SubSeq of lexer_check_keyword, character by character.
LEMMA SplitWord ==
  ASSUME NEW S, NEW w \in Seq(S), NEW p \in Seq(S), NEW r \in Seq(S)
  PROVE  /\ StartsWith(w, p) => \A i \in 1 .. Len(p) : w[i] = p[i]
         /\ w = Whole(p, r) <=> IsSplit(w, p, r)
<1>1. Len(w) \in Nat /\ Len(p) \in Nat /\ Len(r) \in Nat
  OBVIOUS
<1>2. ASSUME StartsWith(w, p) PROVE \A i \in 1 .. Len(p) : w[i] = p[i]
  <2>1. Len(p) <= Len(w) /\ SubSeq(w, 1, Len(p)) = p
    BY <1>2 DEF StartsWith
  <2>2. \A i \in 1 .. Len(p) : SubSeq(w, 1, Len(p))[i] = w[i]
    BY <1>1, <2>1
  <2> QED BY <2>1, <2>2
<1>3. ASSUME w = p \o r
      PROVE  /\ StartsWith(w, p) /\ Len(w) = Len(p) + Len(r)
             /\ SubSeq(w, Len(p) + 1, Len(w)) = r
  <2>1. /\ Len(w) = Len(p) + Len(r)
        /\ \A i \in 1 .. Len(p) : w[i] = p[i]
        /\ \A i \in 1 .. Len(r) : w[Len(p) + i] = r[i]
    BY <1>1, <1>3
  <2>2. SubSeq(w, 1, Len(p)) = p
    <3>1. /\ SubSeq(w, 1, Len(p)) \in Seq(S) /\ Len(SubSeq(w, 1, Len(p))) = Len(p)
          /\ \A i \in 1 .. Len(p) : SubSeq(w, 1, Len(p))[i] = w[i]
      BY <1>1, <2>1
    <3> QED BY <2>1, <3>1, SeqEqual
  <2>3. SubSeq(w, Len(p) + 1, Len(w)) = r
    <3> DEFINE tail == SubSeq(w, Len(p) + 1, Len(w))
    <3>1. /\ tail \in Seq(S) /\ Len(tail) = Len(r)
          /\ \A i \in 1 .. Len(r) : tail[i] = w[Len(p) + i]
      BY <1>1, <2>1
    <3> HIDE DEF tail
    <3>2. tail = r
      BY <2>1, <3>1, SeqEqual
    <3> QED BY <3>2 DEF tail
  <2> QED BY <1>1, <2>1, <2>2, <2>3 DEF StartsWith
<1>4. ASSUME StartsWith(w, p), Len(w) = Len(p) + Len(r), SubSeq(w, Len(p) + 1, Len(w)) = r
      PROVE  w = p \o r
  <2>1. \A i \in 1 .. Len(r) : w[Len(p) + i] = r[i]
    <3>1. \A i \in 1 .. Len(r) : SubSeq(w, Len(p) + 1, Len(w))[i] = w[Len(p) + i]
      BY <1>1, <1>4
    <3> QED BY <1>4, <3>1
  <2> QED BY <1>2, <1>4, <2>1, Joined
<1> QED BY <1>2, <1>3, <1>4 DEF IsSplit, Whole

\* What lexer_determine_identifier_type finds is what the list of keywords says.
LEMMA SameWords ==
  ASSUME LInv, NEW first \in 1 .. Len(source), NEW last \in 1 .. Len(source)
  PROVE  Abstract!WordType(first, last) =
           lexer_determine_identifier_type(SubSeq(source, first, last))
<1> DEFINE w == SubSeq(source, first, last)
           cases == {k \in KeywordCases : StartsWith(w, k.prefix)}
           named == {k \in Abstract!Keywords : w = k.spelling}
           S == STRING \cup Letters
<1>1. source \in Seq(STRING) /\ Len(source) \in Nat
  BY StructFacts, LexerAssumption
<1>2. w \in Seq(S)
  <2>1. \A i \in first .. last : source[i] \in STRING
    BY <1>1
  <2>2. w \in Seq(STRING)
    BY <2>1, SubSeqProperties
  <2> QED BY <2>2
<1>3. Abstract!WordType(first, last) =
        IF named = {} THEN "identifier" ELSE (CHOOSE k \in named : TRUE).type
  BY DEF Abstract!WordType
<1>4. lexer_determine_identifier_type(w) =
        IF cases = {} THEN "identifier" ELSE lexer_check_keyword(w, CHOOSE k \in cases : TRUE)
  BY DEF lexer_determine_identifier_type
<1> HIDE DEF w
<1>5. \A k \in KeywordCases :
        /\ k.prefix \in Seq(Letters) /\ k.rest \in Seq(Letters) /\ Len(k.prefix) \in {1, 2}
        /\ [type |-> k.type, spelling |-> k.prefix \o k.rest] \in Abstract!Keywords
  BY SameKeywords
<1>6. ASSUME NEW k \in KeywordCases
      PROVE  /\ StartsWith(w, k.prefix) => \A i \in 1 .. Len(k.prefix) : w[i] = k.prefix[i]
             /\ w = k.prefix \o k.rest <=>
                  /\ StartsWith(w, k.prefix) /\ Len(w) = Len(k.prefix) + Len(k.rest)
                  /\ SubSeq(w, Len(k.prefix) + 1, Len(w)) = k.rest
  <2>0. Letters \subseteq S
    OBVIOUS
  <2> HIDE DEF S
  <2>1. k.prefix \in Seq(Letters) /\ k.rest \in Seq(Letters)
    BY <1>5
  <2>2. k.prefix \in Seq(S) /\ k.rest \in Seq(S)
    BY <2>0, <2>1, SeqMonotonic
  <2> DEFINE p == k.prefix
             r == k.rest
  <2>3. p \in Seq(S) /\ r \in Seq(S)
    BY <2>2
  <2> HIDE DEF p, r
  <2>4. StartsWith(w, p) => \A i \in 1 .. Len(p) : w[i] = p[i]
    BY <1>2, <2>3, SplitWord
  <2>5. w = Whole(p, r) <=> IsSplit(w, p, r)
    BY <1>2, <2>3, SplitWord
  <2> QED BY <2>4, <2>5 DEF p, r, IsSplit, Whole
<1>7. ASSUME NEW j \in cases, NEW k \in cases PROVE j = k
  <2>1. /\ j \in KeywordCases /\ k \in KeywordCases
        /\ Len(j.prefix) \in {1, 2} /\ Len(k.prefix) \in {1, 2}
        /\ \A i \in 1 .. Len(j.prefix) : w[i] = j.prefix[i]
        /\ \A i \in 1 .. Len(k.prefix) : w[i] = k.prefix[i]
    BY <1>5, <1>6
  <2>2. j.prefix[1] = k.prefix[1]
    BY <2>1
  <2>3. Len(j.prefix) = 2 /\ Len(k.prefix) = 2 => j.prefix[2] = k.prefix[2]
    BY <2>1
  <2> QED BY <2>1, <2>2, <2>3, PrefixesApart
<1>8. ASSUME NEW n \in named
      PROVE  \E k \in cases : n.type = k.type /\ w = k.prefix \o k.rest
  <2>1. PICK k \in KeywordCases : n = [type |-> k.type, spelling |-> k.prefix \o k.rest]
    BY SameKeywords
  <2>2. w = k.prefix \o k.rest /\ n.type = k.type
    BY <2>1
  <2> QED BY <1>6, <2>2
<1>9. CASE cases = {}
  <2>1. named = {}
    BY <1>8, <1>9
  <2> QED BY <1>3, <1>4, <1>9, <2>1 DEF w
<1>10. CASE cases # {}
  <2>1. PICK k \in cases : k = CHOOSE j \in cases : TRUE
    BY <1>10
  <2>2. lexer_determine_identifier_type(w) = lexer_check_keyword(w, k)
    BY <1>4, <1>10, <2>1
  <2>3. CASE w = k.prefix \o k.rest
    <3>1. lexer_check_keyword(w, k) = k.type
      BY <1>6, <2>3 DEF lexer_check_keyword
    <3>2. [type |-> k.type, spelling |-> k.prefix \o k.rest] \in named
      BY <1>5, <2>3
    <3>3. \A n \in named : n.type = k.type
      BY <1>7, <1>8
    <3> HIDE DEF named
    <3> QED BY <1>3, <2>2, <3>1, <3>2, <3>3 DEF w
  <2>4. CASE w # k.prefix \o k.rest
    <3>1. lexer_check_keyword(w, k) = "identifier"
      BY <1>6, <2>4 DEF lexer_check_keyword
    <3>2. named = {}
      BY <1>7, <1>8, <2>4
    <3> QED BY <1>3, <2>2, <3>1, <3>2 DEF w
  <2> QED BY <2>3, <2>4
<1> QED BY <1>9, <1>10
-----------------------------------------------------------------------------
\* The least element of a set of numbers.
LEMMA MinIs ==
  ASSUME NEW T \in SUBSET Nat, NEW m \in T, \A x \in T : m <= x
  PROVE  Abstract!Min(T) = m
<1>1. \A y \in T : (\A x \in T : y <= x) => y = m
  OBVIOUS
<1> QED BY <1>1 DEF Abstract!Min

\* Where the comment that is read at a place ends.
LineEnd(p) == Abstract!Min({q \in p .. Len(source) : source[q] = "\n"} \cup {End})

Closings(p) == {r \in p .. Len(source) : Abstract!At(r, <<"*", "/">>)}

BlockEnd(p) == Abstract!Min({q + 2 : q \in Closings(p)} \cup {End})

\* A line comment stops at an end of line, and goes on elsewhere.
LEMMA LineEnds ==
  ASSUME LInv, NEW p \in 1 .. End
  PROVE  /\ LineEnd(p) \in p .. End
         /\ CharAt(p) \in {"\n", NUL} => LineEnd(p) = p
         /\ CharAt(p) \notin {"\n", NUL} => p < End /\ LineEnd(p + 1) = LineEnd(p)
<1> DEFINE ends(q) == {r \in q .. Len(source) : source[r] = "\n"} \cup {End}
<1>1. Len(source) \in Nat /\ End = Len(source) + 1 /\ source \in Sources
  BY StructFacts
<1>2. /\ p \in 1 .. Len(source) => CharAt(p) # NUL /\ CharAt(p) = source[p]
      /\ CharAt(p) # NUL => p \in 1 .. Len(source)
  BY <1>1, Characters
<1>3. ends(p) \in SUBSET Nat /\ End \in ends(p) /\ \A x \in ends(p) : p <= x /\ x <= End
  BY <1>1
<1>4. PICK m \in ends(p) : \A x \in ends(p) : m <= x
  <2> HIDE DEF ends
  <2> QED BY <1>3, LeastNumber
<1>5. LineEnd(p) = Abstract!Min(ends(p)) /\ LineEnd(p + 1) = Abstract!Min(ends(p + 1))
  BY DEF LineEnd
<1>6. LineEnd(p) = m
  <2> HIDE DEF ends
  <2> QED BY <1>3, <1>4, <1>5, MinIs
<1>7. LineEnd(p) \in p .. End
  BY <1>1, <1>3, <1>6
<1>8. ASSUME CharAt(p) \in {"\n", NUL} PROVE LineEnd(p) = p
  <2>1. p \in ends(p)
    BY <1>1, <1>2, <1>8
  <2>2. m <= p /\ p <= m
    BY <1>3, <1>4, <2>1
  <2> QED BY <1>3, <1>6, <2>2
<1>9. ASSUME CharAt(p) \notin {"\n", NUL} PROVE p < End /\ LineEnd(p + 1) = LineEnd(p)
  <2>1. p \in 1 .. Len(source) /\ source[p] # "\n"
    BY <1>2, <1>9
  <2>2. ends(p + 1) = ends(p)
    <3>1. \A r : r \in p .. Len(source) <=> r = p \/ r \in p + 1 .. Len(source)
      BY <1>1, <2>1
    <3> QED BY <2>1, <3>1
  <2> HIDE DEF ends
  <2> QED BY <1>1, <1>5, <2>1, <2>2
<1> QED BY <1>7, <1>8, <1>9

\* A block comment stops after a star and a slash, and goes on elsewhere.
LEMMA BlockEnds ==
  ASSUME LInv, NEW p \in 1 .. End
  PROVE  /\ BlockEnd(p) \in p .. End /\ (p < End => p < BlockEnd(p))
         /\ CharAt(p) = NUL => BlockEnd(p) = p
         /\ CharAt(p) = "*" /\ CharAt(p + 1) = "/" => BlockEnd(p) = p + 2 /\ p + 2 <= End
         /\ CharAt(p) # NUL /\ ~(CharAt(p) = "*" /\ CharAt(p + 1) = "/") =>
              p < End /\ BlockEnd(p + 1) = BlockEnd(p)
<1> DEFINE ends(q) == {r + 2 : r \in Closings(q)} \cup {End}
<1>1. Len(source) \in Nat /\ End = Len(source) + 1 /\ source \in Sources
  BY StructFacts
<1>2. /\ p \in 1 .. Len(source) => CharAt(p) # NUL /\ CharAt(p) = source[p]
      /\ CharAt(p) # NUL => p \in 1 .. Len(source)
      /\ p + 1 \in 1 .. Len(source) => CharAt(p + 1) = source[p + 1]
      /\ CharAt(p + 1) # NUL => p + 1 \in 1 .. Len(source)
  BY <1>1, Characters
<1>3. \A r \in Nat \ {0} : Abstract!At(r, <<"*", "/">>) <=>
        r + 1 <= Len(source) /\ source[r] = "*" /\ source[r + 1] = "/"
  <2> TAKE r \in Nat \ {0}
  <2>1. r \in Nat /\ r >= 1
    OBVIOUS
  <2> QED BY <2>1, TwoAt
<1>4. \A r \in Closings(p) : r \in Nat /\ p <= r /\ r + 2 <= End
  BY <1>1, <1>3 DEF Closings
<1>5. ends(p) \in SUBSET Nat /\ End \in ends(p)
  BY <1>1, <1>4
<1>6. \A x \in ends(p) : p <= x /\ x <= End /\ (x = End \/ p + 2 <= x)
  BY <1>1, <1>4
<1>7. PICK m \in ends(p) : \A x \in ends(p) : m <= x
  <2> HIDE DEF ends
  <2> QED BY <1>5, LeastNumber
<1>8. BlockEnd(p) = Abstract!Min(ends(p)) /\ BlockEnd(p + 1) = Abstract!Min(ends(p + 1))
  BY DEF BlockEnd
<1>9. BlockEnd(p) = m
  <2> HIDE DEF ends
  <2> QED BY <1>5, <1>7, <1>8, MinIs
<1>10. BlockEnd(p) \in p .. End /\ (p < End => p < BlockEnd(p))
  <2> HIDE DEF ends
  <2>1. m \in Nat /\ p <= m /\ m <= End /\ (m = End \/ p + 2 <= m)
    BY <1>5, <1>6
  <2> QED BY <1>1, <1>9, <2>1
<1>11. ASSUME CharAt(p) = NUL PROVE BlockEnd(p) = p
  BY <1>1, <1>2, <1>10, <1>11
<1>12. ASSUME CharAt(p) = "*", CharAt(p + 1) = "/"
       PROVE  BlockEnd(p) = p + 2 /\ p + 2 <= End
  <2>1. p + 1 \in 1 .. Len(source) /\ p \in 1 .. Len(source)
    BY <1>2, <1>12 DEF NUL
  <2>2. p \in Closings(p)
    BY <1>1, <1>2, <1>3, <1>12, <2>1 DEF Closings
  <2>3. p + 2 \in ends(p) /\ p + 2 <= End
    BY <1>1, <2>1, <2>2
  <2>4. m <= p + 2 /\ (m = End \/ p + 2 <= m) /\ m \in Nat
    BY <1>5, <1>6, <1>7, <2>3
  <2> QED BY <1>1, <1>9, <2>3, <2>4
<1>13. ASSUME CharAt(p) # NUL, ~(CharAt(p) = "*" /\ CharAt(p + 1) = "/")
       PROVE  p < End /\ BlockEnd(p + 1) = BlockEnd(p)
  <2>1. p \in 1 .. Len(source) /\ ~ Abstract!At(p, <<"*", "/">>)
    BY <1>1, <1>2, <1>3, <1>13
  <2>2. Closings(p + 1) = Closings(p)
    <3>1. \A r : r \in p .. Len(source) <=> r = p \/ r \in p + 1 .. Len(source)
      BY <1>1, <2>1
    <3> QED BY <2>1, <3>1 DEF Closings
  <2> QED BY <1>1, <2>1, <2>2 DEF BlockEnd
<1> QED BY <1>10, <1>11, <1>12, <1>13

\* What is dropped at a place, by its first two characters.
LEMMA Insignificant ==
  ASSUME LInv, NEW p \in 1 .. End
  PROVE  /\ CharAt(p) \in Blanks => p < End /\ Abstract!AfterInsignificant(p) = p + 1
         /\ CharAt(p) = "/" /\ CharAt(p + 1) = "/" =>
              Abstract!AfterInsignificant(p) = LineEnd(p) /\ LineEnd(p) # p
         /\ CharAt(p) = "/" /\ CharAt(p + 1) = "*" =>
              Abstract!AfterInsignificant(p) = BlockEnd(p) /\ BlockEnd(p) # p
         /\ CharAt(p) \notin Blanks /\ ~(CharAt(p) = "/" /\ CharAt(p + 1) \in {"/", "*"}) =>
              Abstract!AfterInsignificant(p) = p
         /\ Abstract!AfterInsignificant(p) \in p .. End
<1>1. Len(source) \in Nat /\ End = Len(source) + 1 /\ source \in Sources
  BY StructFacts
<1>2. /\ p \in 1 .. Len(source) => CharAt(p) # NUL /\ CharAt(p) = source[p]
      /\ CharAt(p) # NUL => p \in 1 .. Len(source)
      /\ p + 1 \in 1 .. Len(source) => CharAt(p + 1) = source[p + 1]
      /\ CharAt(p + 1) # NUL => p + 1 \in 1 .. Len(source)
  BY <1>1, Characters
<1>3. /\ Abstract!At(p, <<"/", "/">>) <=> CharAt(p) = "/" /\ CharAt(p + 1) = "/"
      /\ Abstract!At(p, <<"/", "*">>) <=> CharAt(p) = "/" /\ CharAt(p + 1) = "*"
  <2>0. p \in Nat /\ p >= 1
    BY <1>1
  <2>1. Abstract!At(p, <<"/", "/">>) <=>
             p + 1 <= Len(source) /\ source[p] = "/" /\ source[p + 1] = "/"
    BY <2>0, TwoAt
  <2>2. Abstract!At(p, <<"/", "*">>) <=>
             p + 1 <= Len(source) /\ source[p] = "/" /\ source[p + 1] = "*"
    BY <2>0, TwoAt
  <2> QED BY <1>1, <1>2, <2>1, <2>2 DEF NUL
<1>4. LineEnd(p) \in p .. End /\ BlockEnd(p) \in p .. End
  BY LineEnds, BlockEnds
<1>5. ASSUME CharAt(p) = "/", CharAt(p + 1) = "/"
      PROVE  Abstract!AfterInsignificant(p) = LineEnd(p) /\ LineEnd(p) # p
  <2>1. p + 1 \in 1 .. End /\ CharAt(p) \notin {"\n", NUL} /\ End + 1 - 1 = Len(source) + 1
    BY <1>1, <1>2, <1>5 DEF NUL
  <2>2. LineEnd(p) = LineEnd(p + 1) /\ LineEnd(p + 1) \in p + 1 .. End
    BY <2>1, LineEnds
  <2>3. Abstract!AfterInsignificant(p) = LineEnd(p)
    <3>1. Len(source) + 1 - 1 = Len(source)
      BY <1>1
    <3>2. ~ Abstract!At(p, <<"/", "*">>) /\ Abstract!At(p, <<"/", "/">>)
      BY <1>3, <1>5
    <3> QED BY <1>1, <3>1, <3>2 DEF Abstract!AfterInsignificant, LineEnd
  <2> QED BY <1>1, <2>2, <2>3
<1>6. ASSUME CharAt(p) = "/", CharAt(p + 1) = "*"
      PROVE  Abstract!AfterInsignificant(p) = BlockEnd(p) /\ BlockEnd(p) # p
  <2>1. CharAt(p) # NUL /\ ~(CharAt(p) = "*" /\ CharAt(p + 1) = "/")
    BY <1>6 DEF NUL
  <2>2. p < End /\ BlockEnd(p + 1) = BlockEnd(p) /\ p < BlockEnd(p)
    BY <2>1, BlockEnds
  <2>3. Abstract!AfterInsignificant(p) = BlockEnd(p + 1)
    <3>1. Len(source) + 1 - 1 = Len(source)
      BY <1>1
    <3>2. ~ Abstract!At(p, <<"/", "/">>) /\ Abstract!At(p, <<"/", "*">>)
      BY <1>3, <1>6
    <3> QED BY <1>1, <3>1, <3>2 DEF Abstract!AfterInsignificant, BlockEnd, Closings
  <2> QED BY <1>4, <2>2, <2>3
<1>7. ASSUME ~(CharAt(p) = "/" /\ CharAt(p + 1) \in {"/", "*"})
      PROVE  Abstract!AfterInsignificant(p) =
               IF p < Len(source) + 1 /\ source[p] \in Blanks THEN p + 1 ELSE p
  BY <1>3, <1>7, SameCharacters DEF Abstract!AfterInsignificant
<1>8. ASSUME CharAt(p) \in Blanks
      PROVE  p < End /\ Abstract!AfterInsignificant(p) = p + 1
  <2>1. CharAt(p) # "/" /\ CharAt(p) # NUL
    BY <1>8, Apart, NotTheEnd
  <2> QED BY <1>1, <1>2, <1>7, <1>8, <2>1
<1>9. ASSUME CharAt(p) \notin Blanks, ~(CharAt(p) = "/" /\ CharAt(p + 1) \in {"/", "*"})
      PROVE  Abstract!AfterInsignificant(p) = p
  <2>1. p < Len(source) + 1 => source[p] \notin Blanks
    BY <1>1, <1>2, <1>9
  <2> QED BY <1>7, <1>9, <2>1
<1>10. Abstract!AfterInsignificant(p) \in p .. End
  <2>1. CASE CharAt(p) \in Blanks
    BY <1>1, <1>8, <2>1
  <2>2. CASE CharAt(p) \notin Blanks
    BY <1>1, <1>4, <1>5, <1>6, <1>9, <2>2
  <2> QED BY <2>1, <2>2
<1> QED BY <1>5, <1>6, <1>8, <1>9, <1>10
-----------------------------------------------------------------------------
(***************************************************************************)
(* NextSignificant.  Skips(f) says that f goes on behind what is dropped   *)
(* at a place.                                                             *)
(***************************************************************************)
SkipStep(f, p) ==
  IF Abstract!AfterInsignificant(p) = p THEN p ELSE f[Abstract!AfterInsignificant(p)]

Skips(f) == f = [p \in 1 .. Len(source) + 1 |-> SkipStep(f, p)]

\* The recursion of NextSignificant is well founded.
LEMMA SkipsExist ==
  ASSUME LInv
  PROVE  \E f : Skips(f)
<1> DEFINE From(g, j) == \A p \in 1 .. End : p >= j => g[p] = SkipStep(g, p)
           T == {j \in Nat : \E g : From(g, j)}
<1>0. End \in Nat /\ End = Len(source) + 1
  BY StructFacts
<1>1. \A p \in 1 .. End : Abstract!AfterInsignificant(p) \in p .. End
  BY Insignificant
<1>2. End \in T
  <2> DEFINE g == [p \in 1 .. End |-> p]
  <2>1. ASSUME NEW p \in 1 .. End, p >= End PROVE g[p] = SkipStep(g, p)
    <3>1. p = End /\ g[p] = p
      BY <1>0, <2>1
    <3>2. Abstract!AfterInsignificant(p) = p
      BY <1>0, <1>1, <3>1
    <3> QED BY <3>1, <3>2 DEF SkipStep
  <2>2. From(g, End)
    BY <2>1
  <2> HIDE DEF From, g
  <2> QED BY <1>0, <2>2
<1>3. ASSUME NEW i \in 0 .. End - 1, i + 1 \in T PROVE i \in T
  <2>1. PICK g : From(g, i + 1)
    BY <1>3
  <2> DEFINE h == [p \in 1 .. End |-> IF p = i THEN SkipStep(g, i) ELSE g[p]]
  <2>2. /\ i \in 1 .. End => h[i] = SkipStep(g, i)
        /\ \A p \in 1 .. End : p # i => h[p] = g[p]
    OBVIOUS
  <2> HIDE DEF h
  <2>3. ASSUME NEW p \in 1 .. End, p >= i PROVE SkipStep(h, p) = SkipStep(g, p)
    <3>1. CASE Abstract!AfterInsignificant(p) = p
      BY <3>1 DEF SkipStep
    <3>2. CASE Abstract!AfterInsignificant(p) # p
      <4> DEFINE q == Abstract!AfterInsignificant(p)
      <4>1. q \in 1 .. End /\ q # i
        BY <1>0, <1>1, <2>3, <3>2
      <4>2. h[q] = g[q]
        BY <2>2, <4>1
      <4> QED BY <4>2 DEF SkipStep
    <3> QED BY <3>1, <3>2
  <2>4. ASSUME NEW p \in 1 .. End, p >= i PROVE h[p] = SkipStep(h, p)
    <3>1. CASE p = i
      BY <2>2, <2>3, <2>4, <3>1
    <3>2. CASE p # i
      <4>1. p >= i + 1
        BY <1>0, <2>4, <3>2
      <4>2. g[p] = SkipStep(g, p)
        BY <2>1, <4>1
      <4> QED BY <2>2, <2>3, <2>4, <3>2, <4>2
    <3> QED BY <3>1, <3>2
  <2>5. From(h, i)
    BY <2>4
  <2> HIDE DEF From
  <2> QED BY <1>0, <2>5
<1>4. 0 \in T
  <2> HIDE DEF T
  <2> QED BY <1>0, <1>2, <1>3, DownFrom
<1>5. PICK g : From(g, 0)
  BY <1>4
<1> DEFINE f == [p \in 1 .. End |-> g[p]]
<1>6. ASSUME NEW p \in 1 .. End PROVE SkipStep(f, p) = SkipStep(g, p)
  <2>1. Abstract!AfterInsignificant(p) \in 1 .. End
    BY <1>0, <1>1
  <2>2. f[Abstract!AfterInsignificant(p)] = g[Abstract!AfterInsignificant(p)]
    BY <2>1
  <2> HIDE DEF f
  <2> QED BY <2>2 DEF SkipStep
<1>7. f = [p \in 1 .. End |-> SkipStep(f, p)]
  <2>1. \A p \in 1 .. End : g[p] = SkipStep(g, p)
    BY <1>0, <1>5
  <2> QED BY <1>6, <2>1
<1> HIDE DEF f
<1>8. Skips(f)
  BY <1>0, <1>7 DEF Skips
<1> QED BY <1>8

\* Where nothing is dropped the next lexeme begins, otherwise behind it.
LEMMA NextIs ==
  ASSUME LInv, NEW p \in 1 .. End
  PROVE  /\ Abstract!AfterInsignificant(p) = p => Abstract!NextSignificant(p) = p
         /\ Abstract!AfterInsignificant(p) # p =>
              Abstract!NextSignificant(p) =
                Abstract!NextSignificant(Abstract!AfterInsignificant(p))
<1>1. Skips(CHOOSE f : Skips(f))
  BY SkipsExist
<1>2. \A q : Abstract!NextSignificant(q) = (CHOOSE f : Skips(f))[q]
  BY Zenon DEF Abstract!NextSignificant, Skips, SkipStep
<1> DEFINE f == CHOOSE g : Skips(g)
<1>3. f = [q \in 1 .. Len(source) + 1 |-> SkipStep(f, q)]
  <2>1. Skips(f)
    BY <1>1
  <2> HIDE DEF f
  <2> QED BY <2>1 DEF Skips
<1>4. \A q : Abstract!NextSignificant(q) = f[q]
  BY <1>2
<1> HIDE DEF f
<1>5. f[p] = SkipStep(f, p)
  BY <1>3, StructFacts
<1> QED BY <1>4, <1>5 DEF SkipStep

\* The same by the characters at a place.
LEMMA NextAt ==
  ASSUME LInv, NEW p \in 1 .. End
  PROVE  /\ CharAt(p) \in Blanks =>
              p < End /\ Abstract!NextSignificant(p + 1) = Abstract!NextSignificant(p)
         /\ CharAt(p) = "/" /\ CharAt(p + 1) = "/" =>
              Abstract!NextSignificant(LineEnd(p)) = Abstract!NextSignificant(p)
         /\ CharAt(p) = "/" /\ CharAt(p + 1) = "*" =>
              Abstract!NextSignificant(BlockEnd(p)) = Abstract!NextSignificant(p)
         /\ CharAt(p) \notin Blanks /\ ~(CharAt(p) = "/" /\ CharAt(p + 1) \in {"/", "*"}) =>
              Abstract!NextSignificant(p) = p
<1>1. p \in Nat
  BY StructFacts
<1>2. ASSUME CharAt(p) \in Blanks
      PROVE  p < End /\ Abstract!NextSignificant(p + 1) = Abstract!NextSignificant(p)
  <2>1. p < End /\ Abstract!AfterInsignificant(p) = p + 1
    BY <1>2, Insignificant
  <2>2. p + 1 # p
    BY <1>1
  <2> QED BY <2>1, <2>2, NextIs
<1>3. ASSUME CharAt(p) = "/", CharAt(p + 1) = "/"
      PROVE  Abstract!NextSignificant(LineEnd(p)) = Abstract!NextSignificant(p)
  <2>1. Abstract!AfterInsignificant(p) = LineEnd(p) /\ LineEnd(p) # p
    BY <1>3, Insignificant
  <2> QED BY <2>1, NextIs
<1>4. ASSUME CharAt(p) = "/", CharAt(p + 1) = "*"
      PROVE  Abstract!NextSignificant(BlockEnd(p)) = Abstract!NextSignificant(p)
  <2>1. Abstract!AfterInsignificant(p) = BlockEnd(p) /\ BlockEnd(p) # p
    BY <1>4, Insignificant
  <2> QED BY <2>1, NextIs
<1>5. ASSUME CharAt(p) \notin Blanks, ~(CharAt(p) = "/" /\ CharAt(p + 1) \in {"/", "*"})
      PROVE  Abstract!NextSignificant(p) = p
  BY <1>5, Insignificant, NextIs
<1> QED BY <1>2, <1>3, <1>4, <1>5
-----------------------------------------------------------------------------
\* What begins at a place, kind by kind.
Lexeme(first, m) ==
  \/ source[first] = "\n" /\ m = [type |-> "eol", last |-> first]
  \/ /\ source[first] \in Letters
     /\ \E p \in first .. Len(source) :
          /\ m = [type |-> Abstract!WordType(first, p), last |-> p]
          /\ \A i \in first .. p : source[i] \in Letters \cup Digits
  \/ \E p \in first .. Len(source) :
       /\ m = [type |-> "int", last |-> p]
       /\ \A i \in first .. p : source[i] \in Digits
  \/ \E p \in first .. Len(source) : \E dot \in first + 1 .. p :
       /\ m = [type |-> "real", last |-> p] /\ source[dot] = "."
       /\ \A i \in first .. dot - 1 : source[i] \in Digits
       /\ \A i \in dot + 1 .. p : source[i] \in Digits
  \/ \E p \in first + 1 .. Len(source) :
       /\ m = [type |-> "string", last |-> p]
       /\ source[first] = Quote /\ source[p] = Quote
       /\ \A i \in first + 1 .. p - 1 : source[i] \notin {Quote, "\n"}
  \/ \E o \in Abstract!Operators :
       /\ m = [type |-> o.type, last |-> first + Len(o.spelling) - 1]
       /\ Abstract!At(first, o.spelling)

\* The lexemes of the scanner at a place are those.
LEMMA LexemesAre ==
  ASSUME LInv, NEW first \in 1 .. Len(source)
  PROVE  \A m : m \in Abstract!Lexemes(first) <=> Lexeme(first, m)
<1> TAKE m
<1>1. Len(source) \in Nat
  BY StructFacts
<1> DEFINE places == first .. Len(source)
           Real(last) == \E dot \in first + 1 .. last :
                           /\ source[dot] = "."
                           /\ \A i \in first .. dot - 1 : source[i] \in Digits
                           /\ \A i \in dot + 1 .. last : source[i] \in Digits
           eols == {[type |-> "eol", last |-> p] : p \in {q \in {first} : source[q] = "\n"}}
           words == {[type |-> Abstract!WordType(first, p), last |-> p] :
                       p \in {q \in places : source[first] \in Letters /\
                                \A i \in first .. q : source[i] \in Letters \cup Digits}}
           ints == {[type |-> "int", last |-> p] :
                       p \in {q \in places : \A i \in first .. q : source[i] \in Digits}}
           reals == {[type |-> "real", last |-> p] : p \in {q \in places : Real(q)}}
           strings == {[type |-> "string", last |-> p] :
                         p \in {q \in places : /\ q > first /\ source[first] = Quote
                                               /\ source[q] = Quote
                                               /\ \A i \in first + 1 .. q - 1 :
                                                    source[i] \notin {Quote, "\n"}}}
           ops == {[type |-> op.type, last |-> first + Len(op.spelling) - 1] :
                     op \in {o \in Abstract!Operators : Abstract!At(first, o.spelling)}}
<1>2. Abstract!Lexemes(first) = eols \cup words \cup ints \cup reals \cup strings \cup ops
  BY SameCharacters, Zenon DEF Abstract!Lexemes, Abstract!All
<1>3. m \in eols <=> source[first] = "\n" /\ m = [type |-> "eol", last |-> first]
  OBVIOUS
<1>4. m \in words <=>
        /\ source[first] \in Letters
        /\ \E p \in first .. Len(source) :
             /\ m = [type |-> Abstract!WordType(first, p), last |-> p]
             /\ \A i \in first .. p : source[i] \in Letters \cup Digits
  OBVIOUS
<1>5. m \in ints <=> \E p \in first .. Len(source) :
                       /\ m = [type |-> "int", last |-> p]
                       /\ \A i \in first .. p : source[i] \in Digits
  OBVIOUS
<1>6. m \in reals <=> \E p \in first .. Len(source) : \E dot \in first + 1 .. p :
                        /\ m = [type |-> "real", last |-> p] /\ source[dot] = "."
                        /\ \A i \in first .. dot - 1 : source[i] \in Digits
                        /\ \A i \in dot + 1 .. p : source[i] \in Digits
  OBVIOUS
<1>7. m \in strings <=> \E p \in first + 1 .. Len(source) :
                          /\ m = [type |-> "string", last |-> p]
                          /\ source[first] = Quote /\ source[p] = Quote
                          /\ \A i \in first + 1 .. p - 1 : source[i] \notin {Quote, "\n"}
  BY <1>1
<1>8. m \in ops <=> \E o \in Abstract!Operators :
                      /\ m = [type |-> o.type, last |-> first + Len(o.spelling) - 1]
                      /\ Abstract!At(first, o.spelling)
  OBVIOUS
<1> HIDE DEF eols, words, ints, reals, strings, ops
<1> QED BY <1>2, <1>3, <1>4, <1>5, <1>6, <1>7, <1>8 DEF Lexeme

\* The longest lexeme, where there is one and where there is none.
LEMMA LongestIs ==
  ASSUME LInv, NEW first \in 1 .. Len(source), NEW l, Lexeme(first, l), l.last \in Int,
         \A m : Lexeme(first, m) => m = l \/ (m.last \in Int /\ m.last < l.last)
  PROVE  Abstract!Longest(first) = l
<1> DEFINE S == Abstract!Lexemes(first)
<1>1. \A m : m \in S <=> Lexeme(first, m)
  BY LexemesAre
<1>2. ~(first > Len(source)) /\ S # {}
  BY <1>1, StructFacts
<1>3. Abstract!Longest(first) = CHOOSE k \in S : \A m \in S : m.last <= k.last
  BY <1>2 DEF Abstract!Longest
<1> HIDE DEF S
<1>4. l \in S /\ \A m \in S : m.last <= l.last
  BY <1>1
<1>5. \A k \in S : (\A m \in S : m.last <= k.last) => k = l
  BY <1>1, <1>4
<1> QED BY <1>3, <1>4, <1>5

\* Where none begins, the place is an error.
LEMMA NoneLongest ==
  ASSUME LInv, NEW first \in 1 .. Len(source), \A m : ~ Lexeme(first, m)
  PROVE  Abstract!Longest(first) = [type |-> "ERROR", last |-> first]
<1>1. Abstract!Lexemes(first) = {}
  BY LexemesAre
<1>2. ~(first > Len(source))
  BY StructFacts
<1> QED BY <1>1, <1>2 DEF Abstract!Longest
-----------------------------------------------------------------------------
\* The record of an operator of two characters.
Pair(t, a, b) == [type |-> t, spelling |-> <<a, b>>]

OfPair(p) == Pair(p[3], p[1], p[2])

MinusPair == <<"-", "=", "*=">>

\* The type that lexer.h gives a pair, and the operator of the scanner.
PairType(p) == IF p = MinusPair THEN "-=" ELSE p[3]

Paired(p) == Pair(PairType(p), p[1], p[2])

\* The operators of the list are those of the switch, except for -= .
LEMMA SameOperators ==
  /\ \A o \in Abstract!Operators :
       \/ \E c \in Single : o = [type |-> c, spelling |-> <<c>>]
       \/ \E p \in Pairs : o = Paired(p)
  /\ \A c \in Single : [type |-> c, spelling |-> <<c>>] \in Abstract!Operators
  /\ \A p \in Pairs : Paired(p) \in Abstract!Operators
<1> DEFINE singles == {[type |-> c, spelling |-> <<c>>] : c \in Single}
           rest == {<<"+", "=", "+=">>, <<"-", ">", "->">>, <<"*", "=", "*=">>,
                    <<"/", "=", "/=">>, <<"!", "=", "!=">>, <<"=", "=", "==">>,
                    <<">", "=", ">=">>, <<"<", "=", "<=">>, <<"|", ">", "|>">>,
                    <<"|", "|", "||">>, <<"&", "&", "&&">>}
<1>0. Paired(MinusPair) = Pair("-=", "-", "=") /\ \A p : p # MinusPair => Paired(p) = OfPair(p)
  BY DEF Paired, PairType, MinusPair, OfPair
<1>1. Pairs = {MinusPair} \cup rest
  BY DEF Pairs, MinusPair
<1>2. MinusPair \notin rest
  <2>1. \A p \in rest : p[1] # "-" \/ p[2] # "="
    OBVIOUS
  <2>2. MinusPair[1] = "-" /\ MinusPair[2] = "="
    BY DEF MinusPair
  <2> QED BY <2>1, <2>2
<1>3. Abstract!Operators = singles \cup
        {Pair("+=", "+", "="), Pair("-=", "-", "="), Pair("->", "-", ">"), Pair("*=", "*", "="),
         Pair("/=", "/", "="), Pair("!=", "!", "="), Pair("==", "=", "="), Pair(">=", ">", "="),
         Pair("<=", "<", "="), Pair("|>", "|", ">"), Pair("||", "|", "|"), Pair("&&", "&", "&")}
  BY DEF Abstract!Operators, Single, Pair
<1>4. ASSUME NEW a, NEW b, NEW t PROVE OfPair(<<a, b, t>>) = Pair(t, a, b)
  BY DEF OfPair
<1>5. {OfPair(p) : p \in rest} =
        {Pair("+=", "+", "="), Pair("->", "-", ">"), Pair("*=", "*", "="),
         Pair("/=", "/", "="), Pair("!=", "!", "="), Pair("==", "=", "="), Pair(">=", ">", "="),
         Pair("<=", "<", "="), Pair("|>", "|", ">"), Pair("||", "|", "|"), Pair("&&", "&", "&")}
  <2>1. /\ OfPair(<<"+", "=", "+=">>) = Pair("+=", "+", "=")
        /\ OfPair(<<"-", ">", "->">>) = Pair("->", "-", ">")
        /\ OfPair(<<"*", "=", "*=">>) = Pair("*=", "*", "=")
        /\ OfPair(<<"/", "=", "/=">>) = Pair("/=", "/", "=")
        /\ OfPair(<<"!", "=", "!=">>) = Pair("!=", "!", "=")
        /\ OfPair(<<"=", "=", "==">>) = Pair("==", "=", "=")
        /\ OfPair(<<">", "=", ">=">>) = Pair(">=", ">", "=")
        /\ OfPair(<<"<", "=", "<=">>) = Pair("<=", "<", "=")
        /\ OfPair(<<"|", ">", "|>">>) = Pair("|>", "|", ">")
        /\ OfPair(<<"|", "|", "||">>) = Pair("||", "|", "|")
        /\ OfPair(<<"&", "&", "&&">>) = Pair("&&", "&", "&")
    BY <1>4, Zenon
  <2> QED BY <2>1, Zenon
<1> HIDE DEF singles, rest
<1>6. Abstract!Operators = singles \cup {Pair("-=", "-", "=")} \cup {OfPair(p) : p \in rest}
  BY <1>3, <1>5
<1>7. ASSUME NEW o \in Abstract!Operators
      PROVE  \/ \E c \in Single : o = [type |-> c, spelling |-> <<c>>]
             \/ \E p \in Pairs : o = Paired(p)
  <2>1. CASE o \in singles
    BY <2>1 DEF singles
  <2>2. CASE o = Pair("-=", "-", "=")
    BY <1>0, <1>1, <2>2
  <2>3. CASE o \in {OfPair(p) : p \in rest}
    BY <1>0, <1>1, <1>2, <2>3
  <2> QED BY <1>6, <2>1, <2>2, <2>3
<1>8. \A c \in Single : [type |-> c, spelling |-> <<c>>] \in Abstract!Operators
  BY <1>6 DEF singles
<1>9. \A p \in Pairs : Paired(p) \in Abstract!Operators
  <2> SUFFICES ASSUME NEW p \in Pairs, p # MinusPair
               PROVE  OfPair(p) \in Abstract!Operators
    BY <1>0, <1>6
  <2> DEFINE paired == {OfPair(q) : q \in rest}
  <2>1. p \in rest
    BY <1>1
  <2>2. OfPair(p) \in paired
    BY <2>1
  <2>3. Abstract!Operators = singles \cup {Pair("-=", "-", "=")} \cup paired
    BY <1>6
  <2> HIDE DEF paired
  <2> QED BY <2>2, <2>3
<1>10. \A o \in Abstract!Operators :
         \/ \E c \in Single : o = [type |-> c, spelling |-> <<c>>]
         \/ \E p \in Pairs : o = Paired(p)
  BY <1>7
<1> QED BY <1>8, <1>9, <1>10

\* An operator begins with no character of another lexeme.
LEMMA OperatorsApart ==
  /\ \A c \in Single : c \notin Letters \cup Digits \cup {Quote, "\n"}
  /\ \A p \in Pairs : p[1] \notin Letters \cup Digits \cup {Quote, "\n"}
<1>1. \A c \in {"(", ")", "{", "}", "[", "]", ".", ",", ":", "@"} : c \notin Letters
  <2>1. \A c \in {"(", ")", "{", "}", "["} : c \notin Letters
    BY ZenonT(40) DEF Letters
  <2>2. \A c \in {"]", ".", ",", ":", "@"} : c \notin Letters
    BY ZenonT(40) DEF Letters
  <2> QED BY <2>1, <2>2
<1>2. \A c \in {"+", "-", "*", "/", "!", "=", ">", "<", "|", "&"} : c \notin Letters
  <2>1. \A c \in {"+", "-", "*", "/", "!"} : c \notin Letters
    BY ZenonT(40) DEF Letters
  <2>2. \A c \in {"=", ">", "<", "|", "&"} : c \notin Letters
    BY ZenonT(40) DEF Letters
  <2> QED BY <2>1, <2>2
<1>3. /\ \A c \in Single : c \notin Digits \cup {Quote, "\n"}
      /\ \A c \in Single : \/ c \in {"(", ")", "{", "}", "[", "]", ".", ",", ":", "@"}
                           \/ c \in {"+", "-", "*", "/", "!", "=", ">", "<", "|", "&"}
  BY DEF Single, Digits, Quote
<1>4. \A p \in Pairs : p[1] \in {"+", "-", "*", "/", "!", "=", ">", "<", "|", "&"}
  BY DEF Pairs
<1>5. \A c \in {"+", "-", "*", "/", "!", "=", ">", "<", "|", "&"} :
        c \notin Digits \cup {Quote, "\n"}
  BY DEF Digits, Quote
<1>6. \A c \in Single : c \notin Letters
  BY <1>1, <1>2, <1>3
<1>7. \A p \in Pairs : p[1] \notin Letters /\ p[1] \notin Digits \cup {Quote, "\n"}
  BY <1>2, <1>4, <1>5
<1> QED BY <1>3, <1>6, <1>7

\* The pairs of the switch at a place.
PairsAt(first) == {p \in Pairs : /\ first + 1 <= Len(source)
                                 /\ p[1] = source[first] /\ p[2] = source[first + 1]}

\* The operators at a place, and where they end.
LEMMA OperatorsAt ==
  ASSUME LInv, NEW first \in 1 .. Len(source), NEW o \in Abstract!Operators,
         Abstract!At(first, o.spelling)
  PROVE  /\ source[first] \notin Letters \cup Digits \cup {Quote, "\n"}
         /\ \/ /\ source[first] \in Single /\ o.type = source[first]
               /\ first + Len(o.spelling) - 1 = first
            \/ \E p \in PairsAt(first) : /\ o.type = PairType(p)
                                         /\ first + Len(o.spelling) - 1 = first + 1
<1>1. first \in Nat /\ first >= 1 /\ Len(source) \in Nat
  BY StructFacts
<1>2. CASE \E c \in Single : o = [type |-> c, spelling |-> <<c>>]
  <2>1. PICK c \in Single : o = [type |-> c, spelling |-> <<c>>]
    BY <1>2
  <2>2. o.spelling = <<c>> /\ o.type = c /\ Len(o.spelling) = 1
    BY <2>1
  <2>3. source[first] = c
    BY <1>1, <2>2, OneAt
  <2> QED BY <1>1, <2>1, <2>2, <2>3, OperatorsApart
<1>3. CASE \E p \in Pairs : o = Paired(p)
  <2>0. PICK p \in Pairs : o = Paired(p)
    BY <1>3
  <2>1. o.spelling = <<p[1], p[2]>> /\ o.type = PairType(p)
    BY <2>0 DEF Paired, Pair
  <2> DEFINE a == p[1]
             b == p[2]
  <2>2. Abstract!At(first, <<a, b>>) /\ Len(o.spelling) = 2
    BY <2>1
  <2> HIDE DEF a, b
  <2>3. first + 1 <= Len(source) /\ source[first] = a /\ source[first + 1] = b
    BY <1>1, <2>2, TwoAt
  <2>4. p \in PairsAt(first)
    BY <2>3 DEF PairsAt, a, b
  <2>5. first + Len(o.spelling) - 1 = first + 1
    BY <1>1, <2>2
  <2>6. source[first] \notin Letters \cup Digits \cup {Quote, "\n"}
    BY <2>3, OperatorsApart DEF a
  <2> QED BY <2>1, <2>4, <2>5, <2>6
<1> QED BY <1>2, <1>3, SameOperators
-----------------------------------------------------------------------------
\* What an operator makes: the type and the place of its last character.
LEMMA OperatorLexeme ==
  ASSUME LInv, NEW first \in 1 .. Len(source), NEW o \in Abstract!Operators,
         Abstract!At(first, o.spelling)
  PROVE  Lexeme(first, [type |-> o.type, last |-> first + Len(o.spelling) - 1])
BY DEF Lexeme

\* Where neither a word, a number, a string nor a line begins, all lexemes are
\* operators.
LEMMA OnlyOperators ==
  ASSUME LInv, NEW first \in 1 .. Len(source),
         source[first] \notin Letters \cup Digits \cup {Quote, "\n"},
         NEW m, Lexeme(first, m)
  PROVE  \/ source[first] \in Single /\ m = [type |-> source[first], last |-> first]
         \/ \E p \in PairsAt(first) : /\ m = [type |-> m.type, last |-> first + 1]
                                      /\ m.type = PairType(p)
<1>1. Len(source) \in Nat
  BY StructFacts
<1>2. PICK o \in Abstract!Operators :
        /\ m = [type |-> o.type, last |-> first + Len(o.spelling) - 1]
        /\ Abstract!At(first, o.spelling)
  <2>1. \A p \in first .. Len(source) : first \in first .. p
    BY <1>1
  <2>2. \A p \in first .. Len(source) : \A dot \in first + 1 .. p : first \in first .. dot - 1
    BY <1>1
  <2> QED BY <2>1, <2>2 DEF Lexeme
<1>3. \/ /\ source[first] \in Single /\ o.type = source[first]
         /\ first + Len(o.spelling) - 1 = first
      \/ \E p \in PairsAt(first) : /\ o.type = PairType(p)
                                   /\ first + Len(o.spelling) - 1 = first + 1
  BY <1>2, OperatorsAt
<1>4. CASE /\ source[first] \in Single /\ o.type = source[first]
           /\ first + Len(o.spelling) - 1 = first
  BY <1>2, <1>4
<1>5. CASE \E p \in PairsAt(first) : /\ o.type = PairType(p)
                                     /\ first + Len(o.spelling) - 1 = first + 1
  <2>1. PICK p \in PairsAt(first) : /\ o.type = PairType(p)
                                    /\ first + Len(o.spelling) - 1 = first + 1
    BY <1>5
  <2>2. m.type = o.type /\ m = [type |-> m.type, last |-> first + 1]
    BY <1>2, <2>1
  <2> QED BY <2>1, <2>2
<1> QED BY <1>3, <1>4, <1>5

\* The operators: of two characters, of one, of none.
LEMMA PairLongest ==
  ASSUME LInv, NEW first \in 1 .. Len(source), NEW p \in PairsAt(first)
  PROVE  Abstract!Longest(first) = [type |-> PairType(p), last |-> first + 1]
<1> DEFINE l == [type |-> PairType(p), last |-> first + 1]
<1>1. first \in Nat /\ first >= 1 /\ Len(source) \in Nat
  BY StructFacts
<1>2. /\ p \in Pairs /\ first + 1 <= Len(source)
      /\ p[1] = source[first] /\ p[2] = source[first + 1]
  BY DEF PairsAt
<1>3. source[first] \notin Letters \cup Digits \cup {Quote, "\n"}
  BY <1>2, OperatorsApart
<1>4. Paired(p) \in Abstract!Operators /\ Paired(p).spelling = <<p[1], p[2]>>
      /\ Paired(p).type = PairType(p)
  BY <1>2, SameOperators DEF Paired, Pair
<1>5. Abstract!At(first, Paired(p).spelling)
  <2> DEFINE a == p[1]
             b == p[2]
  <2>1. first + 1 <= Len(source) /\ source[first] = a /\ source[first + 1] = b
    BY <1>2
  <2> HIDE DEF a, b
  <2>2. Abstract!At(first, <<a, b>>)
    BY <1>1, <2>1, TwoAt
  <2> QED BY <1>4, <2>2 DEF a, b
<1>6. Lexeme(first, l)
  <2>1. Len(Paired(p).spelling) = 2 /\ first + 2 - 1 = first + 1
    BY <1>1, <1>4
  <2>2. Lexeme(first, [type |-> Paired(p).type, last |-> first + Len(Paired(p).spelling) - 1])
    BY <1>4, <1>5, OperatorLexeme
  <2> QED BY <1>4, <2>1, <2>2
<1>7. \A q \in PairsAt(first) : q = p
  BY <1>2, PairsApart DEF PairsAt
<1>8. ASSUME NEW m, Lexeme(first, m) PROVE m = l \/ (m.last \in Int /\ m.last < l.last)
  <2>1. CASE m = [type |-> source[first], last |-> first]
    BY <1>1, <2>1
  <2>2. CASE \E q \in PairsAt(first) : /\ m = [type |-> m.type, last |-> first + 1]
                                       /\ m.type = PairType(q)
    BY <1>7, <2>2
  <2> QED BY <1>3, <1>8, <2>1, <2>2, OnlyOperators
<1>9. l.last \in Int
  BY <1>1
<1> HIDE DEF l
<1>10. Abstract!Longest(first) = l
  BY <1>6, <1>8, <1>9, LongestIs
<1> QED BY <1>10 DEF l

\* An operator of one character, where none of two begins.
LEMMA SingleLongest ==
  ASSUME LInv, NEW first \in 1 .. Len(source), PairsAt(first) = {}, source[first] \in Single
  PROVE  Abstract!Longest(first) = [type |-> source[first], last |-> first]
<1> DEFINE l == [type |-> source[first], last |-> first]
           o == [type |-> source[first], spelling |-> <<source[first]>>]
<1>1. first \in Nat /\ first >= 1 /\ Len(source) \in Nat
  BY StructFacts
<1>2. o \in Abstract!Operators /\ o.type = source[first]
      /\ o.spelling = <<source[first]>> /\ Len(o.spelling) = 1
  BY SameOperators
<1>3. Abstract!At(first, <<source[first]>>)
  BY <1>1, OneAt
<1> HIDE DEF o
<1>4. Lexeme(first, l)
  <2>1. Lexeme(first, [type |-> o.type, last |-> first + Len(o.spelling) - 1])
    BY <1>2, <1>3, OperatorLexeme
  <2>2. first + 1 - 1 = first
    BY <1>1
  <2> QED BY <1>2, <2>1, <2>2
<1>5. ASSUME NEW m, Lexeme(first, m) PROVE m = l
  BY <1>5, OperatorsApart, OnlyOperators
<1>6. l.last \in Int
  BY <1>1
<1> HIDE DEF l
<1>7. Abstract!Longest(first) = l
  BY <1>4, <1>5, <1>6, LongestIs
<1> QED BY <1>7 DEF l

\* No operator: the error of the place.
LEMMA NoOperator ==
  ASSUME LInv, NEW first \in 1 .. Len(source), PairsAt(first) = {},
         source[first] \notin Single \cup Letters \cup Digits \cup {Quote, "\n"}
  PROVE  Abstract!Longest(first) = [type |-> "ERROR", last |-> first]
<1>1. \A m : ~ Lexeme(first, m)
  BY OnlyOperators
<1> QED BY <1>1, NoneLongest
-----------------------------------------------------------------------------
\* Where a line ends, nothing but that begins.
LEMMA EolLongest ==
  ASSUME LInv, NEW first \in 1 .. Len(source), source[first] = "\n"
  PROVE  Abstract!Longest(first) = [type |-> "eol", last |-> first]
<1> DEFINE l == [type |-> "eol", last |-> first]
<1>1. Len(source) \in Nat
  BY StructFacts
<1>2. "\n" \notin Letters /\ "\n" \notin Digits /\ "\n" # Quote
  BY Apart
<1>3. \A o \in Abstract!Operators : ~ Abstract!At(first, o.spelling)
  BY OperatorsAt
<1>4. Lexeme(first, l)
  BY DEF Lexeme
<1>5. ASSUME NEW m, Lexeme(first, m) PROVE m = l
  <2>1. \A p \in first .. Len(source) : first \in first .. p
    BY <1>1
  <2>2. \A p \in first .. Len(source) : \A dot \in first + 1 .. p : first \in first .. dot - 1
    BY <1>1
  <2> QED BY <1>2, <1>3, <1>5, <2>1, <2>2 DEF Lexeme
<1>6. l.last \in Int
  OBVIOUS
<1> HIDE DEF l
<1>7. Abstract!Longest(first) = l
  BY <1>4, <1>5, <1>6, LongestIs
<1> QED BY <1>7 DEF l

\* A word: letters and digits up to one that is neither.
LEMMA WordLongest ==
  ASSUME LInv, NEW first \in 1 .. Len(source), NEW last \in first .. Len(source),
         source[first] \in Letters,
         \A i \in first .. last : source[i] \in Letters \cup Digits,
         last = Len(source) \/ source[last + 1] \notin Letters \cup Digits
  PROVE  Abstract!Longest(first) = [type |-> Abstract!WordType(first, last), last |-> last]
<1> DEFINE l == [type |-> Abstract!WordType(first, last), last |-> last]
<1>1. Len(source) \in Nat /\ first \in Nat /\ last \in Nat
  BY StructFacts
<1>2. /\ source[first] \notin Digits /\ source[first] # Quote /\ source[first] # "\n"
  BY Apart
<1>3. \A o \in Abstract!Operators : ~ Abstract!At(first, o.spelling)
  BY OperatorsAt
<1>4. Lexeme(first, l)
  BY DEF Lexeme
<1>5. ASSUME NEW m, Lexeme(first, m) PROVE m = l \/ (m.last \in Int /\ m.last < l.last)
  <2>1. \A p \in first .. Len(source) : first \in first .. p
    BY <1>1
  <2>2. \A p \in first .. Len(source) : \A dot \in first + 1 .. p : first \in first .. dot - 1
    BY <1>1
  <2>3. PICK p \in first .. Len(source) :
          /\ m = [type |-> Abstract!WordType(first, p), last |-> p]
          /\ \A i \in first .. p : source[i] \in Letters \cup Digits
    BY <1>2, <1>3, <1>5, <2>1, <2>2 DEF Lexeme
  <2>4. p <= last
    <3> SUFFICES ASSUME p > last PROVE FALSE
      BY <1>1
    <3>1. last + 1 \in first .. p /\ last # Len(source)
      BY <1>1
    <3> QED BY <2>3, <3>1
  <2> QED BY <1>1, <2>3, <2>4
<1>6. l.last \in Int
  BY <1>1
<1> HIDE DEF l
<1>7. Abstract!Longest(first) = l
  BY <1>4, <1>5, <1>6, LongestIs
<1> QED BY <1>7 DEF l
-----------------------------------------------------------------------------
\* Where a digit is, the lexemes are numbers.
LEMMA OnlyNumbers ==
  ASSUME LInv, NEW first \in 1 .. Len(source), source[first] \in Digits,
         NEW m, Lexeme(first, m)
  PROVE  \/ \E p \in first .. Len(source) :
              /\ m = [type |-> "int", last |-> p]
              /\ \A i \in first .. p : source[i] \in Digits
         \/ \E p \in first .. Len(source) : \E dot \in first + 1 .. p :
              /\ m = [type |-> "real", last |-> p] /\ source[dot] = "."
              /\ \A i \in first .. dot - 1 : source[i] \in Digits
              /\ \A i \in dot + 1 .. p : source[i] \in Digits
<1>1. /\ source[first] \notin Letters /\ source[first] # Quote /\ source[first] # "\n"
  BY Apart
<1>2. \A o \in Abstract!Operators : ~ Abstract!At(first, o.spelling)
  BY OperatorsAt
<1> QED BY <1>1, <1>2 DEF Lexeme

\* A number without a point.
LEMMA IntLongest ==
  ASSUME LInv, NEW first \in 1 .. Len(source), NEW last \in first .. Len(source),
         \A i \in first .. last : source[i] \in Digits,
         last = Len(source) \/ source[last + 1] \notin Digits \cup {"."}
  PROVE  Abstract!Longest(first) = [type |-> "int", last |-> last]
<1> DEFINE l == [type |-> "int", last |-> last]
<1>1. Len(source) \in Nat /\ first \in Nat /\ last \in Nat
  BY StructFacts
<1>2. "." \notin Digits
  BY DEF Digits
<1>3. first \in first .. last
  BY <1>1
<1>4. Lexeme(first, l)
  BY DEF Lexeme
<1>5. ASSUME NEW m, Lexeme(first, m) PROVE m = l \/ (m.last \in Int /\ m.last < l.last)
  <2>1. CASE \E p \in first .. Len(source) :
               /\ m = [type |-> "int", last |-> p]
               /\ \A i \in first .. p : source[i] \in Digits
    <3>1. PICK p \in first .. Len(source) :
            /\ m = [type |-> "int", last |-> p]
            /\ \A i \in first .. p : source[i] \in Digits
      BY <2>1
    <3>2. p <= last
      <4> SUFFICES ASSUME p > last PROVE FALSE
        BY <1>1
      <4>1. last + 1 \in first .. p /\ last # Len(source)
        BY <1>1
      <4> QED BY <3>1, <4>1
    <3> QED BY <1>1, <3>1, <3>2
  <2>2. CASE \E p \in first .. Len(source) : \E dot \in first + 1 .. p :
               /\ m = [type |-> "real", last |-> p] /\ source[dot] = "."
               /\ \A i \in first .. dot - 1 : source[i] \in Digits
               /\ \A i \in dot + 1 .. p : source[i] \in Digits
    <3>1. PICK p \in first .. Len(source), dot \in Nat :
            /\ dot \in first + 1 .. p /\ source[dot] = "."
            /\ \A i \in first .. dot - 1 : source[i] \in Digits
      BY <1>1, <2>2
    <3>2. dot > last
      <4> SUFFICES ASSUME dot <= last PROVE FALSE
        BY <1>1, <3>1
      <4>1. dot \in first .. last
        BY <1>1, <3>1
      <4> QED BY <1>2, <3>1, <4>1
    <3>3. last # Len(source) /\ last + 1 \in first .. dot
      BY <1>1, <3>1, <3>2
    <3>4. last + 1 = dot \/ last + 1 \in first .. dot - 1
      BY <1>1, <3>1, <3>3
    <3> QED BY <3>1, <3>3, <3>4
  <2> QED BY <1>3, <1>5, <2>1, <2>2, OnlyNumbers
<1>6. l.last \in Int
  BY <1>1
<1> HIDE DEF l
<1>7. Abstract!Longest(first) = l
  BY <1>4, <1>5, <1>6, LongestIs
<1> QED BY <1>7 DEF l

\* A number with a point.
LEMMA RealLongest ==
  ASSUME LInv, NEW first \in 1 .. Len(source), NEW last \in first .. Len(source),
         NEW point \in first + 1 .. last, source[point] = ".",
         \A i \in first .. point - 1 : source[i] \in Digits,
         \A i \in point + 1 .. last : source[i] \in Digits,
         last = Len(source) \/ source[last + 1] \notin Digits
  PROVE  Abstract!Longest(first) = [type |-> "real", last |-> last]
<1> DEFINE l == [type |-> "real", last |-> last]
<1>1. Len(source) \in Nat /\ first \in Nat /\ last \in Nat /\ point \in Nat
      /\ first < point /\ point <= last /\ last <= Len(source)
  BY StructFacts
<1>2. "." \notin Digits
  BY DEF Digits
<1>3. first \in first .. point - 1
  BY <1>1
<1>4. Lexeme(first, l)
  BY DEF Lexeme
<1>5. ASSUME NEW m, Lexeme(first, m) PROVE m = l \/ (m.last \in Int /\ m.last < l.last)
  <2>1. CASE \E p \in first .. Len(source) :
               /\ m = [type |-> "int", last |-> p]
               /\ \A i \in first .. p : source[i] \in Digits
    <3>1. PICK p \in first .. Len(source) :
            /\ m = [type |-> "int", last |-> p]
            /\ \A i \in first .. p : source[i] \in Digits
      BY <2>1
    <3>2. p < point
      <4> SUFFICES ASSUME p >= point PROVE FALSE
        BY <1>1
      <4>1. point \in first .. p
        BY <1>1
      <4> QED BY <1>2, <3>1, <4>1
    <3> QED BY <1>1, <3>1, <3>2
  <2>2. CASE \E p \in first .. Len(source) : \E dot \in first + 1 .. p :
               /\ m = [type |-> "real", last |-> p] /\ source[dot] = "."
               /\ \A i \in first .. dot - 1 : source[i] \in Digits
               /\ \A i \in dot + 1 .. p : source[i] \in Digits
    <3>1. PICK p \in first .. Len(source), dot \in Nat :
            /\ dot \in first + 1 .. p /\ source[dot] = "."
            /\ m = [type |-> "real", last |-> p]
            /\ \A i \in first .. dot - 1 : source[i] \in Digits
            /\ \A i \in dot + 1 .. p : source[i] \in Digits
      BY <1>1, <2>2
    <3>2. dot = point
      <4>1. CASE dot < point
        <5>1. dot \in first .. point - 1
          BY <1>1, <3>1, <4>1
        <5> QED BY <1>2, <3>1, <5>1
      <4>2. CASE point < dot
        <5>1. point \in first .. dot - 1
          BY <1>1, <3>1, <4>2
        <5> QED BY <1>2, <3>1, <5>1
      <4> QED BY <1>1, <3>1, <4>1, <4>2
    <3>3. p <= last
      <4> SUFFICES ASSUME p > last PROVE FALSE
        BY <1>1
      <4>1. last + 1 \in dot + 1 .. p /\ last # Len(source)
        BY <1>1, <3>1, <3>2
      <4> QED BY <3>1, <4>1
    <3> QED BY <1>1, <3>1, <3>3
  <2> QED BY <1>3, <1>5, <2>1, <2>2, OnlyNumbers
<1>6. l.last \in Int
  BY <1>1
<1> HIDE DEF l
<1>7. Abstract!Longest(first) = l
  BY <1>4, <1>5, <1>6, LongestIs
<1> QED BY <1>7 DEF l
-----------------------------------------------------------------------------
\* Where a quote is, the lexemes are strings.
LEMMA OnlyStrings ==
  ASSUME LInv, NEW first \in 1 .. Len(source), source[first] = Quote,
         NEW m, Lexeme(first, m)
  PROVE  \E p \in first + 1 .. Len(source) :
           /\ m = [type |-> "string", last |-> p] /\ source[p] = Quote
           /\ \A i \in first + 1 .. p - 1 : source[i] \notin {Quote, "\n"}
<1>1. Len(source) \in Nat
  BY StructFacts
<1>2. Quote \notin Letters /\ Quote \notin Digits /\ Quote # "\n"
  BY Apart
<1>3. \A o \in Abstract!Operators : ~ Abstract!At(first, o.spelling)
  BY OperatorsAt
<1>4. \A p \in first .. Len(source) : first \in first .. p
  BY <1>1
<1>5. \A p \in first .. Len(source) : \A dot \in first + 1 .. p : first \in first .. dot - 1
  BY <1>1
<1> QED BY <1>2, <1>3, <1>4, <1>5 DEF Lexeme

\* The empty string.
LEMMA EmptyStringLongest ==
  ASSUME LInv, NEW first \in 1 .. Len(source), source[first] = Quote,
         first + 1 <= Len(source), source[first + 1] = Quote
  PROVE  Abstract!Longest(first) = [type |-> "string", last |-> first + 1]
<1> DEFINE l == [type |-> "string", last |-> first + 1]
<1>1. Len(source) \in Nat /\ first \in Nat
  BY StructFacts
<1>2. Lexeme(first, l)
  <2>1. first + 1 \in first + 1 .. Len(source)
        /\ \A i \in first + 1 .. first + 1 - 1 : source[i] \notin {Quote, "\n"}
    BY <1>1
  <2> QED BY <2>1 DEF Lexeme
<1>3. ASSUME NEW m, Lexeme(first, m) PROVE m = l
  <2>1. PICK p \in first + 1 .. Len(source) :
          /\ m = [type |-> "string", last |-> p]
          /\ \A i \in first + 1 .. p - 1 : source[i] \notin {Quote, "\n"}
    BY <1>3, OnlyStrings
  <2>2. p = first + 1 \/ first + 1 \in first + 1 .. p - 1
    BY <1>1
  <2> QED BY <2>1, <2>2
<1>4. l.last \in Int
  BY <1>1
<1> HIDE DEF l
<1>5. Abstract!Longest(first) = l
  BY <1>2, <1>3, <1>4, LongestIs
<1> QED BY <1>5 DEF l

\* A string whose line ends.
LEMMA OpenStringLongest ==
  ASSUME LInv, NEW first \in 1 .. Len(source), source[first] = Quote,
         first + 1 <= Len(source), source[first + 1] = "\n"
  PROVE  Abstract!Longest(first) = [type |-> "ERROR", last |-> first]
<1>1. Len(source) \in Nat /\ first \in Nat /\ Quote # "\n"
  BY StructFacts, Apart
<1>2. ASSUME NEW m, Lexeme(first, m) PROVE FALSE
  <2>1. PICK p \in first + 1 .. Len(source) :
          /\ source[p] = Quote
          /\ \A i \in first + 1 .. p - 1 : source[i] \notin {Quote, "\n"}
    BY <1>2, OnlyStrings
  <2>2. p = first + 1 \/ first + 1 \in first + 1 .. p - 1
    BY <1>1
  <2> QED BY <1>1, <2>1, <2>2
<1> QED BY <1>2, NoneLongest

\* A string or an error, in any case.
LEMMA QuoteLongest ==
  ASSUME LInv, NEW first \in 1 .. Len(source), source[first] = Quote
  PROVE  Abstract!Longest(first).type \in {"string", "ERROR"}
<1>1. Len(source) \in Nat /\ first \in Nat
  BY StructFacts
<1>2. CASE \A m : ~ Lexeme(first, m)
  BY <1>2, NoneLongest
<1>3. CASE \E m : Lexeme(first, m)
  <2>1. PICK l : Lexeme(first, l)
    BY <1>3
  <2>2. PICK p \in first + 1 .. Len(source) :
          /\ l = [type |-> "string", last |-> p] /\ source[p] = Quote
          /\ \A i \in first + 1 .. p - 1 : source[i] \notin {Quote, "\n"}
    BY <2>1, OnlyStrings
  <2>3. ASSUME NEW m, Lexeme(first, m) PROVE m = l
    <3>1. PICK q \in first + 1 .. Len(source) :
            /\ m = [type |-> "string", last |-> q] /\ source[q] = Quote
            /\ \A i \in first + 1 .. q - 1 : source[i] \notin {Quote, "\n"}
      BY <2>3, OnlyStrings
    <3>2. p = q \/ p \in first + 1 .. q - 1 \/ q \in first + 1 .. p - 1
      BY <1>1
    <3> QED BY <2>2, <3>1, <3>2
  <2>4. l.type = "string" /\ l.last \in Int
    BY <1>1, <2>2
  <2>5. Abstract!Longest(first) = l
    BY <2>1, <2>3, <2>4, LongestIs
  <2> QED BY <2>4, <2>5
<1> QED BY <1>2, <1>3
-----------------------------------------------------------------------------
\* Where the text begins that the scanner has not cut yet, and where its next
\* lexeme begins.
Gap == IF tokens = << >> THEN 1 ELSE tokens[Len(tokens)].last + 1

Next(p) == Abstract!NextSignificant(p)

(***************************************************************************)
(* Between two tokens the lexer is on the way from the gap to the next     *)
(* lexeme; inside of one it has read a part of it.                         *)
(***************************************************************************)
GapInv ==
  /\ pc = "idle" => lexer.current = Gap
  /\ pc = "skip" => Next(lexer.current) = Next(Gap)
  /\ pc = "line_comment" => Next(LineEnd(lexer.current)) = Next(Gap)
  /\ pc = "block_comment" => Next(BlockEnd(lexer.current)) = Next(Gap)
  /\ pc \in TokenLoops => lexer.start = Next(Gap)

PartInv ==
  /\ pc = "identifier" =>
       /\ source[lexer.start] \in Letters
       /\ \A i \in lexer.start .. lexer.current - 1 : source[i] \in Letters \cup Digits
  /\ pc = "number" => \A i \in lexer.start .. lexer.current - 1 : source[i] \in Digits
  /\ pc = "fraction" =>
       \E point \in lexer.start + 1 .. lexer.current - 1 :
         /\ source[point] = "."
         /\ \A i \in lexer.start .. point - 1 : source[i] \in Digits
         /\ \A i \in point + 1 .. lexer.current - 1 : source[i] \in Digits

CutInv == GapInv /\ PartInv

\* What the scanner makes of a text depends on the text alone.
LEMMA SameText ==
  ASSUME source' = source, NEW p
  PROVE  Next(p)' = Next(p) /\ LineEnd(p)' = LineEnd(p) /\ BlockEnd(p)' = BlockEnd(p)
<1>1. Abstract!NextSignificant(p)' = Abstract!NextSignificant(p)
  BY SMT DEF Abstract!NextSignificant, Abstract!AfterInsignificant, Abstract!At,
             Abstract!Min, Abstract!Blanks
<1>2. LineEnd(p)' = LineEnd(p)
  BY SMT DEF LineEnd, Abstract!Min, End
<1>3. BlockEnd(p)' = BlockEnd(p)
  BY SMT DEF BlockEnd, Closings, Abstract!Min, Abstract!At, End
<1> QED BY <1>1, <1>2, <1>3 DEF Next

\* A step that makes no token.
LEMMA SameGap ==
  ASSUME UNCHANGED <<source, tokens, printed>>
  PROVE  Gap' = Gap /\ source' = source /\ Next(Gap)' = Next(Gap)
<1>1. Gap' = Gap /\ source' = source
  BY DEF Gap
<1>2. Next(Gap)' = Next(Gap)
  BY <1>1, SMT DEF Next, Abstract!NextSignificant, Abstract!AfterInsignificant, Abstract!At,
                   Abstract!Min, Abstract!Blanks
<1> QED BY <1>1, <1>2

\* A step that makes a token closes the gap behind it.
LEMMA MakesCut ==
  ASSUME LInv, NEW l \in Structs, NEW type \in TokenTypesMade, Makes(l, type)
  PROVE  CutInv'
<1> DEFINE token == IF type = "ERROR" THEN lexer_make_error_token(l)
                                      ELSE lexer_make_token(l, type)
<1>1. lexer' = l /\ pc' = "idle" /\ tokens' = Append(tokens, token)
  BY DEF Makes, Yield
<1>2. token.last = l.current - 1 /\ l.current \in Nat
  BY DEF lexer_make_error_token, lexer_make_token, Structs
<1>3. tokens \in Seq(TokenRecords)
  BY TokenFacts
<1> HIDE DEF token
<1>4. tokens' # << >> /\ tokens'[Len(tokens')] = token
  BY <1>1, <1>3
<1>5. lexer'.current = Gap'
  BY <1>1, <1>2, <1>4 DEF Gap
<1> QED BY <1>1, <1>5 DEF CutInv, GapInv, PartInv, TokenLoops
-----------------------------------------------------------------------------
\* The steps over what is dropped.
LEMMA SkipsCut ==
  ASSUME LInv, CutInv,
         \/ lexer_scan_token \/ skip_whitespace \/ skip_comment
         \/ lexer_skip_single_line_comment \/ lexer_skip_multi_line_comment
  PROVE  CutInv'
<1> DEFINE c == lexer.current
<1>1. /\ UNCHANGED <<source, tokens, printed>>
      /\ pc' \in {"skip", "line_comment", "block_comment"} /\ pc # "astray"
  BY DEF lexer_scan_token, skip_whitespace, skip_comment, lexer_skip_single_line_comment,
         lexer_skip_multi_line_comment, Go
<1>2. c \in 1 .. End /\ Peek = CharAt(c) /\ c \in Nat
  BY <1>1, StructFacts DEF Peek
<1>3. Gap' = Gap /\ source' = source /\ Next(Gap)' = Next(Gap)
  BY <1>1, SameGap
<1>4. \A p : Next(p)' = Next(p) /\ LineEnd(p)' = LineEnd(p) /\ BlockEnd(p)' = BlockEnd(p)
  BY <1>3, SameText
<1>5. ASSUME NEW n \in Nat, lexer' = Advanced(n) \/ (n = 0 /\ lexer' = lexer)
      PROVE  lexer'.current = c + n
  BY <1>2, <1>5, AdvancedFields
<1>6. SUFFICES /\ pc' = "skip" => Next(lexer'.current) = Next(Gap)
               /\ pc' = "line_comment" => Next(LineEnd(lexer'.current)) = Next(Gap)
               /\ pc' = "block_comment" => Next(BlockEnd(lexer'.current)) = Next(Gap)
  <2>1. /\ pc' # "idle" /\ pc' \notin TokenLoops /\ pc' # "identifier" /\ pc' # "number"
        /\ pc' # "fraction"
    BY <1>1 DEF TokenLoops
  <2>2. /\ Next(lexer.current)' = Next(lexer'.current)
        /\ Next(LineEnd(lexer.current))' = Next(LineEnd(lexer'.current))
        /\ Next(BlockEnd(lexer.current))' = Next(BlockEnd(lexer'.current))
    BY <1>4
  <2> QED BY <1>3, <1>6, <2>1, <2>2 DEF CutInv, GapInv, PartInv
<1>7. CASE lexer_scan_token
  BY <1>7 DEF lexer_scan_token, Go, CutInv, GapInv
<1>8. CASE skip_whitespace
  <2>1. pc = "skip" /\ pc' = "skip" /\ lexer' = Advanced(1) /\ Peek \in Blanks
    BY <1>8 DEF skip_whitespace, Go
  <2>2. lexer'.current = c + 1
    BY <1>5, <2>1
  <2>3. Next(c + 1) = Next(c)
    BY <1>2, <2>1, NextAt DEF Next
  <2> QED BY <2>1, <2>2, <2>3 DEF CutInv, GapInv
<1>9. CASE skip_comment
  <2>1. pc = "skip" /\ lexer' = lexer /\ Peek = "/" /\ CharAt(c + 1) \in {"/", "*"}
        /\ pc' = IF CharAt(c + 1) = "/" THEN "line_comment" ELSE "block_comment"
    BY <1>9 DEF skip_comment, Go, AtComment, PeekNext, NUL
  <2>2. CharAt(c + 1) = "/" => Next(LineEnd(c)) = Next(c)
    BY <1>2, <2>1, NextAt DEF Next
  <2>3. CharAt(c + 1) = "*" => Next(BlockEnd(c)) = Next(c)
    BY <1>2, <2>1, NextAt DEF Next
  <2> QED BY <2>1, <2>2, <2>3 DEF CutInv, GapInv
<1>10. CASE lexer_skip_single_line_comment
  <2>1. CASE Peek \notin {"\n", NUL}
    <3>1. pc = "line_comment" /\ pc' = "line_comment" /\ lexer' = Advanced(1)
      BY <1>10, <2>1 DEF lexer_skip_single_line_comment, Go
    <3>2. lexer'.current = c + 1
      BY <1>5, <3>1
    <3>3. LineEnd(c + 1) = LineEnd(c)
      BY <1>2, <2>1, LineEnds
    <3> QED BY <3>1, <3>2, <3>3 DEF CutInv, GapInv
  <2>2. CASE Peek \in {"\n", NUL}
    <3>1. pc = "line_comment" /\ pc' = "skip" /\ lexer' = lexer
      BY <1>10, <2>2 DEF lexer_skip_single_line_comment, Go
    <3>2. LineEnd(c) = c
      BY <1>2, <2>2, LineEnds
    <3> QED BY <3>1, <3>2 DEF CutInv, GapInv
  <2> QED BY <2>1, <2>2
<1>11. CASE lexer_skip_multi_line_comment
  <2>0. pc = "block_comment"
    BY <1>11 DEF lexer_skip_multi_line_comment
  <2>1. CASE Peek = NUL
    <3>1. pc' = "skip" /\ lexer' = lexer
      BY <1>11, <2>1 DEF lexer_skip_multi_line_comment, Go, NUL
    <3>2. BlockEnd(c) = c
      BY <1>2, <2>1, BlockEnds
    <3> QED BY <2>0, <3>1, <3>2 DEF CutInv, GapInv
  <2>2. CASE Peek = "*" /\ CharAt(c + 1) = "/"
    <3>0. Peek # NUL
      BY <2>2 DEF NUL
    <3>1. pc' = "skip" /\ lexer' = Advanced(2)
      BY <1>11, <2>2, <3>0 DEF lexer_skip_multi_line_comment, Go
    <3>2. lexer'.current = c + 2
      BY <1>5, <3>1
    <3>3. BlockEnd(c) = c + 2
      BY <1>2, <2>2, BlockEnds
    <3> QED BY <2>0, <3>1, <3>2, <3>3 DEF CutInv, GapInv
  <2>3. CASE Peek # NUL /\ ~(Peek = "*" /\ CharAt(c + 1) = "/")
    <3>1. pc' = "block_comment" /\ lexer' = Advanced(1)
      BY <1>11, <2>3 DEF lexer_skip_multi_line_comment, Go
    <3>2. lexer'.current = c + 1
      BY <1>5, <3>1
    <3>3. BlockEnd(c + 1) = BlockEnd(c)
      BY <1>2, <2>3, BlockEnds
    <3> QED BY <2>0, <3>1, <3>2, <3>3 DEF CutInv, GapInv
  <2> QED BY <2>1, <2>2, <2>3
<1> QED BY <1>7, <1>8, <1>9, <1>10, <1>11

\* After the gap, the next lexeme begins.
LEMMA TokenBegins ==
  ASSUME LInv, CutInv, AtToken
  PROVE  lexer.current = Next(Gap) /\ lexer.current \in 1 .. End
<1>1. /\ pc = "skip" /\ Peek \notin Blanks /\ ~AtComment /\ Peek = CharAt(lexer.current)
  BY DEF AtToken, Peek
<1>2. lexer.current \in 1 .. End
  BY <1>1, StructFacts
<1>3. ~(CharAt(lexer.current) = "/" /\ CharAt(lexer.current + 1) \in {"/", "*"})
  BY <1>1 DEF AtComment, PeekNext, NUL
<1>4. Next(lexer.current) = lexer.current
  BY <1>1, <1>2, <1>3, NextAt DEF Next
<1> QED BY <1>1, <1>2, <1>4 DEF CutInv, GapInv

\* The first character of a word, a number or a string.
LEMMA FirstCut ==
  ASSUME LInv, CutInv, scan_first
  PROVE  CutInv'
<1>1. /\ AtToken /\ UNCHANGED <<source, tokens, printed>> /\ lexer' = Begun(1)
      /\ \/ Peek \in Letters /\ pc' = "identifier"
         \/ Peek \in Digits /\ pc' = "number"
         \/ Peek = Quote /\ pc' = "string"
  BY DEF scan_first, Go
<1>2. Peek # NUL
  BY <1>1, NotTheEnd
<1>3. /\ lexer'.start = lexer.current /\ lexer'.current = lexer.current + 1
      /\ lexer.current \in Nat
  BY <1>1, StructFacts, AdvancedFields
<1>4. Peek = source[lexer.current]
  BY <1>2, PeekFacts
<1>5. Gap' = Gap /\ source' = source /\ Next(Gap)' = Next(Gap)
  BY <1>1, SameGap
<1>6. lexer'.start = Next(Gap)'
  BY <1>1, <1>3, <1>5, TokenBegins
<1>7. \A i \in lexer'.start .. lexer'.current - 1 : i = lexer'.start
  BY <1>3
<1>8. GapInv'
  BY <1>1, <1>6 DEF GapInv
<1>9. PartInv'
  BY <1>1, <1>3, <1>4, <1>5, <1>7 DEF PartInv
<1> QED BY <1>8, <1>9 DEF CutInv

\* One more character of a word or a number.
LEMMA NextCut ==
  ASSUME LInv, CutInv, UNCHANGED <<source, tokens, printed>>, lexer' = Advanced(1), Peek # NUL,
         \/ pc = "identifier" /\ pc' = "identifier" /\ Peek \in Letters \cup Digits
         \/ pc = "number" /\ pc' = "number" /\ Peek \in Digits
         \/ pc = "number" /\ pc' = "fraction" /\ Peek = "."
         \/ pc = "fraction" /\ pc' = "fraction" /\ Peek \in Digits
  PROVE  CutInv'
<1> DEFINE s == lexer.start
           c == lexer.current
<1>1. /\ s \in Nat /\ c \in Nat /\ lexer'.start = s /\ lexer'.current = c + 1
  BY StructFacts, AdvancedFields
<1>2. s < c /\ pc \in TokenLoops /\ pc' \in TokenLoops /\ pc' \notin {"idle", "skip",
      "line_comment", "block_comment", "string"}
  BY DEF LInv, PointersInv, TokenLoops
<1>3. Peek = source[c]
  BY PeekFacts
<1>4. Gap' = Gap /\ source' = source /\ Next(Gap)' = Next(Gap)
  BY SameGap
<1>5. GapInv'
  BY <1>1, <1>2, <1>4 DEF GapInv, CutInv
<1>6. \A i, k \in Nat : i \in k .. c + 1 - 1 <=> i \in k .. c - 1 \/ (i = c /\ k <= c)
  BY <1>1
<1> HIDE DEF s, c
<1>7. CASE pc = "identifier" /\ pc' = "identifier" /\ Peek \in Letters \cup Digits
  <2>1. /\ source[s] \in Letters
        /\ \A i \in s .. c - 1 : source[i] \in Letters \cup Digits
    BY <1>7 DEF CutInv, PartInv, s, c
  <2>2. \A i \in s .. c + 1 - 1 : source[i] \in Letters \cup Digits
    BY <1>1, <1>3, <1>6, <1>7, <2>1
  <2>3. PartInv'
    BY <1>1, <1>4, <1>7, <2>1, <2>2 DEF PartInv
  <2> QED BY <1>5, <2>3 DEF CutInv
<1>8. CASE pc = "number" /\ pc' = "number" /\ Peek \in Digits
  <2>1. \A i \in s .. c - 1 : source[i] \in Digits
    BY <1>8 DEF CutInv, PartInv, s, c
  <2>2. \A i \in s .. c + 1 - 1 : source[i] \in Digits
    BY <1>1, <1>3, <1>6, <1>8, <2>1
  <2>3. PartInv'
    BY <1>1, <1>4, <1>8, <2>2 DEF PartInv
  <2> QED BY <1>5, <2>3 DEF CutInv
<1>9. CASE pc = "number" /\ pc' = "fraction" /\ Peek = "."
  <2>1. \A i \in s .. c - 1 : source[i] \in Digits
    BY <1>9 DEF CutInv, PartInv, s, c
  <2>2. c \in s + 1 .. c + 1 - 1 /\ \A i \in c + 1 .. c + 1 - 1 : FALSE
    BY <1>1, <1>2 DEF s, c
  <2>3. \E point \in s + 1 .. c + 1 - 1 :
          /\ source[point] = "."
          /\ \A i \in s .. point - 1 : source[i] \in Digits
          /\ \A i \in point + 1 .. c + 1 - 1 : source[i] \in Digits
    BY <1>3, <1>9, <2>1, <2>2
  <2>4. PartInv'
    BY <1>1, <1>4, <1>9, <2>3 DEF PartInv
  <2> QED BY <1>5, <2>4 DEF CutInv
<1>10. CASE pc = "fraction" /\ pc' = "fraction" /\ Peek \in Digits
  <2>1. PICK point \in s + 1 .. c - 1 :
          /\ source[point] = "."
          /\ \A i \in s .. point - 1 : source[i] \in Digits
          /\ \A i \in point + 1 .. c - 1 : source[i] \in Digits
    BY <1>10 DEF CutInv, PartInv, s, c
  <2>2. point \in s + 1 .. c + 1 - 1 /\ point + 1 \in Nat
    BY <1>1
  <2>3. \A i \in point + 1 .. c + 1 - 1 : source[i] \in Digits
    BY <1>1, <1>3, <1>6, <1>10, <2>1, <2>2
  <2>4. \E q \in s + 1 .. c + 1 - 1 :
          /\ source[q] = "."
          /\ \A i \in s .. q - 1 : source[i] \in Digits
          /\ \A i \in q + 1 .. c + 1 - 1 : source[i] \in Digits
    BY <2>1, <2>2, <2>3
  <2>5. PartInv'
    BY <1>1, <1>4, <1>10, <2>4 DEF PartInv
  <2> QED BY <1>5, <2>5 DEF CutInv
<1> QED BY <1>7, <1>8, <1>9, <1>10
-----------------------------------------------------------------------------
\* What the scanner keeps of the tokens.
Extent(t) == [type |-> t.type, first |-> t.first, last |-> t.last]

Extents == [i \in 1 .. Len(tokens) |-> Extent(tokens[i])]

\* They are those of the tokens, place by place.
LEMMA ExtentsAre ==
  ASSUME tokens \in Seq(TokenRecords)
  PROVE  /\ Len(tokens) \in Nat /\ Len(Extents) = Len(tokens)
         /\ Extents = << >> <=> tokens = << >>
         /\ \A i \in 1 .. Len(tokens) : Extents[i] = Extent(tokens[i])
<1>1. Len(tokens) \in Nat
  OBVIOUS
<1> DEFINE S == {Extent(tokens[i]) : i \in 1 .. Len(tokens)}
<1>2. /\ Extents \in [1 .. Len(tokens) -> S] /\ DOMAIN Extents = 1 .. Len(tokens)
      /\ \A i \in 1 .. Len(tokens) : Extents[i] = Extent(tokens[i])
  BY DEF Extents
<1> HIDE DEF S
<1>3. Extents \in Seq(S)
  BY <1>1, <1>2
<1>4. Len(Extents) = Len(tokens)
  BY <1>1, <1>2, <1>3
<1> QED BY <1>1, <1>2, <1>3, <1>4

\* A token more is an extent more.
LEMMA ExtentsGrow ==
  ASSUME tokens \in Seq(TokenRecords), NEW token \in TokenRecords,
         tokens' = Append(tokens, token)
  PROVE  Extents' = Append(Extents, Extent(token))
<1> DEFINE N == Len(tokens)
           S == {Extent(t) : t \in TokenRecords}
<1>1. /\ N \in Nat /\ Len(tokens') = N + 1 /\ tokens'[N + 1] = token
      /\ tokens' \in Seq(TokenRecords)
      /\ \A i \in 1 .. N : tokens'[i] = tokens[i]
  BY Appended
<1>2. /\ Len(Extents) = N /\ \A i \in 1 .. N : Extents[i] = Extent(tokens[i])
  BY ExtentsAre
<1>3. tokens' \in Seq(TokenRecords) =>
        /\ Len(Extents') = Len(tokens')
        /\ \A i \in 1 .. Len(tokens') : Extents'[i] = Extent(tokens'[i])
  <2>1. tokens \in Seq(TokenRecords) =>
          /\ Len(Extents) = Len(tokens)
          /\ \A i \in 1 .. Len(tokens) : Extents[i] = Extent(tokens[i])
    BY ExtentsAre
  <2> QED BY <1>1 DEF Extents
<1>4. Extents \in Seq(S) /\ Extent(token) \in S /\ Extents' \in Seq(S)
  <2>1. \A i \in 1 .. N : Extent(tokens[i]) \in S
    OBVIOUS
  <2>2. \A i \in 1 .. N + 1 : Extent(tokens'[i]) \in S
    BY <1>1
  <2> HIDE DEF S
  <2>3. Extents \in [1 .. N -> S] /\ Extents' \in [1 .. N + 1 -> S]
    BY <1>1, <2>1, <2>2 DEF Extents
  <2>4. Extent(token) \in S
    BY DEF S
  <2> QED BY <1>1, <2>3, <2>4
<1> HIDE DEF S
<1>5. /\ Append(Extents, Extent(token)) \in Seq(S)
      /\ Len(Append(Extents, Extent(token))) = N + 1
      /\ \A i \in 1 .. N : Append(Extents, Extent(token))[i] = Extents[i]
      /\ Append(Extents, Extent(token))[N + 1] = Extent(token)
  BY <1>1, <1>2, <1>4, Appended
<1>6. \A i \in 1 .. N + 1 : Extents'[i] = Append(Extents, Extent(token))[i]
  <2> SUFFICES ASSUME NEW i \in 1 .. N + 1
               PROVE  Extents'[i] = Append(Extents, Extent(token))[i]
    OBVIOUS
  <2>1. CASE i = N + 1
    BY <1>1, <1>3, <1>5, <2>1
  <2>2. CASE i # N + 1
    <3>1. i \in 1 .. N
      BY <1>1, <2>2
    <3> QED BY <1>1, <1>2, <1>3, <1>5, <3>1
  <2> QED BY <2>1, <2>2
<1> QED BY <1>1, <1>3, <1>4, <1>5, <1>6, SeqEqual

\* The scanner goes on where the last token ended.
LEMMA GapIsConsumed ==
  ASSUME LInv
  PROVE  Abstract!Consumed + 1 = Gap
<1>1. /\ tokens \in Seq(TokenRecords) /\ Len(tokens) \in Nat
      /\ \A i \in 1 .. Len(tokens) : tokens[i].last \in Nat
  BY TokenFacts
<1>2. /\ Len(Extents) = Len(tokens) /\ (Extents = << >> <=> tokens = << >>)
      /\ \A i \in 1 .. Len(tokens) : Extents[i] = Extent(tokens[i])
  BY <1>1, ExtentsAre
<1>3. Abstract!Consumed = IF Extents = << >> THEN 0 ELSE Extents[Len(Extents)].last
  BY DEF Abstract!Consumed, Extents, Extent
<1>4. CASE tokens = << >>
  BY <1>2, <1>3, <1>4 DEF Gap
<1>5. CASE tokens # << >>
  <2>1. Len(tokens) \in 1 .. Len(tokens)
    BY <1>1, <1>5
  <2>2. Extents[Len(Extents)].last = tokens[Len(tokens)].last
    <3>1. Extents[Len(Extents)] = Extent(tokens[Len(tokens)])
      BY <1>2, <2>1
    <3>2. \A t : Extent(t).last = t.last
      BY DEF Extent
    <3> QED BY <3>1, <3>2
  <2> QED BY <1>2, <1>3, <1>5, <2>2 DEF Gap
<1> QED BY <1>4, <1>5

(***************************************************************************)
(* The tokens in which the lexer and the scanner may differ: of these      *)
(* types are both, and Exactly says that they do not differ, Mistaken that *)
(* they do.                                                                *)
(***************************************************************************)
Confused == {"string", "ERROR", "*=", "-="}

Exactly(l, type) == Abstract!Longest(l.start) = [type |-> type, last |-> l.current - 1]

Mistaken(l, type) ==
  /\ type \in Confused /\ Abstract!Longest(l.start).type \in Confused
  /\ ~StringsClosed' \/ ~MinusAssign'

\* A step that makes a token of the next lexeme.
Cuts(l, type) ==
  Makes(l, type) /\ l.start = Next(Gap) /\ (Exactly(l, type) \/ Mistaken(l, type))

CutsNext == \E l \in Structs, type \in TokenTypesMade : Cuts(l, type)

\* The token that is made.
LEMMA MadeToken ==
  ASSUME NEW l \in Structs, NEW type \in TokenTypesMade, Makes(l, type)
  PROVE  \E token \in TokenRecords :
           /\ tokens' = Append(tokens, token) /\ source' = source
           /\ token.type = type /\ token.first = l.start /\ token.last = l.current - 1
<1> DEFINE token == IF type = "ERROR" THEN lexer_make_error_token(l)
                                      ELSE lexer_make_token(l, type)
<1>1. tokens' = Append(tokens, token) /\ source' = source
  BY DEF Makes, Yield
<1>2. /\ l.start \in Nat /\ l.current \in Nat /\ l.line \in Nat /\ l.column \in Nat
  BY DEF Structs
<1>3. /\ 1 <= l.start /\ l.start <= l.current /\ l.current <= l.column + 1
  BY DEF Makes
<1>4. l.current - 1 \in Nat /\ l.column - (l.current - l.start) + 1 \in Nat
  BY <1>2, <1>3
<1>5. /\ token \in TokenRecords /\ token.type = type
      /\ token.first = l.start /\ token.last = l.current - 1
  <2>1. CASE type = "ERROR"
    BY <1>2, <1>4, <2>1 DEF lexer_make_error_token, TokenRecords
  <2>2. CASE type # "ERROR"
    BY <1>2, <1>4, <2>2 DEF lexer_make_token, TokenRecords
  <2> QED BY <2>1, <2>2
<1> HIDE DEF token
<1> QED BY <1>1, <1>5

\* A token that is the next lexeme is what the scanner delivers.
LEMMA Delivered ==
  ASSUME LInv, NEW l \in Structs, NEW type \in TokenTypesMade, Makes(l, type),
         l.start = Next(Gap), Exactly(l, type)
  PROVE  Abstract!ScannerNext
<1>1. PICK token \in TokenRecords :
        /\ tokens' = Append(tokens, token) /\ source' = source
        /\ token.type = type /\ token.first = l.start /\ token.last = l.current - 1
  BY MadeToken
<1>2. tokens \in Seq(TokenRecords)
  BY TokenFacts
<1>3. Extents' = Append(Extents, Extent(token))
  BY <1>1, <1>2, ExtentsGrow
<1> DEFINE first == Abstract!NextSignificant(Abstract!Consumed + 1)
<1>4. first = l.start
  BY GapIsConsumed DEF Next
<1>5. Extent(token) = [type  |-> Abstract!Longest(first).type,
                       first |-> first,
                       last  |-> Abstract!Longest(first).last]
  <2>1. /\ Abstract!Longest(first).type = type /\ Abstract!Longest(first).last = l.current - 1
    BY <1>4 DEF Exactly
  <2> QED BY <1>1, <1>4, <2>1 DEF Extent
<1> HIDE DEF first
<1>6. Extents' = Append(Extents, [type  |-> Abstract!Longest(first).type,
                                   first |-> first,
                                   last  |-> Abstract!Longest(first).last])
  BY <1>3, <1>5
<1>7. Abstract!Deliver
  BY <1>6, Zenon DEF Abstract!Deliver, first, Extents, Extent
<1> QED BY <1>1, <1>7 DEF Abstract!ScannerNext
-----------------------------------------------------------------------------
\* A token that is the next lexeme.
LEMMA ExactCut ==
  ASSUME NEW l \in Structs, NEW type \in TokenTypesMade, Makes(l, type),
         l.start = Next(Gap),
         Abstract!Longest(l.start) = [type |-> type, last |-> l.current - 1]
  PROVE  CutsNext
BY DEF Exactly, Cuts, CutsNext

\* The steps that make a token make the next lexeme: the end, and the end of a
\* line.
LEMMA EndCuts ==
  ASSUME LInv, CutInv, lexer_make_eof_token \/ lexer_make_eol_token
  PROVE  CutsNext
<1>1. AtToken /\ Peek \in {NUL, "\n"}
  BY EndMakes
<1>2. PICK l \in Structs, type \in TokenTypesMade :
        /\ Makes(l, type)
        /\ type = IF Peek = NUL THEN "EOF" ELSE "eol"
        /\ l.start = lexer.current
        /\ l.current = lexer.current + (IF type = "eol" THEN 1 ELSE 0)
  BY EndMakes
<1>3. l.start = Next(Gap) /\ lexer.current \in 1 .. End
  BY <1>1, <1>2, TokenBegins
<1>4. Len(source) \in Nat /\ End = Len(source) + 1
  BY StructFacts
<1>5. CASE Peek = NUL
  <2>1. l.start = End /\ l.current = End /\ type = "EOF"
    BY <1>2, <1>5 DEF Makes
  <2>2. Abstract!Longest(End) = [type |-> "EOF", last |-> Len(source)]
    BY <1>4 DEF Abstract!Longest
  <2>3. l.current - 1 = Len(source)
    BY <1>4, <2>1
  <2> QED BY <1>2, <1>3, <2>1, <2>2, <2>3, ExactCut
<1>6. CASE Peek # NUL
  <2>1. /\ Peek = "\n" /\ type = "eol" /\ l.current = lexer.current + 1
    BY <1>1, <1>2, <1>6
  <2>2. source[lexer.current] = "\n" /\ lexer.current \in 1 .. Len(source)
    BY <1>3, <1>4, <1>6, <2>1, PeekFacts
  <2>3. Abstract!Longest(lexer.current) = [type |-> "eol", last |-> lexer.current]
    BY <2>2, EolLongest
  <2>4. l.current - 1 = lexer.current
    BY <2>1, <2>2
  <2> QED BY <1>2, <1>3, <2>1, <2>3, <2>4, ExactCut
<1> QED BY <1>5, <1>6

\* The operators: all but -= are the next lexeme.
LEMMA OperatorCuts ==
  ASSUME LInv, CutInv, scan_operator
  PROVE  CutsNext
<1> DEFINE c == lexer.current
<1>1. /\ AtToken /\ Peek \notin Letters \cup Digits \cup {Quote, "\n", NUL}
  BY OperatorMakes
<1>2. /\ c = Next(Gap) /\ c \in 1 .. End /\ Len(source) \in Nat /\ End = Len(source) + 1
  BY <1>1, TokenBegins, StructFacts
<1>3. c \in 1 .. Len(source) /\ Peek = source[c] /\ c \in Nat /\ c >= 1
  BY <1>1, <1>2, PeekFacts
<1>4. PairsHere = PairsAt(c)
  <2>1. /\ CharAt(c + 1) # NUL => c + 1 \in 1 .. Len(source)
        /\ c + 1 \in 1 .. Len(source) => CharAt(c + 1) = source[c + 1]
    BY <1>3, StructFacts, Characters
  <2>2. ASSUME NEW p \in Pairs
        PROVE  p[2] = CharAt(c + 1) <=> c + 1 <= Len(source) /\ p[2] = source[c + 1]
    <3>1. p[2] # NUL
      BY PairsAreText
    <3>2. c + 1 <= Len(source) <=> c + 1 \in 1 .. Len(source)
      BY <1>2, <1>3
    <3>3. c + 1 \notin 1 .. Len(source) => CharAt(c + 1) = NUL
      BY <2>1
    <3> QED BY <2>1, <3>1, <3>2, <3>3
  <2> QED BY <1>3, <2>2 DEF PairsHere, PairsAt
<1>5. /\ Begun(1) \in Structs /\ Begun(2) \in Structs
      /\ Begun(1).start = c /\ Begun(1).current = c + 1
      /\ Begun(2).start = c /\ Begun(2).current = c + 2
      /\ c + 1 - 1 = c /\ c + 2 - 1 = c + 1
  <2>1. lexer \in Structs
    BY StructFacts
  <2>2. Begun(1) \in Structs /\ Begun(2) \in Structs
    BY <2>1, AdvancedFields
  <2>3. /\ Begun(1).start = c /\ Begun(1).current = c + 1
        /\ Begun(2).start = c /\ Begun(2).current = c + 2
    BY DEF Begun
  <2> HIDE DEF c
  <2> QED BY <1>3, <2>2, <2>3
<1> HIDE DEF c
<1>6. CASE \E p \in PairsHere : /\ Makes(Begun(2), p[3])
                                /\ p[3] \in TokenTypesMade \ {"EOF", "ERROR", "eol"}
  <2>1. PICK p \in PairsHere : /\ Makes(Begun(2), p[3])
                               /\ p[3] \in TokenTypesMade \ {"EOF", "ERROR", "eol"}
    BY <1>6
  <2>2. ASSUME p = MinusPair PROVE ~MinusAssign'
    <3> SUFFICES ASSUME MinusAssign' PROVE FALSE
      OBVIOUS
    <3>1. p[1] = "-" /\ p[2] = "=" /\ p[3] = "*="
      BY <2>2 DEF MinusPair
    <3>2. c + 1 <= Len(source) /\ source[c] = "-" /\ source[c + 1] = "="
      BY <1>4, <2>1, <3>1 DEF PairsAt
    <3>3. Abstract!At(c, <<"-", "=">>)
      BY <1>3, <3>2, TwoAt
    <3>4. SubSeq(source, c, c + 2 - 1) = <<"-", "=">>
      <4>1. Len(<<"-", "=">>) = 2
        OBVIOUS
      <4> QED BY <3>3, <4>1 DEF Abstract!At
    <3> DEFINE token == lexer_make_token(Begun(2), p[3])
    <3>5. tokens' = Append(tokens, token) /\ source' = source
      BY <2>1 DEF Makes, Yield
    <3>6. token.first = c /\ token.last = c + 2 - 1 /\ token.type = "*="
      <4>1. /\ token.first = Begun(2).start /\ token.last = Begun(2).current - 1
            /\ token.type = p[3]
        BY DEF lexer_make_token
      <4>2. Begun(2).start = c /\ Begun(2).current = c + 2 /\ c \in Nat
        BY <1>3, <1>5
      <4>3. token.last = c + 2 - 1
        BY <4>1, <4>2
      <4> QED BY <3>1, <4>1, <4>2, <4>3
    <3> HIDE DEF token
    <3>7. tokens \in Seq(TokenRecords)
      BY TokenFacts
    <3>8. Len(tokens') \in 1 .. Len(tokens') /\ tokens'[Len(tokens')] = token
      BY <3>5, <3>7
    <3>9. token.type = "-="
      BY <3>4, <3>5, <3>6, <3>8 DEF MinusAssign
    <3> QED BY <3>6, <3>9
  <2>3. Abstract!Longest(c) = [type |-> PairType(p), last |-> c + 1]
    BY <1>3, <1>4, <2>1, PairLongest
  <2>4. CASE p # MinusPair
    <3>1. PairType(p) = p[3]
      BY <2>4 DEF PairType
    <3> QED BY <1>2, <1>5, <2>1, <2>3, <3>1, ExactCut
  <2>5. CASE p = MinusPair
    <3>1. PairType(p) = "-=" /\ p[3] = "*="
      BY <2>5 DEF PairType, MinusPair
    <3>2. Mistaken(Begun(2), p[3])
      BY <1>5, <2>2, <2>3, <2>5, <3>1 DEF Mistaken, Confused
    <3> QED BY <1>2, <1>5, <2>1, <3>2 DEF Cuts, CutsNext
  <2> QED BY <2>4, <2>5
<1>7. CASE /\ PairsHere = {} /\ Peek \in Single /\ Makes(Begun(1), Peek)
           /\ Peek \in TokenTypesMade \ {"EOF", "ERROR", "eol"}
  <2>1. Abstract!Longest(c) = [type |-> Peek, last |-> c]
    BY <1>3, <1>4, <1>7, SingleLongest
  <2> QED BY <1>2, <1>5, <1>7, <2>1, ExactCut
<1>8. CASE /\ PairsHere = {} /\ Peek \notin Single /\ Makes(Begun(1), "ERROR")
  <2>1. Abstract!Longest(c) = [type |-> "ERROR", last |-> c]
    BY <1>1, <1>3, <1>4, <1>8, NoOperator
  <2>2. "ERROR" \in TokenTypesMade
    BY DEF TokenTypesMade
  <2> QED BY <1>2, <1>5, <1>8, <2>1, <2>2, ExactCut
<1> QED BY <1>6, <1>7, <1>8, OperatorMakes

\* Words and numbers.
LEMMA WordCuts ==
  ASSUME LInv, CutInv, NEW type \in TextTypes \ {"eol"}, Makes(lexer, type),
         \/ /\ pc = "identifier" /\ Peek \notin Letters \cup Digits
            /\ type = lexer_determine_identifier_type(
                        SubSeq(source, lexer.start, lexer.current - 1))
         \/ pc = "number" /\ Peek \notin Digits \cup {"."} /\ type = "int"
         \/ pc = "fraction" /\ Peek \notin Digits /\ type = "real"
  PROVE  CutsNext
<1> DEFINE s == lexer.start
           e == lexer.current - 1
<1>1. /\ lexer \in Structs /\ Len(source) \in Nat /\ End = Len(source) + 1 /\ source \in Sources
      /\ s \in Nat /\ s >= 1 /\ lexer.current \in Nat
  BY StructFacts
<1>2. s < lexer.current /\ lexer.current <= End /\ s = Next(Gap)
  BY DEF LInv, PointersInv, TokenLoops, CutInv, GapInv
<1>3. /\ s \in 1 .. Len(source) /\ e \in s .. Len(source) /\ e + 1 = lexer.current
      /\ e \in 1 .. Len(source)
  BY <1>1, <1>2
<1>4. e = Len(source) \/ source[e + 1] = Peek
  <2>1. e # Len(source) => lexer.current \in 1 .. Len(source)
    BY <1>1, <1>3
  <2> QED BY <1>1, <1>3, <2>1, Characters DEF Peek
<1>5. type \in TokenTypesMade
  BY DEF TextTypes
<1>6. CASE /\ pc = "identifier" /\ Peek \notin Letters \cup Digits
           /\ type = lexer_determine_identifier_type(SubSeq(source, s, e))
  <2>1. /\ source[s] \in Letters
        /\ \A i \in s .. e : source[i] \in Letters \cup Digits
    BY <1>6 DEF CutInv, PartInv
  <2> HIDE DEF s, e
  <2>2. Abstract!WordType(s, e) = type
    BY <1>3, <1>6, SameWords
  <2>3. Abstract!Longest(s) = [type |-> type, last |-> e]
    BY <1>3, <1>4, <1>6, <2>1, <2>2, WordLongest
  <2> QED BY <1>1, <1>2, <1>5, <2>3, ExactCut DEF s, e
<1>7. CASE pc = "number" /\ Peek \notin Digits \cup {"."} /\ type = "int"
  <2>1. \A i \in s .. e : source[i] \in Digits
    BY <1>7 DEF CutInv, PartInv
  <2> HIDE DEF s, e
  <2>2. Abstract!Longest(s) = [type |-> type, last |-> e]
    BY <1>3, <1>4, <1>7, <2>1, IntLongest
  <2> QED BY <1>1, <1>2, <1>5, <2>2, ExactCut DEF s, e
<1>8. CASE pc = "fraction" /\ Peek \notin Digits /\ type = "real"
  <2>1. PICK point \in s + 1 .. e :
          /\ source[point] = "."
          /\ \A i \in s .. point - 1 : source[i] \in Digits
          /\ \A i \in point + 1 .. e : source[i] \in Digits
    BY <1>8 DEF CutInv, PartInv
  <2> HIDE DEF s, e
  <2>2. Abstract!Longest(s) = [type |-> type, last |-> e]
    BY <1>3, <1>4, <1>8, <2>1, RealLongest
  <2> QED BY <1>1, <1>2, <1>5, <2>2, ExactCut DEF s, e
<1> QED BY <1>6, <1>7, <1>8

\* Strings: those that end with a quote are the next lexeme.
LEMMA StringCuts ==
  ASSUME LInv, CutInv, lexer_scan_string
  PROVE  CutsNext \/ UNCHANGED <<source, tokens>>
<1> DEFINE s == lexer.start
<1>1. /\ lexer \in Structs /\ Len(source) \in Nat /\ End = Len(source) + 1 /\ source \in Sources
      /\ s \in Nat /\ s >= 1 /\ lexer.current \in Nat
  BY StructFacts
<1>2. pc = "string"
  BY StringMakes
<1>3. /\ s < lexer.current /\ lexer.current <= End /\ s = Next(Gap)
      /\ lexer.current = s + 1 /\ source[s] = Quote /\ s \in 1 .. Len(source)
  BY <1>1, <1>2 DEF LInv, PointersInv, TokenLoops, CutInv, GapInv
<1>4. "ERROR" \in TokenTypesMade /\ "string" \in TokenTypesMade
  BY DEF TokenTypesMade
<1>5. Peek # NUL => lexer.current + 1 <= End /\ Peek = source[s + 1]
  BY <1>3, PeekFacts
<1>6. CASE UNCHANGED <<source, tokens, printed>>
  BY <1>6
<1>7. CASE Peek = "\n" /\ Makes(lexer, "ERROR")
  <2>1. s + 1 <= Len(source) /\ source[s + 1] = "\n"
    BY <1>1, <1>3, <1>5, <1>7 DEF NUL
  <2>2. Abstract!Longest(s) = [type |-> "ERROR", last |-> s]
    BY <1>3, <2>1, OpenStringLongest
  <2>3. lexer.current - 1 = s
    BY <1>1, <1>3
  <2> QED BY <1>1, <1>3, <1>4, <1>7, <2>2, <2>3, ExactCut
<1>8. CASE Peek \notin {NUL, "\n"} /\ Makes(Advanced(1), "string")
  <2>1. /\ Advanced(1) \in Structs /\ Advanced(1).start = s
        /\ Advanced(1).current = lexer.current + 1
    BY <1>1, AdvancedFields
  <2>2. Advanced(1).current - 1 = s + 1 /\ s + 1 <= Len(source)
    BY <1>1, <1>3, <1>5, <1>8, <2>1
  <2> DEFINE token == lexer_make_token(Advanced(1), "string")
  <2>3. tokens' = Append(tokens, token) /\ source' = source
    BY <1>8 DEF Makes, Yield
  <2>4. token.type = "string" /\ token.last = s + 1
    BY <2>1, <2>2 DEF lexer_make_token
  <2> HIDE DEF token
  <2>5. tokens \in Seq(TokenRecords)
    BY TokenFacts
  <2>6. Len(tokens') \in 1 .. Len(tokens') /\ tokens'[Len(tokens')] = token
    BY <2>3, <2>5
  <2>7. CASE source[s + 1] = Quote
    <3>1. Abstract!Longest(s) = [type |-> "string", last |-> s + 1]
      BY <1>3, <2>2, <2>7, EmptyStringLongest
    <3> QED BY <1>3, <1>4, <1>8, <2>1, <2>2, <3>1, ExactCut
  <2>8. CASE source[s + 1] # Quote
    <3>1. ~StringsClosed'
      BY <2>3, <2>4, <2>6, <2>8 DEF StringsClosed
    <3>2. Abstract!Longest(s).type \in {"string", "ERROR"}
      BY <1>3, QuoteLongest
    <3>3. Mistaken(Advanced(1), "string")
      BY <2>1, <3>1, <3>2 DEF Mistaken, Confused
    <3> QED BY <1>3, <1>4, <1>8, <2>1, <3>3 DEF Cuts, CutsNext
  <2> QED BY <2>7, <2>8
<1> QED BY <1>6, <1>7, <1>8, StringMakes
-----------------------------------------------------------------------------
\* The steps of the lexer keep CutInv.
LEMMA CutInvKept ==
  ASSUME LInv, CutInv, LexerNext
  PROVE  CutInv'
<1>1. CASE lexer_make_eof_token \/ lexer_make_eol_token
  BY <1>1, EndMakes, MakesCut
<1>2. CASE scan_operator
  <2>1. "ERROR" \in TokenTypesMade /\ Begun(1) \in Structs /\ Begun(2) \in Structs
    BY AdvancedFields DEF TokenTypesMade
  <2> QED BY <1>2, <2>1, OperatorMakes, MakesCut
<1>3. CASE lexer_scan_identifier \/ lexer_scan_number \/ lexer_scan_fraction
  <2>1. lexer \in Structs /\ TextTypes \subseteq TokenTypesMade
    BY StructFacts DEF TextTypes
  <2> QED BY <1>3, <2>1, WordMakes, MakesCut, NextCut
<1>4. CASE lexer_scan_string
  <2>1. /\ "ERROR" \in TokenTypesMade /\ "string" \in TokenTypesMade
        /\ lexer \in Structs /\ Advanced(1) \in Structs
    BY StructFacts, AdvancedFields DEF TokenTypesMade
  <2>2. CASE pc' = "astray"
    BY <2>2 DEF CutInv, GapInv, PartInv, TokenLoops
  <2> QED BY <1>4, <2>1, <2>2, StringMakes, MakesCut
<1>5. CASE lexer_reset
  <2>1. lexer'.current = 1 /\ tokens' = << >> /\ pc' = "idle"
    BY <1>5 DEF lexer_reset
  <2> QED BY <2>1 DEF CutInv, GapInv, PartInv, TokenLoops, Gap
<1>6. CASE \/ lexer_scan_token \/ skip_whitespace \/ skip_comment
           \/ lexer_skip_single_line_comment \/ lexer_skip_multi_line_comment
  BY <1>6, SkipsCut
<1>7. CASE scan_first
  BY <1>7, FirstCut
<1> QED BY <1>1, <1>2, <1>3, <1>4, <1>5, <1>6, <1>7 DEF LexerNext, ScanStep

\* Each step of the lexer makes a token of the next lexeme, starts again, or
\* makes none.
LEMMA StepCuts ==
  ASSUME LInv, CutInv, [LexerNext]_lexerVars
  PROVE  CutsNext \/ lexer_reset \/ UNCHANGED <<source, tokens>>
<1>1. CASE UNCHANGED lexerVars
  BY <1>1 DEF lexerVars
<1>2. CASE lexer_make_eof_token \/ lexer_make_eol_token
  BY <1>2, EndCuts
<1>3. CASE scan_operator
  BY <1>3, OperatorCuts
<1>4. CASE lexer_scan_identifier \/ lexer_scan_number \/ lexer_scan_fraction
  BY <1>4, WordMakes, WordCuts
<1>5. CASE lexer_scan_string
  BY <1>5, StringCuts
<1>6. CASE \/ lexer_scan_token \/ skip_whitespace \/ skip_comment \/ scan_first
           \/ lexer_skip_single_line_comment \/ lexer_skip_multi_line_comment
  BY <1>6 DEF lexer_scan_token, skip_whitespace, skip_comment, lexer_skip_single_line_comment,
              lexer_skip_multi_line_comment, scan_first, Go
<1> QED BY <1>1, <1>2, <1>3, <1>4, <1>5, <1>6 DEF LexerNext, ScanStep

\* Each step of the lexer is one of the scanner, or none.
LEMMA StepScans ==
  ASSUME LInv, CutInv, [LexerNext]_lexerVars, StringsClosed', MinusAssign'
  PROVE  Abstract!ScannerNext \/ UNCHANGED <<source, tokens>>
<1>1. CASE CutsNext
  <2>1. PICK l \in Structs, type \in TokenTypesMade : Cuts(l, type)
    BY <1>1 DEF CutsNext
  <2> QED BY <2>1, Delivered DEF Cuts, Mistaken
<1>2. CASE lexer_reset
  <2>1. tokens' = << >> /\ source' = source
    BY <1>2 DEF lexer_reset
  <2>2. Abstract!StartAgain
    <3>1. tokens' \in Seq(TokenRecords) => (Extents' = << >> <=> tokens' = << >>)
      <4>1. tokens \in Seq(TokenRecords) => (Extents = << >> <=> tokens = << >>)
        BY ExtentsAre
      <4>2. (tokens \in Seq(TokenRecords) => (Extents = << >> <=> tokens = << >>))'
        BY ExtentsAre, PTL
      <4> QED BY <4>2
    <3>2. Extents' = << >>
      BY <2>1, <3>1
    <3> QED BY <3>2, Zenon DEF Abstract!StartAgain, Extents, Extent
  <2> QED BY <2>1, <2>2 DEF Abstract!ScannerNext
<1> QED BY <1>1, <1>2, StepCuts

\* CutInv is inductive.
LEMMA CutInvHolds ==
  LInv /\ CutInv /\ [LexerNext]_lexerVars => CutInv'
<1> SUFFICES ASSUME LInv, CutInv, [LexerNext]_lexerVars PROVE CutInv'
  OBVIOUS
<1>1. CASE UNCHANGED lexerVars
  <2>1. /\ UNCHANGED <<source, tokens, printed>> /\ lexer' = lexer /\ pc' = pc
    BY <1>1 DEF lexerVars
  <2>2. Gap' = Gap /\ source' = source /\ Next(Gap)' = Next(Gap)
    BY <2>1, SameGap
  <2>3. \A p : Next(p)' = Next(p) /\ LineEnd(p)' = LineEnd(p) /\ BlockEnd(p)' = BlockEnd(p)
    BY <2>2, SameText
  <2>4. /\ Next(lexer.current)' = Next(lexer.current)
        /\ Next(LineEnd(lexer.current))' = Next(LineEnd(lexer.current))
        /\ Next(BlockEnd(lexer.current))' = Next(BlockEnd(lexer.current))
    BY <2>1, <2>3
  <2>5. GapInv'
    BY <2>1, <2>2, <2>4 DEF CutInv, GapInv
  <2>6. PartInv'
    BY <2>1, <2>2 DEF CutInv, PartInv
  <2> QED BY <2>5, <2>6 DEF CutInv
<1>2. CASE LexerNext
  BY <1>2, CutInvKept
<1> QED BY <1>1, <1>2

\* CutInv holds when a text is given.
LEMMA FirstCutInv == lexer_init => CutInv
<1> SUFFICES ASSUME lexer_init PROVE CutInv
  OBVIOUS
<1>1. lexer.current = 1 /\ tokens = << >> /\ pc = "idle"
  BY DEF lexer_init
<1> QED BY <1>1 DEF CutInv, GapInv, PartInv, TokenLoops, Gap

-----------------------------------------------------------------------------
(***************************************************************************)
(* All tokens made so far are the next lexeme each, or are of types that   *)
(* the lexer and the scanner may confuse.                                  *)
(***************************************************************************)
CutAt(p, t) ==
  /\ t.first = Next(p)
  /\ \/ Abstract!Longest(Next(p)) = [type |-> t.type, last |-> t.last]
     \/ t.type \in Confused /\ Abstract!Longest(Next(p)).type \in Confused

\* Where the gap before a token begins.
GapBefore(i) == IF i = 1 THEN 1 ELSE tokens[i - 1].last + 1

TokensCut == \A i \in 1 .. Len(tokens) : CutAt(GapBefore(i), tokens[i])

\* That a token is the next lexeme depends on the text alone.
LEMMA SameCuts ==
  ASSUME source' = source, NEW p, NEW t
  PROVE  CutAt(p, t)' <=> CutAt(p, t)
<1>1. Next(p)' = Next(p)
  BY SameText
<1>2. \A q : Abstract!Longest(q)' = Abstract!Longest(q)
  BY SMT DEF Abstract!Longest, Abstract!Lexemes, Abstract!All, Abstract!At, Abstract!WordType
<1>3. Abstract!Longest(Next(p))' = Abstract!Longest(Next(p))
  BY <1>1, <1>2
<1> QED BY <1>1, <1>3 DEF CutAt

\* It holds when a text is given, and is inductive.
LEMMA FirstTokensCut == lexer_init => TokensCut
BY DEF lexer_init, TokensCut

LEMMA TokensCutHolds ==
  ASSUME LInv, CutInv, TokensCut, [LexerNext]_lexerVars
  PROVE  TokensCut'
<1>0. tokens \in Seq(TokenRecords) /\ Len(tokens) \in Nat
  BY TokenFacts
<1>1. CASE UNCHANGED <<source, tokens>>
  <2>1. \A p, t : CutAt(p, t)' <=> CutAt(p, t)
    BY <1>1, SameCuts
  <2> QED BY <1>1, <2>1 DEF TokensCut, GapBefore
<1>2. CASE lexer_reset
  <2>1. tokens' = << >>
    BY <1>2 DEF lexer_reset
  <2> QED BY <2>1 DEF TokensCut
<1>3. CASE CutsNext
  <2>1. PICK l \in Structs, type \in TokenTypesMade : Cuts(l, type)
    BY <1>3 DEF CutsNext
  <2>2. PICK token \in TokenRecords :
          /\ tokens' = Append(tokens, token) /\ source' = source
          /\ token.type = type /\ token.first = l.start /\ token.last = l.current - 1
    BY <2>1, MadeToken DEF Cuts
  <2>3. CutAt(Gap, token)
    BY <2>1, <2>2 DEF Cuts, Exactly, Mistaken, CutAt
  <2>4. /\ Len(tokens') = Len(tokens) + 1 /\ tokens'[Len(tokens) + 1] = token
        /\ \A i \in 1 .. Len(tokens) : tokens'[i] = tokens[i]
    BY <1>0, <2>2, Appended
  <2>5. ASSUME NEW i \in 1 .. Len(tokens) + 1
        PROVE  CutAt(GapBefore(i)', tokens'[i])
    <3>1. CASE i = Len(tokens) + 1
      <4>1. GapBefore(i)' = Gap
        BY <1>0, <2>4, <3>1 DEF GapBefore, Gap
      <4> QED BY <2>3, <2>4, <3>1, <4>1
    <3>2. CASE i # Len(tokens) + 1
      <4>1. i \in 1 .. Len(tokens) /\ (i # 1 => i - 1 \in 1 .. Len(tokens))
        BY <1>0, <3>2
      <4>2. GapBefore(i)' = GapBefore(i)
        BY <2>4, <4>1 DEF GapBefore
      <4> QED BY <2>4, <4>1, <4>2 DEF TokensCut
    <3> QED BY <3>1, <3>2
  <2>6. \A p, t : CutAt(p, t)' <=> CutAt(p, t)
    BY <2>2, SameCuts
  <2> HIDE DEF CutAt, GapBefore
  <2> QED BY <2>4, <2>5, <2>6 DEF TokensCut
<1> QED BY <1>1, <1>2, <1>3, StepCuts

-----------------------------------------------------------------------------
\* The next lexeme does not begin before the place it is looked for ...
LEMMA NextReaches ==
  ASSUME LInv, NEW p \in 1 .. End
  PROVE  Next(p) \in p .. End
<1> DEFINE T == {j \in Nat : \A q \in 1 .. End : q >= j => Next(q) \in q .. End}
<1>0. End \in Nat
  BY StructFacts
<1>1. \A q \in 1 .. End : Abstract!AfterInsignificant(q) \in q .. End
  BY Insignificant
<1>2. ASSUME NEW q \in 1 .. End,
             \A r \in 1 .. End : r > q => Next(r) \in r .. End
      PROVE  Next(q) \in q .. End
  <2>1. CASE Abstract!AfterInsignificant(q) = q
    <3>1. Next(q) = q
      BY <2>1, NextIs DEF Next
    <3> QED BY <1>0, <3>1
  <2>2. CASE Abstract!AfterInsignificant(q) # q
    <3> DEFINE r == Abstract!AfterInsignificant(q)
    <3>1. r \in 1 .. End /\ r > q
      BY <1>0, <1>1, <2>2
    <3>2. Next(q) = Next(r)
      BY <2>2, NextIs DEF Next
    <3> HIDE DEF r
    <3> QED BY <1>0, <1>2, <3>1, <3>2
  <2> QED BY <2>1, <2>2
<1>3. End \in T
  <2> SUFFICES ASSUME NEW q \in 1 .. End, q >= End PROVE Next(q) \in q .. End
    BY <1>0
  <2>1. \A r \in 1 .. End : ~(r > q)
    BY <1>0
  <2> QED BY <1>2, <2>1
<1>4. ASSUME NEW i \in 0 .. End - 1, i + 1 \in T PROVE i \in T
  <2> SUFFICES ASSUME NEW q \in 1 .. End, q >= i PROVE Next(q) \in q .. End
    BY <1>0
  <2>1. \A r \in 1 .. End : r > q => Next(r) \in r .. End
    BY <1>0, <1>4
  <2> QED BY <1>2, <2>1
<1>5. 0 \in T
  <2> HIDE DEF T
  <2> QED BY <1>0, <1>3, <1>4, DownFrom
<1> QED BY <1>0, <1>5

\* ... and ends in the text; none but the end of the text is one.
LEMMA LexemeEnds ==
  ASSUME LInv, NEW first \in 1 .. Len(source), NEW m, Lexeme(first, m)
  PROVE  m.last \in first .. Len(source) /\ m.type # "EOF"
<1>1. Len(source) \in Nat /\ first \in Nat
  BY StructFacts
<1>2. CASE source[first] = "\n" /\ m = [type |-> "eol", last |-> first]
  BY <1>1, <1>2
<1>3. CASE \E p \in first .. Len(source) :
             m = [type |-> Abstract!WordType(first, p), last |-> p]
  <2>1. PICK p \in first .. Len(source) :
          m = [type |-> Abstract!WordType(first, p), last |-> p]
    BY <1>3
  <2>2. Abstract!WordType(first, p) # "EOF"
    <3> DEFINE named == {k \in Abstract!Keywords : SubSeq(source, first, p) = k.spelling}
    <3>1. \A k \in Abstract!Keywords : k.type # "EOF"
      BY DEF Abstract!Keywords
    <3>2. Abstract!WordType(first, p) =
            IF named = {} THEN "identifier" ELSE (CHOOSE k \in named : TRUE).type
      BY DEF Abstract!WordType
    <3>3. \A k \in named : k.type # "EOF"
      BY <3>1
    <3>4. named # {} => (CHOOSE k \in named : TRUE) \in named
      OBVIOUS
    <3> HIDE DEF named
    <3> QED BY <3>2, <3>3, <3>4
  <2> QED BY <1>1, <2>1, <2>2
<1>4. CASE \E p \in first .. Len(source), t \in {"int", "real", "string"} :
             m = [type |-> t, last |-> p]
  BY <1>1, <1>4
<1>5. CASE \E o \in Abstract!Operators :
             /\ m = [type |-> o.type, last |-> first + Len(o.spelling) - 1]
             /\ Abstract!At(first, o.spelling)
  <2>1. PICK o \in Abstract!Operators :
          /\ m = [type |-> o.type, last |-> first + Len(o.spelling) - 1]
          /\ Abstract!At(first, o.spelling)
    BY <1>5
  <2>2. o.type # "EOF"
    <3>1. "EOF" \notin Single /\ \A p \in Pairs : p[3] # "EOF"
      BY DEF Single, Pairs
    <3>2. CASE \E c \in Single : o = [type |-> c, spelling |-> <<c>>]
      BY <3>1, <3>2
    <3>3. CASE \E p \in Pairs : o = Paired(p)
      BY <3>1, <3>3 DEF Paired, Pair, PairType
    <3> QED BY <3>2, <3>3, SameOperators
  <2>3. first + Len(o.spelling) - 1 \in {first, first + 1}
    BY <2>1, OperatorsAt
  <2>4. first + Len(o.spelling) - 1 <= Len(source)
    BY <2>1 DEF Abstract!At
  <2> QED BY <1>1, <2>1, <2>2, <2>3, <2>4
<1>6. \A p \in first + 1 .. Len(source) : p \in first .. Len(source)
  BY <1>1
<1>7. \/ source[first] = "\n" /\ m = [type |-> "eol", last |-> first]
      \/ \E p \in first .. Len(source) :
           m = [type |-> Abstract!WordType(first, p), last |-> p]
      \/ \E p \in first .. Len(source), t \in {"int", "real", "string"} :
           m = [type |-> t, last |-> p]
      \/ \E o \in Abstract!Operators :
           /\ m = [type |-> o.type, last |-> first + Len(o.spelling) - 1]
           /\ Abstract!At(first, o.spelling)
  <2>1. "int" \in {"int", "real", "string"} /\ "real" \in {"int", "real", "string"}
        /\ "string" \in {"int", "real", "string"}
    OBVIOUS
  <2> QED BY <1>6, <2>1, Zenon DEF Lexeme
<1> QED BY <1>2, <1>3, <1>4, <1>5, <1>7

LEMMA LongestEnds ==
  ASSUME LInv
  PROVE  /\ \A first \in 1 .. Len(source) :
              /\ Abstract!Longest(first).last \in first .. Len(source)
              /\ Abstract!Longest(first).type # "EOF"
         /\ Abstract!Longest(End).type = "EOF"
<1>0. Len(source) \in Nat /\ End = Len(source) + 1
  BY StructFacts
<1>1. ASSUME NEW first \in 1 .. Len(source)
      PROVE  /\ Abstract!Longest(first).last \in first .. Len(source)
             /\ Abstract!Longest(first).type # "EOF"
  <2>1. CASE \A m : ~ Lexeme(first, m)
    BY <1>0, <2>1, NoneLongest
  <2>2. CASE \E m : Lexeme(first, m)
    <3> DEFINE S == Abstract!Lexemes(first)
               L == {m.last : m \in S}
    <3>1. \A m : m \in S <=> Lexeme(first, m)
      BY LexemesAre
    <3>2. ~(first > Len(source)) /\ S # {}
      BY <1>0, <2>2, <3>1
    <3>3. Abstract!Longest(first) = CHOOSE k \in S : \A m \in S : m.last <= k.last
      BY <3>2 DEF Abstract!Longest
    <3>4. \A m \in S : m.last \in first .. Len(source) /\ m.type # "EOF"
      BY <3>1, LexemeEnds
    <3> HIDE DEF S
    <3>5. L \in SUBSET Nat /\ L # {} /\ \A x \in L : x <= Len(source)
      BY <1>0, <3>2, <3>4
    <3>6. \E x \in L : \A y \in L : y <= x
      <4> HIDE DEF L
      <4> QED BY <1>0, <3>5, GreatestNumber
    <3>7. \E k \in S : \A m \in S : m.last <= k.last
      BY <3>6
    <3>8. Abstract!Longest(first) \in S
      BY <3>3, <3>7
    <3> QED BY <3>4, <3>8
  <2> QED BY <2>1, <2>2
<1>2. Abstract!Longest(End) = [type |-> "EOF", last |-> Len(source)]
  BY <1>0 DEF Abstract!Longest
<1> QED BY <1>1, <1>2

\* There is a text behind it, or its end.
LEMMA NextEnds ==
  ASSUME LInv, NEW p \in 1 .. End, Abstract!Longest(Next(p)).type # "EOF"
  PROVE  /\ Next(p) \in 1 .. Len(source)
         /\ Abstract!Longest(Next(p)).last + 1 \in p + 1 .. End
<1>0. End = Len(source) + 1 /\ Len(source) \in Nat
  BY StructFacts
<1>1. Next(p) \in p .. End
  BY NextReaches
<1>2. Next(p) # End
  BY LongestEnds
<1>3. Next(p) \in 1 .. Len(source)
  BY <1>0, <1>1, <1>2
<1>4. Abstract!Longest(Next(p)).last \in Next(p) .. Len(source)
  BY <1>3, LongestEnds
<1> QED BY <1>0, <1>1, <1>3, <1>4

\* The types of the lexemes from a place of the text on, up to its end.
ListStep(f, p) ==
  IF Abstract!Longest(Next(p)).type = "EOF" THEN << >>
  ELSE <<Abstract!Longest(Next(p)).type>> \o f[Abstract!Longest(Next(p)).last + 1]

Lists(f) == f = [p \in 1 .. Len(source) + 1 |-> ListStep(f, p)]

\* The recursion is well founded.
LEMMA ListsExist ==
  ASSUME LInv
  PROVE  \E f : Lists(f)
<1> DEFINE From(g, j) == \A p \in 1 .. End : p >= j => g[p] = ListStep(g, p)
           T == {j \in Nat : \E g : From(g, j)}
<1>0. End \in Nat /\ End = Len(source) + 1 /\ Len(source) \in Nat
  BY StructFacts
<1>1. ASSUME NEW p \in 1 .. End, Abstract!Longest(Next(p)).type # "EOF"
      PROVE  Abstract!Longest(Next(p)).last + 1 \in p + 1 .. End
  BY <1>1, NextEnds
<1>2. End + 1 \in T
  <2>1. \A p \in 1 .. End : ~(p >= End + 1)
    BY <1>0
  <2> QED BY <1>0, <2>1
<1>3. ASSUME NEW i \in 0 .. End, i + 1 \in T PROVE i \in T
  <2>1. PICK g : From(g, i + 1)
    BY <1>3
  <2> DEFINE h == [p \in 1 .. End |-> IF p = i THEN ListStep(g, i) ELSE g[p]]
  <2>2. /\ i \in 1 .. End => h[i] = ListStep(g, i)
        /\ \A p \in 1 .. End : p # i => h[p] = g[p]
    OBVIOUS
  <2> HIDE DEF h
  <2>3. ASSUME NEW p \in 1 .. End, p >= i PROVE ListStep(h, p) = ListStep(g, p)
    <3>1. CASE Abstract!Longest(Next(p)).type = "EOF"
      BY <3>1 DEF ListStep
    <3>2. CASE Abstract!Longest(Next(p)).type # "EOF"
      <4> DEFINE q == Abstract!Longest(Next(p)).last + 1
      <4>1. q \in 1 .. End /\ q # i
        BY <1>0, <1>1, <2>3, <3>2
      <4>2. h[q] = g[q]
        BY <2>2, <4>1
      <4> QED BY <4>2 DEF ListStep
    <3> QED BY <3>1, <3>2
  <2>4. ASSUME NEW p \in 1 .. End, p >= i PROVE h[p] = ListStep(h, p)
    <3>1. CASE p = i
      BY <2>2, <2>3, <2>4, <3>1
    <3>2. CASE p # i
      <4>1. p >= i + 1
        BY <1>0, <2>4, <3>2
      <4>2. g[p] = ListStep(g, p)
        BY <2>1, <4>1
      <4> QED BY <2>2, <2>3, <2>4, <3>2, <4>2
    <3> QED BY <3>1, <3>2
  <2>5. From(h, i)
    BY <2>4
  <2> HIDE DEF From
  <2> QED BY <1>0, <2>5
<1>4. 0 \in T
  <2> HIDE DEF T
  <2> DEFINE n == End + 1
  <2>1. n \in Nat /\ n \in T /\ (\A i \in 0 .. n - 1 : i + 1 \in T => i \in T)
    BY <1>0, <1>2, <1>3
  <2> HIDE DEF n
  <2>2. \A i \in 0 .. n : i \in T
    BY <2>1, DownFrom
  <2> QED BY <2>1, <2>2
<1>5. PICK g : From(g, 0)
  BY <1>4
<1> DEFINE f == [p \in 1 .. End |-> g[p]]
<1>6. ASSUME NEW p \in 1 .. End PROVE ListStep(f, p) = ListStep(g, p)
  <2>1. CASE Abstract!Longest(Next(p)).type = "EOF"
    BY <2>1 DEF ListStep
  <2>2. CASE Abstract!Longest(Next(p)).type # "EOF"
    <3> DEFINE q == Abstract!Longest(Next(p)).last + 1
    <3>1. q \in 1 .. End
      BY <1>0, <1>1, <2>2
    <3>2. f[q] = g[q]
      BY <3>1
    <3> HIDE DEF f
    <3> QED BY <3>2 DEF ListStep
  <2> QED BY <2>1, <2>2
<1>7. f = [p \in 1 .. End |-> ListStep(f, p)]
  <2>1. \A p \in 1 .. End : g[p] = ListStep(g, p)
    BY <1>0, <1>5
  <2> QED BY <1>6, <2>1
<1> HIDE DEF f
<1>8. Lists(f)
  BY <1>0, <1>7 DEF Lists
<1> QED BY <1>8

\* What it lists.
TypesHere == {Abstract!Longest(q).type : q \in 1 .. Len(source)}

LEMMA ListsAre ==
  ASSUME LInv, NEW f, Lists(f)
  PROVE  /\ "EOF" \notin TypesHere
         /\ \A p \in 1 .. End :
              /\ f[p] \in Seq(TypesHere) /\ f[p] = ListStep(f, p)
              /\ Abstract!Longest(Next(p)).type # "EOF" =>
                   /\ Abstract!Longest(Next(p)).type \in TypesHere
                   /\ Abstract!Longest(Next(p)).last + 1 \in p + 1 .. End
<1>0. End \in Nat /\ End = Len(source) + 1 /\ Len(source) \in Nat
  BY StructFacts
<1>1. ASSUME NEW p \in 1 .. End, Abstract!Longest(Next(p)).type # "EOF"
      PROVE  /\ Abstract!Longest(Next(p)).type \in TypesHere
             /\ Abstract!Longest(Next(p)).last + 1 \in p + 1 .. End
  BY <1>1, NextEnds DEF TypesHere
<1>2. "EOF" \notin TypesHere
  BY LongestEnds DEF TypesHere
<1>3. \A p \in 1 .. End : f[p] = ListStep(f, p)
  BY <1>0 DEF Lists
<1> DEFINE T == {j \in Nat : \A p \in 1 .. End : p >= j => f[p] \in Seq(TypesHere)}
<1>4. End + 1 \in T
  BY <1>0
<1>5. ASSUME NEW i \in 0 .. End, i + 1 \in T PROVE i \in T
  <2> SUFFICES ASSUME NEW p \in 1 .. End, p >= i PROVE f[p] \in Seq(TypesHere)
    BY <1>0
  <2>1. CASE Abstract!Longest(Next(p)).type = "EOF"
    <3>1. f[p] = << >>
      BY <1>3, <2>1 DEF ListStep
    <3> HIDE DEF TypesHere
    <3> QED BY <3>1
  <2>2. CASE Abstract!Longest(Next(p)).type # "EOF"
    <3> DEFINE q == Abstract!Longest(Next(p)).last + 1
               t == Abstract!Longest(Next(p)).type
    <3>1. q \in p + 1 .. End /\ t \in TypesHere
      BY <1>1, <2>2
    <3>2. f[p] = <<t>> \o f[q]
      BY <1>3, <2>2 DEF ListStep
    <3> HIDE DEF q, t
    <3>3. q \in 1 .. End /\ q >= i + 1
      BY <1>0, <3>1
    <3>4. f[q] \in Seq(TypesHere)
      BY <1>5, <3>3
    <3>5. <<t>> \in Seq(TypesHere)
      BY <3>1
    <3> QED BY <3>2, <3>4, <3>5
  <2> QED BY <2>1, <2>2
<1>6. 0 \in T
  <2> HIDE DEF T
  <2> DEFINE n == End + 1
  <2>1. n \in Nat /\ n \in T /\ (\A i \in 0 .. n - 1 : i + 1 \in T => i \in T)
    BY <1>0, <1>4, <1>5
  <2> HIDE DEF n
  <2>2. \A i \in 0 .. n : i \in T
    BY <2>1, DownFrom
  <2> QED BY <2>1, <2>2
<1>7. \A p \in 1 .. End : f[p] \in Seq(TypesHere)
  BY <1>0, <1>6
<1> QED BY <1>1, <1>2, <1>3, <1>7

(***************************************************************************)
(* The lexer implements the scanner: it drops exactly the blanks and the   *)
(* comments and takes the longest lexeme, with its type, in every text of  *)
(* which it makes no token that begins with a quote and does not end with  *)
(* one (lexer.c:279), and none of another type from a minus and an equals  *)
(* sign (lexer.c:365).                                                     *)
(***************************************************************************)
THEOREM CutsAsScanner ==
  LexerSpec /\ [](StringsClosed /\ MinusAssign) => ImplementsScanner
<1> DEFINE Closed == StringsClosed /\ MinusAssign
<1>1. lexer_init => CutInv
  BY FirstCutInv
<1>2. LInv /\ CutInv /\ [LexerNext]_lexerVars => CutInv'
  BY CutInvHolds
<1>3. lexer_init => Abstract!ScannerInit
  <2> SUFFICES ASSUME lexer_init PROVE Abstract!ScannerInit
    OBVIOUS
  <2>1. tokens = << >> /\ tokens \in Seq(TokenRecords)
    BY DEF lexer_init
  <2>2. Extents = << >>
    BY <2>1, ExtentsAre
  <2> QED BY <2>2, Zenon DEF Abstract!ScannerInit, Extents, Extent
<1>4. LInv /\ CutInv /\ [LexerNext]_lexerVars /\ Closed'
        => [Abstract!ScannerNext]_(Abstract!scannerVars)
  <2> SUFFICES ASSUME LInv, CutInv, [LexerNext]_lexerVars, StringsClosed', MinusAssign'
               PROVE  Abstract!ScannerNext \/ UNCHANGED Abstract!scannerVars
    BY DEF Closed
  <2>1. CASE UNCHANGED <<source, tokens>>
    BY <2>1 DEF Abstract!scannerVars
  <2> QED BY <2>1, StepScans
<1> HIDE DEF Closed
<1>5. LexerSpec /\ []Closed => ImplementsScanner
  BY <1>1, <1>2, <1>3, <1>4, Inductive, PTL DEF LexerSpec, ImplementsScanner, Abstract!ScannerSpec
<1> QED BY <1>5 DEF Closed
=============================================================================
