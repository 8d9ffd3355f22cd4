---------------------------- MODULE LogFormatter ----------------------------
(***************************************************************************)
(* LogFormatter::Init: the parser of the log patterns.  A pattern is a     *)
(* sequence of characters, of which the parser tells apart "%", the        *)
(* braces, letters and the rest.                                           *)
(***************************************************************************)
EXTENDS Integers, Sequences, SequencesExt

Known == {"m", "p", "d", "T", "t", "F", "c", "f", "l", "n", "u"}
Alpha == Known \cup {"x"}     \* "x" stands for the letters that mean nothing

Lit(c) == [what |-> "lit", char |-> c, details |-> <<>>]
ParseError == Lit("<<parse-error>>")

\* What becomes of an item: one of the table's, or an error text.
Item(character, details) ==
    IF Len(character) = 1 /\ character[1] \in Known
    THEN [what |-> "item", char |-> character[1], details |-> details]
    ELSE ParseError

\* The first index after i with a character of S, one past the end if none.
FirstIn(p, i, S) ==
    LET found == {j \in i + 1 .. Len(p) : p[j] \in S}
    IN  IF found = {} THEN Len(p) + 1 ELSE Min(found)

\* The character before a brace or the next non-letter; a closing brace does not
\* end it.
Stop(p, i) == FirstIn(p, i, Range(p) \ (Alpha \cup {"}"}))
Braced(p, i) == Stop(p, i) <= Len(p) /\ p[Stop(p, i)] = "{"
Close(p, i) == FirstIn(p, Stop(p, i), {"}"})

ItemAt(p, i) ==
    Item(SubSeq(p, i + 1, Stop(p, i) - 1),
         IF Braced(p, i) THEN SubSeq(p, Stop(p, i) + 1, Close(p, i) - 1) ELSE <<>>)

\* Mutant: the loop goes on one character too late.
AfterItemSkip(p, i) == IF Braced(p, i) THEN Close(p, i) + 1 ELSE Stop(p, i) + 1

\* Where the loop goes on after an item.
AfterItem(p, i) == IF Braced(p, i) THEN Close(p, i) + 1 ELSE Stop(p, i)

\* The literal text before an item is stored with the item: what follows the last
\* item is not stored at all.
Before(c, items) == IF items = <<>> THEN <<>> ELSE <<Lit(c)>> \o items

\* The items of the pattern from position i on.  After a brace that is not closed
\* the loop goes on with the character after "%".
ItemsFrom(p) ==
    LET from[i \in 1 .. Len(p) + 2] ==
          IF i > Len(p) THEN <<>>
          ELSE IF p[i] # "%" THEN Before(p[i], from[i + 1])
          ELSE IF i < Len(p) /\ p[i + 1] = "%" THEN Before("%", from[i + 2])
          ELSE IF Braced(p, i) /\ Close(p, i) > Len(p)
               THEN <<ParseError>> \o from[i + 1]
          ELSE <<ItemAt(p, i)>> \o from[AfterItem(p, i)]
    IN  from

Items(p) == ItemsFrom(p)[1]

-----------------------------------------------------------------------------
(* The reference: a pattern made of pieces.                                *)

\* How a piece is written in a pattern.
Written(piece) ==
    IF piece.what = "lit" THEN IF piece.char = "%" THEN <<"%", "%">> ELSE <<piece.char>>
    ELSE <<"%", piece.char>> \o (IF piece.details = <<>> THEN <<>>
                                 ELSE <<"{">> \o piece.details \o <<"}">>)

PatternOf(pieces) == FoldLeft(LAMBDA acc, x : acc \o Written(x), <<>>, pieces)

\* A letter right after an item without braces would belong to the item.
Separable(pieces) ==
    \A i \in 1 .. Len(pieces) - 1 :
      ~ /\ pieces[i].what = "item" /\ pieces[i].details = <<>>
        /\ pieces[i + 1].what = "lit" /\ pieces[i + 1].char \in Alpha

LastItem(pieces) == Max({0} \cup {i \in DOMAIN pieces : pieces[i].what = "item"})
=============================================================================
