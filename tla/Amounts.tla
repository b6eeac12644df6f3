------------------------------ MODULE Amounts ------------------------------
(***************************************************************************)
(* pact/format.ts: what the packages do to the text of an amount.  A text  *)
(* is groups of digits with a dot or a comma between them and a tail: "",  *)
(* a "unit" (" $"), a "placeholder" ("???", "N/A" or nothing: the text has *)
(* no digits then) or "junk" (a sign, an exponent, letters).               *)
(***************************************************************************)
EXTENDS Naturals, FiniteSets, SequencesExt

Text(groups, marks, tail) == [groups |-> groups, marks |-> marks, tail |-> tail]
Integer(digits) == Text(<<digits>>, << >>, "")
Decimal(whole, part) == Text(<<whole, part>>, <<".">>, "")
Placeholder == Text(<<<< >>>>, << >>, "placeholder")
ZeroText == Integer(<<0>>)

Places(text, mark) == SelectInSeq(text.marks, LAMBDA m : m = mark)
Count(text, mark) == Cardinality({i \in DOMAIN text.marks : text.marks[i] = mark})

(* The number that digits before and after the decimal mark stand for. *)
Number(whole, part) ==
  LET last == SelectLastInSeq(part, LAMBDA d : d # 0)
  IN [whole |-> FoldLeft(LAMBDA n, d : 10 * n + d, 0, whole), part |-> SubSeq(part, 1, last)]
Zero == Number(<< >>, << >>)

Cut(digits, n) == IF n < Len(digits) THEN SubSeq(digits, 1, n) ELSE digits

Refused == [ok |-> FALSE]
Accepted(text) == [ok |-> TRUE, text |-> text]

(* /^\d+\.?\d*$/ *)
LexesAsDecimal(text) ==
  /\ text.tail = "" /\ Count(text, ",") = 0 /\ Count(text, ".") <= 1
  /\ text.groups[1] # << >>

NormaliseComma(text) ==
  IF Count(text, ",") = 1 /\ Count(text, ".") = 0 THEN [text EXCEPT !.marks = <<".">>] ELSE text

FormatDecimalForPactBug(text, maxDecimals) ==    \* the second comma is taken too
  LET dotted == [text EXCEPT !.marks = [i \in DOMAIN text.marks |-> "."]]
  IN IF text.tail # "" \/ text.groups[1] = << >> THEN Refused
     ELSE Accepted(IF Len(text.marks) = 0 THEN Decimal(text.groups[1], <<0>>)
                   ELSE Decimal(text.groups[1], Cut(text.groups[2], maxDecimals)))

FormatDecimalForPact(text, maxDecimals) ==
  LET trimmed == NormaliseComma(text)
  IN IF ~LexesAsDecimal(trimmed) THEN Refused
     ELSE Accepted(Decimal(trimmed.groups[1], IF trimmed.marks = << >> THEN <<0>>
                                              ELSE Cut(trimmed.groups[2], maxDecimals)))

(* /^\d+$/, and the text itself. *)
FormatIntegerForPact(text) ==
  IF text.marks = << >> /\ text.tail = "" /\ text.groups[1] # << >> THEN Accepted(text) ELSE Refused

(* The text inside { decimal: text }, or the plain value. *)
MayComeWithDeimal(data) == IF data.shape = "wrapped" THEN data.decimal ELSE data.plain

(* parseFloat, "|| 0" included: it stops at the second dot, at a comma and *)
(* at a tail.                                                              *)
ParseFloat(groups, marks) ==
  Number(groups[1], IF marks # << >> /\ marks[1] = "." THEN groups[2] ELSE << >>)

IsThousand(text) ==
  text.marks = <<".">> /\ Len(text.groups[2]) = 3 /\ text.tail = ""

ParseEUBug(text) ==                      \* only the first dot is taken out
  LET comma == Places(text, ",")
  IN IF comma > 2 THEN Number(text.groups[1] \o text.groups[2], text.groups[3])
     ELSE ParseFloat(text.groups, text.marks)

ParseEU(text) ==
  LET comma == Places(text, ",")
      after == SelectInSubSeq(text.marks, comma + 1, Len(text.marks), LAMBDA m : m = ",")
      end   == IF after = 0 THEN Len(text.groups) ELSE after
  IN IF text.tail = "placeholder" THEN Zero
     ELSE IF comma > 0 THEN Number(FlattenSeq(SubSeq(text.groups, 1, comma)),
                                   FlattenSeq(SubSeq(text.groups, comma + 1, end)))
     ELSE IF IsThousand(text) THEN Number(FlattenSeq(text.groups), << >>)
     ELSE ParseFloat(text.groups, text.marks)

(* Groups of three digits, from the right. *)
Thousands(digits) ==
  LET n == (Len(digits) + 2) \div 3
      From(i) == Len(digits) - 3 * (n + 1 - i) + 1
  IN [i \in 1..n |-> SubSeq(digits, IF From(i) < 1 THEN 1 ELSE From(i), From(i) + 2)]

(* A text that is no number with one dot at most is given back as it is.   *)
FormatEU(text) ==
  LET whole == Thousands(text.groups[1])
      dots  == [i \in 1..(Len(whole) - 1) |-> "."]
  IN IF text.tail \notin {"", "unit"} \/ text.marks \notin {<< >>, <<".">>}
          \/ << >> \in ToSet(text.groups) THEN text
     ELSE IF text.marks = << >> THEN Text(whole, dots, text.tail)
     ELSE Text(Append(whole, text.groups[2]), Append(dots, ","), text.tail)

ValueOf(text) == ParseFloat(text.groups, text.marks)
=============================================================================
