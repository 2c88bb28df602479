------------------------------- MODULE Printf -------------------------------
(***************************************************************************)
(* Formatted output (bwio.c): how print() finds its arguments and turns    *)
(* numbers into text, and myAtoi of commandExecutor.c, which reads the     *)
(* identifiers back that a user has seen.                                  *)
(*                                                                         *)
(* Numbers have few bits: Bits is 32 in the program and BufLen is 12.      *)
(* What stands between the conversions of a format, %c, %f (which nothing  *)
(* uses), capital letters and flags in another order are left out.         *)
(***************************************************************************)
EXTENDS Integers, Sequences

CONSTANTS
  Bits,       \* the width of an int, and of a word on the stack
  BufLen,     \* PRINT_BUF_LEN
  Formats,    \* the formats with their arguments
  Junk        \* words that can be where no argument is

\* The powers of b.
Power(b) == LET p[k \in Nat] == IF k = 0 THEN 1 ELSE b * p[k - 1] IN p

Words == 0 .. Power(2)[Bits] - 1
Longs == 0 .. Power(2)[2 * Bits] - 1

\* The array is big enough for an int: a sign, its digits and a NUL.  No string
\* is a long, and only a long has more than a word.
ASSUME PrintfAssumption ==
  /\ Bits \in Nat \ {0} /\ BufLen \in Nat /\ BufLen > 2
  /\ Power(10)[BufLen - 2] >= Power(2)[Bits]
  /\ Junk \subseteq Words
  /\ Formats \subseteq Seq([kind : {"d", "u", "x", "s"}, long : BOOLEAN, width : Nat,
                            left : BOOLEAN, zero : BOOLEAN, arg : Longs])
  /\ \A f \in Formats : \A k \in DOMAIN f :
       (f[k].kind = "s" => ~f[k].long) /\ (~f[k].long => f[k].arg \in Words)

VARIABLES
  format,     \* the conversions, each with the argument that the caller gave
  before,     \* the arguments in front of the format: none in bwprintf, one in
              \* bwsprintf and cliprintf
  stack,      \* the words behind the pointer to the format
  read,       \* the words at which the arguments handled so far were read
  varg,       \* the next word
  text,       \* the text of each conversion handled so far
  low         \* the lowest index of print_buf that the last number used

vars == <<format, before, stack, read, varg, text, low>>

Digit == <<"0", "1", "2", "3", "4", "5", "6", "7", "8", "9", "a", "b", "c", "d", "e", "f">>
NullText == <<"(", "n", "u", "l", "l", ")">>

Repeat(char, n) == [k \in 1 .. n |-> char]
Base(c) == IF c.kind = "x" THEN 16 ELSE 10
Width(c) == IF c.long THEN 2 * Bits ELSE Bits
Signed(v, bits) == IF v >= Power(2)[bits - 1] THEN v - Power(2)[bits] ELSE v
-----------------------------------------------------------------------------
(* The caller, by the procedure call standard.                             *)

\* Words are counted from the pointer to the format, in front of which there are b;
\* a long begins at an even word of the whole list of arguments.
Places(f, b) ==
  LET Aligned(p, c) == IF c.long /\ (p + b) % 2 = 1 THEN p + 1 ELSE p
      Size(c) == IF c.long THEN 2 ELSE 1
      at[k \in DOMAIN f] ==
        Aligned(IF k = 1 THEN 1 ELSE at[k - 1] + Size(f[k - 1]), f[k])
  IN  at

\* The arguments in their places, the low word of a long first, and j elsewhere.
Stack(f, b, j) ==
  LET at == Places(f, b) IN
  [p \in 1 .. 3 * Len(f) + 2 |->
     IF \E k \in DOMAIN f : at[k] = p
     THEN f[CHOOSE k \in DOMAIN f : at[k] = p].arg % Power(2)[Bits]
     ELSE IF \E k \in DOMAIN f : f[k].long /\ at[k] + 1 = p
     THEN f[CHOOSE k \in DOMAIN f : at[k] + 1 = p].arg \div Power(2)[Bits]
     ELSE j]

\* bwprintf, bwsprintf and cliprintf hand on the place of their format.
PrintInit ==
  /\ format \in Formats /\ before \in {0, 1}
  /\ \E j \in Junk : stack = Stack(format, before, j)
  /\ varg = 1 /\ read = <<>> /\ text = <<>> /\ low = 0
-----------------------------------------------------------------------------
(* Numbers.                                                                *)

\* Broken variant: the fill is on the other side.
printsMirrored(s, width, c) ==
  LET fill == Repeat(IF width > 0 /\ c.zero THEN "0" ELSE " ", width - Len(s))
  IN  IF c.left THEN fill \o s ELSE s \o fill

prints(s, width, c) ==
  LET fill == Repeat(IF width > 0 /\ c.zero THEN "0" ELSE " ", width - Len(s))
  IN  IF c.left THEN s \o fill ELSE fill \o s

\* The sign is put out before the fill.
SignFirst(c, neg) == neg /\ c.width > 0 /\ c.zero

\* The digits of v, as the loop leaves them in print_buf, which it fills from the
\* end; 0 is written at its start.
Digits(v, base) ==
  LET d[u \in Nat] == IF u = 0 THEN <<>> ELSE Append(d[u \div base], Digit[(u % base) + 1])
  IN  IF v = 0 THEN <<"0">> ELSE d[v]

IsNegative(v, c) == c.kind = "d" /\ Signed(v, Width(c)) < 0

\* What is in print_buf; the negation of the lowest number is that number.
Written(v, c) ==
  LET neg == IsNegative(v, c)
      u == IF neg THEN (-Signed(v, Width(c))) % Power(2)[Width(c)] ELSE v
  IN  (IF neg /\ ~SignFirst(c, neg) THEN <<"-">> ELSE <<>>) \o Digits(u, Base(c))

\* printi and, with the bounds of a long but the same end of print_buf, printli.
printi(v, c) ==
  IF SignFirst(c, IsNegative(v, c))
  THEN <<"-">> \o prints(Written(v, c), c.width - 1, c)
  ELSE prints(Written(v, c), c.width, c)

\* Broken variant: there is one place less.
LowestLess(v, c) == IF v = 0 THEN 0 ELSE BufLen - 2 - Len(Written(v, c))

Lowest(v, c) == IF v = 0 THEN 0 ELSE BufLen - 1 - Len(Written(v, c))
-----------------------------------------------------------------------------
(* print: one conversion after the other.                                  *)

Conversion == format[Len(read) + 1]

PrintString ==
  /\ Conversion.kind = "s"
  /\ text' = Append(text, prints(IF stack[varg] = 0 THEN NullText ELSE <<"t">>,
                                 Conversion.width, Conversion))
  /\ read' = Append(read, varg) /\ varg' = varg + 1
  /\ UNCHANGED low

PrintInt ==
  /\ Conversion.kind # "s" /\ ~Conversion.long
  /\ text' = Append(text, printi(stack[varg], Conversion))
  /\ low' = Lowest(stack[varg], Conversion)
  /\ read' = Append(read, varg) /\ varg' = varg + 1

\* Broken variant: no word is skipped.
LongAtVarg == varg

\* The word at varg is taken for one that aligns the long; varg goes on by two.
LongAt == varg + 1

AfterLong == varg + 2

\* Digits that are written below print_buf can be overwritten.
Garbled == <<"?">>

PrintLong ==
  LET v == stack[LongAt] + Power(2)[Bits] * stack[LongAt + 1] IN
  /\ Conversion.kind # "s" /\ Conversion.long
  /\ low' = Lowest(v, Conversion)
  /\ \/ text' = Append(text, printi(v, Conversion))
     \/ low' < 0 /\ text' = Append(text, Garbled)
  /\ read' = Append(read, LongAt) /\ varg' = AfterLong

print ==
  /\ Len(read) < Len(format)
  /\ PrintString \/ PrintInt \/ PrintLong
  /\ UNCHANGED <<format, before, stack>>

PrintSpec == PrintInit /\ [][print]_vars
-----------------------------------------------------------------------------
(* myAtoi.                                                                 *)

\* Broken variant: the sign is lost.
NegateNot(v) == v

Negate(v) == (-v) % Power(2)[Bits]

\* The value as a word; what is not a decimal numeral gives 0.
myAtoi(s) ==
  LET neg == Len(s) > 0 /\ s[1] = "-"
      digits == IF neg THEN Tail(s) ELSE s
      Value(ch) == (CHOOSE k \in 1 .. 10 : Digit[k] = ch) - 1
      res[k \in 0 .. Len(digits)] ==
        IF k = 0 THEN 0 ELSE (res[k - 1] * 10 + Value(digits[k])) % Power(2)[Bits]
  IN  IF \E k \in DOMAIN digits : \A n \in 1 .. 10 : digits[k] # Digit[n]
      THEN 0
      ELSE IF neg THEN Negate(res[Len(digits)]) ELSE res[Len(digits)]
-----------------------------------------------------------------------------
\* All longs come behind all other arguments, and these are even in number, those
\* in front of the format included.
Regular(f, b) ==
  \E n \in 0 .. Len(f) :
    /\ \A k \in DOMAIN f : f[k].long <=> k > n
    /\ n = Len(f) \/ (n + b) % 2 = 0

\* Every argument is read where the caller has put it exactly if the format is
\* regular (print's varg + 1 and varg += 2 against the alignment of the calling
\* standard): bwprintf("%lu", v) is, and bwsprintf(out, "%lu", v) reads one word
\* too far.  The longs of the program are single ones in bwprintf.
ArgumentsRead ==
  Len(read) = Len(format) =>
    ((\A k \in DOMAIN format : read[k] = Places(format, before)[k])
       <=> Regular(format, before))

\* The number that the caller means.
Meant(c) == IF c.kind = "d" THEN Signed(c.arg, Width(c)) ELSE c.arg

\* The shortest numeral of n with the digits of base, the most significant first.
Numeral(n, base) ==
  LET len == CHOOSE k \in 1 .. 2 * Bits + 1 :
               Power(base)[k] > n /\ (k = 1 \/ Power(base)[k - 1] <= n)
  IN  [k \in 1 .. len |-> Digit[((n \div Power(base)[len - k]) % base) + 1]]

\* What the C standard says of a conversion: text of at least the width, spaces
\* on the side that has none, zeros only between the sign and the digits.
Standard(c) ==
  LET n == Meant(c)
      body == IF c.kind = "s" THEN (IF c.arg = 0 THEN NullText ELSE <<"t">>)
              ELSE Numeral(IF n < 0 THEN -n ELSE n, Base(c))
      sign == IF c.kind # "s" /\ n < 0 THEN <<"-">> ELSE <<>>
      fill == c.width - Len(sign \o body)
  IN  IF c.left THEN sign \o body \o Repeat(" ", fill)
      ELSE IF c.zero THEN sign \o Repeat("0", fill) \o body
      ELSE Repeat(" ", fill) \o sign \o body

\* The number has no more digits than an int can have.
Small(c) ==
  Meant(c) < Power(10)[BufLen - 2] /\ -Meant(c) < Power(10)[BufLen - 2]

\* A regular format without both flags at once and with small longs is printed as
\* the C standard says (prints, printi, printli): the lowest number, 0 and a sign
\* before zeros too.
TextRight ==
  Regular(format, before) =>
    \A k \in DOMAIN text :
      LET c == format[k] IN
      ~(c.left /\ c.zero) /\ (c.long => Small(c)) => text[k] = Standard(c)

\* An int stays inside print_buf, and so does a small long; a long leaves it from
\* BufLen digits on, as printli begins at the end of a shorter array than it has.
StaysInside ==
  LET k == Len(read) IN
  Regular(format, before) /\ k > 0 /\ format[k].kind # "s" =>
    /\ ~format[k].long \/ Small(format[k]) => low >= 0
    /\ format[k].kind # "x" /\ Meant(format[k]) >= Power(10)[BufLen - 1] => low < 0

\* The identifier that a user reads in a %d and types behind "task" is the one
\* that was printed, however the sign came out (printi, then myAtoi).
ReadBack ==
  \A k \in DOMAIN text :
    LET c == format[k] IN
    Regular(format, before) /\ ~c.long /\ c.kind = "d" /\ (c.width = 0 \/ (c.zero /\ ~c.left))
      => myAtoi(text[k]) = c.arg
=============================================================================
