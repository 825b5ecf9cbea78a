--------------------------------- MODULE Printf ---------------------------------
(***************************************************************************)
(* Formatted output (src/lib/snprintf.c, built without floating point):    *)
(* the loop of dopr() as a step on a record m, which holds the format and  *)
(* the arguments, how far both have been read, the conversion being parsed *)
(* and the characters put in the buffer so far (buffer[0 .. currlen-1]).   *)
(***************************************************************************)
EXTENDS Integers, Sequences, SequencesExt

CONSTANT ULONG     \* 1 + the largest unsigned long

NUL == "NUL"
Null == "null pointer"
NullText == <<"<", "N", "U", "L", "L", ">">>
Numerals == <<"0", "1", "2", "3", "4", "5", "6", "7", "8", "9", "a", "b", "c", "d", "e", "f">>
Capitals == <<"0", "1", "2", "3", "4", "5", "6", "7", "8", "9", "A", "B", "C", "D", "E", "F">>
IsDigit(ch) == \E i \in 1 .. 10 : Numerals[i] = ch
char_to_int(ch) == CHOOSE i \in 0 .. 9 : Numerals[i + 1] = ch

Least(a, b) == IF a < b THEN a ELSE b
Most(a, b) == IF a > b THEN a ELSE b
Rep(ch, n) == [i \in 1 .. n |-> ch]
Prefix(s, n) == SubSeq(s, 1, Least(n, Len(s)))

Digits(u, base, numerals) ==
  LET to[n \in 0 .. u] == (IF n < base THEN <<>> ELSE to[n \div base]) \o <<numerals[(n % base) + 1]>> IN to[u]

Ch(m) == IF m.pos \in DOMAIN m.fmt THEN m.fmt[m.pos] ELSE NUL
Advance(m) == [m EXCEPT !.pos = @ + 1]
To(m, state) == [m EXCEPT !.state = state]
NextArg(m) == [m EXCEPT !.args = Tail(@)]
dopr_outch(m, chars) == [m EXCEPT !.out = Prefix(@ \o chars, m.maxlen)]

(***************************************************************************)
(* Conversions                                                             *)
(***************************************************************************)
\* Faulty: the sign is not counted in the field width.
SpaceUnsigned(m, digits, sign) == Most(m.min - Most(Most(m.max, 0), Len(digits)), 0)
\* The room the number leaves in its field.
Space(m, digits, sign) == Most(m.min - Most(Most(m.max, 0), Len(digits)) - Len(sign), 0)
\* A '0' flag turns the spaces into zeros even if there is a precision, or
\* the '-' flag.
fmtint(m, value, base, unsigned) ==
  LET sign   == CASE unsigned -> <<>>
                  [] ~unsigned /\ value < 0 -> <<"-">>
                  [] OTHER -> IF "+" \in m.flags THEN <<"+">> ELSE IF " " \in m.flags THEN <<" ">> ELSE <<>>
      digits == Digits(IF unsigned THEN value % ULONG ELSE IF value < 0 THEN -value ELSE value,
                       base, IF Ch(m) = "X" THEN Capitals ELSE Numerals)
      zeros  == Most(m.max - Len(digits), 0)
      space  == Space(m, digits, sign)
      number == sign \o Rep("0", IF "0" \in m.flags THEN Most(zeros, space) ELSE zeros) \o digits
      blanks == Rep(" ", IF "0" \in m.flags THEN 0 ELSE space)
  IN  dopr_outch(m, IF "-" \in m.flags THEN number \o blanks ELSE blanks \o number)

\* The padding counts against the precision.
fmtstr(m, value) ==
  LET text   == IF value = Null THEN NullText ELSE value
      blanks == Rep(" ", Most(m.min - Len(text), 0))
  IN  dopr_outch(m, Prefix(IF "-" \in m.flags THEN text \o blanks ELSE blanks \o text,
                           IF m.max < 0 THEN m.maxlen ELSE m.max))

Convert(m) ==
  LET ch  == Ch(m)
      arg == Head(m.args)
  IN  CASE ch \in {"d", "i", "p"} -> NextArg(fmtint(m, arg, IF ch = "p" THEN 16 ELSE 10, FALSE))
        [] ch = "u" -> NextArg(fmtint(m, arg, 10, TRUE))
        [] ch = "o" -> NextArg(fmtint(m, arg, 8, TRUE))
        [] ch \in {"x", "X"} -> NextArg(fmtint(m, arg, 16, TRUE))
        [] ch = "c" -> NextArg(dopr_outch(m, <<arg>>))
        [] ch = "s" -> NextArg(fmtstr(m, arg))
        [] ch = "n" -> NextArg([m EXCEPT !.count = Len(m.out)])
        [] ch = "%" -> dopr_outch(m, <<ch>>)
        [] ch = "w" -> Advance(m)
        [] OTHER -> m
Conversion(m) ==
  [Advance(Convert(m)) EXCEPT !.state = "DEFAULT", !.flags = {}, !.min = 0, !.max = -1]

(***************************************************************************)
(* The states of dopr()                                                    *)
(***************************************************************************)
Default(m) == Advance(IF Ch(m) = "%" THEN To(m, "FLAGS") ELSE dopr_outch(m, <<Ch(m)>>))
Flags(m) ==
  IF Ch(m) \in {"-", "+", " ", "#", "0"} THEN Advance([m EXCEPT !.flags = @ \cup {Ch(m)}]) ELSE To(m, "MIN")
MinWidth(m) ==
  CASE IsDigit(Ch(m)) -> Advance([m EXCEPT !.min = 10 * @ + char_to_int(Ch(m))])
    [] Ch(m) = "*" -> Advance(To(NextArg([m EXCEPT !.min = Head(m.args)]), "DOT"))
    [] OTHER -> To(m, "DOT")
Dot(m) == IF Ch(m) = "." THEN Advance(To(m, "MAX")) ELSE To(m, "MOD")
MaxWidth(m) ==
  CASE IsDigit(Ch(m)) -> Advance([m EXCEPT !.max = 10 * Most(@, 0) + char_to_int(Ch(m))])
    [] Ch(m) = "*" -> Advance(To(NextArg([m EXCEPT !.max = Head(m.args)]), "MOD"))
    [] OTHER -> To(m, "MOD")
\* short, int and long arguments take the same room, so cflags changes nothing.
Modifier(m) == To(IF Ch(m) \in {"h", "l"} THEN Advance(m) ELSE m, "CONV")

\* The byte behind the last character, or the last one of a full buffer.
Done(m) == [m EXCEPT !.state = "DONE", !.out = Prefix(@, m.maxlen - 1) \o <<NUL>>]

dopr(m) ==
  IF Ch(m) = NUL \/ Len(m.out) >= m.maxlen THEN Done(m)
  ELSE CASE m.state = "DEFAULT" -> Default(m)
         [] m.state = "FLAGS" -> Flags(m)
         [] m.state = "MIN" -> MinWidth(m)
         [] m.state = "DOT" -> Dot(m)
         [] m.state = "MAX" -> MaxWidth(m)
         [] m.state = "MOD" -> Modifier(m)
         [] m.state = "CONV" -> Conversion(m)

\* str[0] = 0 first; what dopr() starts with.
vsnprintf(maxlen, fmt, args) ==
  [fmt |-> fmt, args |-> args, maxlen |-> maxlen, pos |-> 1, state |-> "DEFAULT",
   flags |-> {}, min |-> 0, max |-> -1, count |-> 0, out |-> <<>>]

(***************************************************************************)
(* What the C standard says of a directive d = [flags, min, max, conv],    *)
(* max = -1 without a precision.                                           *)
(***************************************************************************)
Padded(d, head, body) ==
  LET room == Most(d.min - Len(head) - Len(body), 0)
  IN  CASE "-" \in d.flags -> head \o body \o Rep(" ", room)
        [] d.flags \cap {"0", "-"} = {"0"} /\ d.max < 0 /\ d.conv # "s" -> head \o Rep("0", room) \o body
        [] OTHER -> Rep(" ", room) \o head \o body
InC(d, arg) ==
  LET body(u, base) == LET n == Digits(u, base, Numerals) IN Rep("0", Most(d.max - Len(n), 0)) \o n
      sign == CASE arg < 0 -> <<"-">>
                [] arg >= 0 /\ "+" \in d.flags -> <<"+">>
                [] OTHER -> IF " " \in d.flags THEN <<" ">> ELSE <<>>
  IN  CASE d.conv = "d" -> Padded(d, sign, body(IF arg < 0 THEN -arg ELSE arg, 10))
        [] d.conv = "u" -> Padded(d, <<>>, body(arg % ULONG, 10))
        [] d.conv = "x" -> Padded(d, <<>>, body(arg % ULONG, 16))
        [] d.conv = "s" -> Padded(d, <<>>, IF d.max < 0 THEN arg ELSE Prefix(arg, d.max))
================================================================================
