------------------------------- MODULE Printf ------------------------------
(***************************************************************************)
(* libk/nanoprintf.h as libk/stdio.c configures it (widths, precisions and *)
(* 64-bit and binary numbers, but no floating point, no '#', no "%n"), and *)
(* log_line of common/logging.c, which prints into a buffer of its own.    *)
(*                                                                         *)
(* A text is a sequence of characters.  Numbers have IntBits or LongBits   *)
(* bits.                                                                   *)
(***************************************************************************)
EXTENDS Integers, Sequences, SequencesExt, FiniteSetsExt

CONSTANTS IntBits, LongBits

ASSUME PrintfAssumption == IntBits \in Nat \ {0} /\ LongBits \in Nat /\ LongBits > IntBits

Lower == <<"0", "1", "2", "3", "4", "5", "6", "7", "8", "9", "a", "b", "c", "d", "e", "f">>
Upper == SubSeq(Lower, 1, 10) \o <<"A", "B", "C", "D", "E", "F">>
Digits == ToSet(SubSeq(Lower, 1, 10))
DigitValue(c) == (CHOOSE i \in 1..10 : Lower[i] = c) - 1

----------------------------------------------------------------------------
(* npf_parse_format_spec: the parts of a specifier are read one after the  *)
(* other.  The result is a specifier and its length, 0 if it is not one.   *)

At(format, i) == IF i <= Len(format) THEN format[i] ELSE "NUL"
\* The first index from i on whose character is not in a set.
EndOf(format, i, set) == Min({j \in i..(Len(format) + 1) : At(format, j) \notin set})
Number(format, i, j) == FoldLeft(LAMBDA n, c : 10 * n + DigitValue(c), 0, SubSeq(format, i, j - 1))

ParseFlags(format) ==
    LET end == EndOf(format, 2, {"-", "0", "+", " "})
        seen == ToSet(SubSeq(format, 2, end - 1))
    IN [end |-> end, left_justified |-> "-" \in seen, leading_zero_pad |-> "0" \in seen,
        prepend |-> CASE "+" \in seen -> <<"+">> [] " " \in seen -> <<" ">> [] OTHER -> <<>>]

\* A field width or a precision: a star, digits, or nothing.
ParseWidth(format, i) ==
    LET end == EndOf(format, i, Digits) IN
    IF At(format, i) = "*" THEN [end |-> i + 1, opt |-> "STAR", n |-> 0]
    ELSE [end |-> end, opt |-> IF end > i THEN "LITERAL" ELSE "NONE", n |-> Number(format, i, end)]

\* A precision may have no digits; a negative one counts as none.
ParsePrecision(format, i) ==
    LET minus == At(format, i + 1) = "-"
        from  == IF minus THEN i + 2 ELSE i + 1
        end   == EndOf(format, from, Digits)
    IN CASE At(format, i) # "." -> [end |-> i, opt |-> "NONE", n |-> 0]
         [] At(format, i + 1) = "*" -> [end |-> i + 2, opt |-> "STAR", n |-> 0]
         [] OTHER -> [end |-> end, opt |-> IF minus THEN "NONE" ELSE "LITERAL", n |-> Number(format, from, end)]

ParseLength(format, i) ==
    CASE At(format, i) = "l" /\ At(format, i + 1) = "l" -> [end |-> i + 2, long |-> TRUE]
      [] At(format, i) \in {"l", "j", "z", "t"}         -> [end |-> i + 1, long |-> TRUE]
      [] OTHER                                          -> [end |-> i, long |-> FALSE]

Conversions == {"%", "c", "s", "i", "d", "o", "u", "x", "X", "p", "b", "B"}

npf_parse_format_spec(format) ==
    LET flags == ParseFlags(format)
        width == ParseWidth(format, flags.end)
        prec  == ParsePrecision(format, width.end)
        len   == ParseLength(format, prec.end)
        conv  == At(format, len.end)
    IN [length |-> IF conv \in Conversions THEN len.end ELSE 0,
        left_justified |-> flags.left_justified, leading_zero_pad |-> flags.leading_zero_pad,
        prepend |-> flags.prepend,
        field_width_opt |-> width.opt, field_width |-> width.n, prec_opt |-> prec.opt, prec |-> prec.n,
        long |-> len.long, conv_spec |-> conv]

----------------------------------------------------------------------------
(* npf_vpprintf: one specifier and its argument.                           *)

Signed == {"d", "i"}
Numeric == {"d", "i", "o", "u", "x", "X"}        \* the ones whose '0' a precision cancels

\* Star arguments replace what was parsed.
StarWidth(fs, star) ==
    IF fs.field_width_opt # "STAR" THEN fs
    ELSE [fs EXCEPT !.field_width = IF star < 0 THEN -star ELSE star,
                    !.left_justified = @ \/ star < 0]
StarPrecision(fs, star) ==
    CASE fs.prec_opt # "STAR" -> fs
      [] star < 0 -> [fs EXCEPT !.prec = 0, !.prec_opt = "NONE"]
      [] OTHER    -> [fs EXCEPT !.prec = star]

\* A pointer is printed with all its digits; a precision cancels '0'.
DefaultPrecision(fs) ==
    IF fs.prec_opt = "NONE" /\ fs.conv_spec = "p" THEN [fs EXCEPT !.prec = (LongBits + 3) \div 4] ELSE fs
\* Mutant: a precision does not cancel '0'.
CancelZero_Not(fs) == fs

CancelZero(fs) ==
    IF fs.prec_opt # "NONE" /\ fs.conv_spec \in Numeric THEN [fs EXCEPT !.leading_zero_pad = FALSE] ELSE fs

\* NPF_EXTRACT: the bits of an argument that its type has.
Bits(fs) == IF fs.long \/ fs.conv_spec = "p" THEN LongBits ELSE IntBits
Extract(fs, arg) ==
    LET low == arg % 2^Bits(fs) IN
    IF fs.conv_spec \in Signed /\ low >= 2^(Bits(fs) - 1) THEN low - 2^Bits(fs) ELSE low

\* The digits of a number, last one first; at least one.
npf_utoa_rev(value, base, digits) ==
    LET rev[v \in 0..value] ==
            <<digits[(v % base) + 1]>> \o (IF v \div base = 0 THEN <<>> ELSE rev[v \div base])
    IN rev[value]

\* The most significant digit of a binary number is where its length says.
npf_bin_len(u) == IF u = 0 THEN 1 ELSE Min({n \in 1..LongBits : u < 2^n})
Binary(u) == LET n == npf_bin_len(u) IN [i \in 1..n |-> Lower[((u \div 2^(n - i)) % 2) + 1]]

Base(conv) == CASE conv = "o" -> 8 [] conv \in {"d", "i", "u"} -> 10 [] OTHER -> 16

\* The absolute value is taken in the unsigned type: 0 - uval.
Magnitude(val) == IF val < 0 THEN (0 - (val % 2^LongBits)) % 2^LongBits ELSE val

Payload(fs, arg) ==
    LET val == Extract(fs, arg) IN
    CASE fs.conv_spec = "%" -> <<"%">>
      [] fs.conv_spec = "c" -> IF arg = "NUL" THEN <<>> ELSE <<arg>>
      [] fs.conv_spec = "s" -> IF fs.prec_opt = "NONE" THEN arg ELSE SubSeq(arg, 1, Min({fs.prec, Len(arg)}))
      [] val = 0 /\ fs.prec_opt # "NONE" /\ fs.prec = 0 -> <<>>
      [] fs.conv_spec \in {"b", "B"} -> Binary(val)
      [] OTHER -> Reverse(npf_utoa_rev(Magnitude(val), Base(fs.conv_spec),
                                       IF fs.conv_spec = "X" THEN Upper ELSE Lower))

SignOf(fs, arg) ==
    CASE fs.conv_spec \notin Signed -> <<>>
      [] Extract(fs, arg) < 0 -> <<"-">>
      [] OTHER -> fs.prepend

Repeat(c, n) == [i \in 1..Max({0, n}) |-> c]

\* Padding, sign, zeros of the precision and payload, in their order.
Emit(fs, sign, cbuf, zero) ==
    LET pad_c == IF fs.leading_zero_pad /\ ~fs.left_justified
                    /\ ~(fs.prec_opt # "NONE" /\ fs.prec = 0 /\ zero) THEN "0" ELSE " "
        prec_pad == IF fs.conv_spec = "s" THEN <<>> ELSE Repeat("0", fs.prec - Len(cbuf))
        field_pad == IF fs.field_width_opt = "NONE" THEN <<>>
                     ELSE Repeat(pad_c, fs.field_width - Len(cbuf) - Len(sign) - Len(prec_pad))
    IN CASE fs.left_justified -> sign \o prec_pad \o cbuf \o field_pad
         [] pad_c = "0"       -> sign \o field_pad \o prec_pad \o cbuf
         [] OTHER             -> field_pad \o sign \o prec_pad \o cbuf

Convert(spec, star_width, star_prec, arg) ==
    LET fs == CancelZero(DefaultPrecision(StarPrecision(StarWidth(spec, star_width), star_prec)))
        number == fs.conv_spec \notin {"%", "c", "s"}
    IN Emit(fs, SignOf(fs, arg), Payload(fs, arg), number /\ Extract(fs, arg) = 0)

\* The whole format.  What is no specifier is printed as it is; a specifier
\* takes its stars from the arguments, then what it prints.
npf_vpprintf(format, args) ==
    LET print[cur \in 1..(Len(format) + 1), n \in 1..(Len(args) + 1)] ==
            IF cur > Len(format) THEN <<>>
            ELSE LET spec == npf_parse_format_spec(SubSeq(format, cur, Len(format)))
                     w == IF spec.field_width_opt = "STAR" THEN 1 ELSE 0
                     p == IF spec.prec_opt = "STAR" THEN 1 ELSE 0
                     a == IF spec.conv_spec = "%" THEN 0 ELSE 1
                     Arg(i, used) == IF used = 1 THEN args[i] ELSE 0
                 IN IF format[cur] # "%" \/ spec.length = 0
                    THEN <<format[cur]>> \o print[cur + 1, n]
                    ELSE Convert(spec, Arg(n, w), Arg(n + w, p), Arg(n + w + p, a))
                         \o print[cur + spec.length, n + w + p + a]
    IN print[1, 1]

\* npf_vsnprintf: the characters that fit, the length of all of them, and
\* where the terminating 0 goes.
npf_vsnprintf(text, bufsz) ==
    [written |-> SubSeq(text, 1, Min({Len(text), bufsz})), n |-> Len(text),
     terminator |-> Min({Len(text), bufsz - 1})]

----------------------------------------------------------------------------
(* log_line: a label in its colour, the text, and the end of the line.     *)

log_buffer_size == 1024
log_colors == [DEBUG |-> 4, SUCCESS |-> 5, WARN |-> 5, ERROR |-> 5]     \* lengths
log_labels == [DEBUG |-> 3, SUCCESS |-> 2, WARN |-> 4, ERROR |-> 3]

\* Mutant: the text gets all of the buffer that is left.
log_line_NoRoom(level, text) ==
    LET ptr == 1 + log_colors[level] + log_labels[level] + 4 + 2
        remaining == log_buffer_size - ptr
        printed == npf_vsnprintf(text, remaining)
    IN [remaining |-> remaining, text |-> printed.written, last |-> ptr + printed.n + 2,
        terminator |-> ptr + printed.terminator, return |-> ptr + printed.n]

\* How many characters vsnprintf may use, how far the three last characters
\* reach, and what of the text is in the buffer.
log_line(level, text) ==
    LET ptr == 1 + log_colors[level] + log_labels[level] + 4 + 2
        remaining == log_buffer_size - ptr - 2
        printed == npf_vsnprintf(text, remaining)
    IN [remaining |-> remaining, text |-> printed.written, last |-> ptr + printed.n + 2,
        terminator |-> ptr + printed.terminator, return |-> ptr + printed.n]

----------------------------------------------------------------------------
(* What the C standard says of a conversion.                               *)

\* A number in its usual form: digit i from the left of n.
Numeral(v, base, digits) ==
    LET n == CHOOSE k \in 1..LongBits : v < base^k /\ (k = 1 \/ base^(k - 1) <= v) IN
    [i \in 1..n |-> digits[((v \div base^(n - i)) % base) + 1]]

\* The specifiers that are tried, and how they are written.  "%b" is an
\* extension, which keeps '0' where the standard's conversions drop it.
AllFormats == [left : BOOLEAN, zero : BOOLEAN, prepend : {<<>>, <<"+">>, <<" ">>, <<" ", "+">>},
               width : {-1, 1, 5}, prec : {-1, 0, 3}, star : BOOLEAN, long : BOOLEAN,
               conv : {"d", "o", "u", "x", "X", "b"}]
Formats == {f \in AllFormats : ~(f.conv = "b" /\ f.zero /\ f.prec >= 0)}
NumberText(n, star) == IF star THEN <<"*">> ELSE <<Lower[n + 1]>>
Written(f) ==
    <<"%">> \o (IF f.left THEN <<"-">> ELSE <<>>) \o (IF f.zero THEN <<"0">> ELSE <<>>) \o f.prepend
    \o (IF f.width < 0 THEN <<>> ELSE NumberText(f.width, f.star))
    \o (IF f.prec < 0 THEN <<>> ELSE <<".">> \o NumberText(f.prec, f.star))
    \o (IF f.long THEN <<"l", "l">> ELSE <<>>) \o <<f.conv>>
Arguments(f, v) == (IF f.star /\ f.width >= 0 THEN <<f.width>> ELSE <<>>)
                   \o (IF f.star /\ f.prec >= 0 THEN <<f.prec>> ELSE <<>>) \o <<v>>

\* A precision is the least number of digits, none for a 0 with precision 0;
\* '0' pads with zeros unless there is a precision or '-'.
Standard(f, v) ==
    LET base == CASE f.conv = "b" -> 2 [] f.conv = "o" -> 8 [] f.conv \in {"d", "u"} -> 10 [] OTHER -> 16
        digits == Numeral(IF v < 0 THEN -v ELSE v, base, IF f.conv = "X" THEN Upper ELSE Lower)
        body == IF v = 0 /\ f.prec = 0 THEN <<>> ELSE Repeat("0", f.prec - Len(digits)) \o digits
        sign == CASE f.conv # "d" -> <<>>
                  [] v < 0 -> <<"-">>
                  [] f.prepend = <<>> -> <<>>
                  [] OTHER -> <<IF f.prepend = <<" ">> THEN " " ELSE "+">>
        room == f.width - Len(sign) - Len(body)
    IN CASE f.left -> sign \o body \o Repeat(" ", room)
         [] f.zero /\ f.prec < 0 -> sign \o Repeat("0", room) \o body
         [] OTHER -> Repeat(" ", room) \o sign \o body

\* The numbers of a type: the corners and some in between.
Values(f) ==
    LET bits == IF f.long THEN LongBits ELSE IntBits IN
    IF f.conv = "d" THEN {-(2^(bits - 1)), -1, 0, 1, 2^(bits - 1) - 1} ELSE {0, 1, 2^(bits - 1), 2^bits - 1}

\* The texts that are tried on log_line: the shortest and those about as
\* long as its buffer.
Texts == {Repeat("x", n) : n \in {0, 1, 2} \cup ((log_buffer_size - 24)..(log_buffer_size - 10))}

=============================================================================
