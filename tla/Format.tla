------------------------------- MODULE Format -------------------------------
(***************************************************************************)
(* stream_vprintf (kernel/io/stream.c): the machine that reads a format    *)
(* string, with one action per label of the code, and the conversions of   *)
(* numbers to digits.  A number has the width its length modifier says;    *)
(* the divisor of a conversion has the width of ULONG, WordMod values.     *)
(* The stream takes Room characters and then reports an error.             *)
(***************************************************************************)
EXTENDS Integers, Sequences, SequencesExt

CONSTANTS
    WordMod,     \* 2^32 in the code: values of int, long and size_t
    Formats,     \* format strings, sequences of items
    Values,      \* integers passed as arguments
    Strings,     \* strings passed as arguments
    NullString,  \* the null pointer passed as a string
    Rooms        \* numbers of characters a stream takes

FormatAssumption == WordMod \in Nat \ {0} /\ Values \subseteq Int /\ NullString \notin Strings

VARIABLES format, arg, room, state, fmt, flags, minwidth, padchar, lenmod, out, ret

input == <<format, arg, room>>
directive == <<flags, minwidth, padchar, lenmod>>
vars == <<input, state, fmt, directive, out, ret>>

Digit == <<"0", "1", "2", "3", "4", "5", "6", "7", "8", "9", "a", "b", "c", "d", "e", "f">>
DIGIT == <<"0", "1", "2", "3", "4", "5", "6", "7", "8", "9", "A", "B", "C", "D", "E", "F">>
DecimalDigits == {Digit[i] : i \in 1 .. 10}
ValueOf(c) == (CHOOSE i \in 1 .. 10 : Digit[i] = c) - 1

Wide == {"ll", "j"}

(***************************************************************************)
(* A format string is spelled from items: plain text, directives, and one  *)
(* that the end of the string cuts short.                                  *)
(***************************************************************************)
Spell(item) ==
    CASE item.kind = "text" -> <<item.char>>
      [] item.kind = "cut" -> <<"%", "0">>
      [] item.kind = "directive" ->
            <<"%">> \o (IF item.alt THEN <<"#">> ELSE <<>>) \o (IF item.zero THEN <<"0">> ELSE <<>>)
            \o item.width \o item.mod \o <<item.conv>>

Directives(f) == {i \in DOMAIN f : f[i].kind = "directive"}
IsWide(item) == item.mod \in {<<"l", "l">>, <<"j">>}

\* The caller passes what every directive asks for.
Bound(item) == IF IsWide(item) THEN WordMod * WordMod ELSE IF "h" \in Range(item.mod) THEN 16 ELSE WordMod
Fits(item, v) ==
    IF item.conv = "d" THEN -(Bound(item) \div 2) < v /\ v < Bound(item) \div 2
    ELSE 0 <= v /\ v < Bound(item)
Arguments(f) ==
    IF \E i \in Directives(f) : f[i].conv = "s" THEN [text : Strings \cup {NullString}]
    ELSE [number : {v \in Values : \A i \in Directives(f) : Fits(f[i], v)}]

Init ==
    /\ format \in Formats /\ room \in Rooms /\ arg \in Arguments(format)
    /\ state = "percentorchar" /\ fmt = FlattenSeq([i \in DOMAIN format |-> Spell(format[i])])
    /\ flags = {} /\ minwidth = 0 /\ padchar = " " /\ lenmod = "int"
    /\ out = <<>> /\ ret = 0

(***************************************************************************)
(* Digits.  The first loop finds the power of the base that divides the    *)
(* value, cut to ULONG, the second prints a digit for each power.          *)
(***************************************************************************)
Power[base \in {10, 16}, n \in 0 .. 32] == IF n = 0 THEN 1 ELSE base * Power[base, n - 1]

\* Fault: one step short when the value is a power of the base.
DivisorExponent_strict(i, base) ==
    CHOOSE n \in 0 .. 32 :
        /\ i % WordMod <= Power[base, n + 1]
        /\ \A m \in 0 .. n - 1 : Power[base, m + 1] < i % WordMod

DivisorExponent(i, base) ==
    CHOOSE n \in 0 .. 32 :
        /\ i % WordMod < Power[base, n + 1]
        /\ \A m \in 0 .. n - 1 : Power[base, m + 1] <= i % WordMod

PrintDigits(i, base, digits) ==
    LET n == DivisorExponent(i, base)
    IN  [k \in 1 .. n + 1 |-> digits[((i \div Power[base, n + 1 - k]) % base) + 1]]

measure_dec_unsigned(i) == DivisorExponent(i, 10) + 1
measurehex(i) == DivisorExponent(i, 16) + 1
measure_dec_signed(i) == IF i < 0 THEN 1 + measure_dec_unsigned(-i) ELSE measure_dec_unsigned(i)

print_dec_unsigned(i) == PrintDigits(i, 10, Digit)
print_dec_signed(i) == IF i < 0 THEN <<"-">> \o print_dec_unsigned(-i) ELSE print_dec_unsigned(i)
print_hex(i, uppercase) == PrintDigits(i, 16, IF uppercase THEN DIGIT ELSE Digit)

(***************************************************************************)
(* Output.  Every stream_put_char that fails ends stream_vprintf.          *)
(***************************************************************************)
Emit(chars, next) ==
    /\ out' = SubSeq(out \o chars, 1, IF Len(out \o chars) <= room THEN Len(out \o chars) ELSE room)
    /\ IF Len(out \o chars) <= room
       THEN ret' = ret + Len(chars) /\ state' = next
       ELSE ret' = -1 /\ state' = "done"

Padding(measureresult) ==
    IF "minwidth" \in flags /\ measureresult < minwidth
    THEN [i \in 1 .. minwidth - measureresult |-> padchar] ELSE <<>>

(***************************************************************************)
(* The labels.                                                             *)
(***************************************************************************)
At(label) == state = label /\ fmt # <<>>
end == state # "done" /\ fmt = <<>> /\ state' = "done" /\ UNCHANGED <<input, fmt, directive, out, ret>>

Plain ==
    /\ At("percentorchar") /\ Head(fmt) # "%"
    /\ Emit(<<Head(fmt)>>, "percentorchar") /\ fmt' = Tail(fmt)
    /\ UNCHANGED <<input, directive>>

Percent ==
    /\ At("percentorchar") /\ Head(fmt) = "%"
    /\ lenmod' = "int" /\ flags' = {} /\ minwidth' = 0 /\ padchar' = " "
    /\ state' = "fmtflag" /\ fmt' = Tail(fmt)
    /\ UNCHANGED <<input, out, ret>>

fmtflag ==
    /\ At("fmtflag")
    /\ \/ Head(fmt) = "#" /\ flags' = flags \cup {"alt"} /\ fmt' = Tail(fmt) /\ UNCHANGED <<padchar, state>>
       \/ Head(fmt) = "0" /\ padchar' = "0" /\ fmt' = Tail(fmt) /\ UNCHANGED <<flags, state>>
       \/ Head(fmt) \notin {"#", "0"} /\ state' = "fmtminwidth" /\ UNCHANGED <<flags, padchar, fmt>>
    /\ UNCHANGED <<input, minwidth, lenmod, out, ret>>

fmtminwidth ==
    /\ At("fmtminwidth")
    /\ IF Head(fmt) \in DecimalDigits
       THEN /\ flags' = flags \cup {"minwidth"} /\ minwidth' = minwidth * 10 + ValueOf(Head(fmt))
            /\ fmt' = Tail(fmt) /\ UNCHANGED state
       ELSE state' = "fmtlenmod" /\ UNCHANGED <<flags, minwidth, fmt>>
    /\ UNCHANGED <<input, padchar, lenmod, out, ret>>

fmtlenmod ==
    /\ At("fmtlenmod") /\ state' = "doformat"
    /\ \/ /\ Head(fmt) \in {"h", "l"}
          /\ LET double == Len(fmt) > 1 /\ fmt[2] = fmt[1]
             IN  /\ lenmod' = IF double THEN [h |-> "hh", l |-> "ll"][Head(fmt)] ELSE Head(fmt)
                 /\ fmt' = SubSeq(fmt, IF double THEN 3 ELSE 2, Len(fmt))
       \/ Head(fmt) \in {"j", "z"} /\ lenmod' = Head(fmt) /\ fmt' = Tail(fmt)
       \/ Head(fmt) \notin {"h", "l", "j", "z"} /\ UNCHANGED <<lenmod, fmt>>
    /\ UNCHANGED <<input, flags, minwidth, padchar, out, ret>>

\* va_arg reads as many words as the length modifier says.
Argument == IF lenmod \in Wide THEN arg.number
            ELSE IF arg.number < 0 THEN arg.number ELSE arg.number % WordMod

put_string == IF arg.text = NullString THEN <<"<", "n", "u", "l", "l", ">">> ELSE arg.text

Prefix(c) == IF "alt" \in flags THEN <<"0", c>> ELSE <<>>
Hex(c) ==
    Prefix(c) \o Padding(measurehex(Argument) + Len(Prefix(c))) \o print_hex(Argument, c = "X")

Converted(c) ==
    CASE c = "c" -> <<"c">>
      [] c = "s" -> put_string
      [] c = "d" -> Padding(measure_dec_signed(Argument)) \o print_dec_signed(Argument)
      [] c = "u" -> Padding(measure_dec_unsigned(Argument)) \o print_dec_unsigned(Argument)
      [] c \in {"x", "X"} -> Hex(c)
      [] c = "p" -> <<"0", "x">> \o print_hex(Argument, FALSE)
      [] OTHER -> <<c>>

doformat ==
    /\ At("doformat")
    /\ Emit(Converted(Head(fmt)), "percentorchar") /\ fmt' = Tail(fmt)
    /\ UNCHANGED <<input, directive>>

Next == end \/ Plain \/ Percent \/ fmtflag \/ fmtminwidth \/ fmtlenmod \/ doformat

Spec == Init /\ [][Next]_vars

----------------------------------------------------------------------------
(***************************************************************************)
(* What C says a directive prints: the digits of the value, padded to the  *)
(* width with spaces on the left, or with zeros after sign and prefix.     *)
(***************************************************************************)
DigitsOf(v, base, digits) ==
    LET f[n \in Nat] == IF n < base THEN <<digits[n + 1]>>
                        ELSE Append(f[n \div base], digits[(n % base) + 1])
    IN  f[v]
Width(item) == FoldLeft(LAMBDA w, c : w * 10 + ValueOf(c), 0, item.width)
Filled(n, c) == [i \in 1 .. n |-> c]
LeftPad(item, sign, digits) ==
    LET n == Width(item) - Len(sign) - Len(digits)
    IN  IF item.zero THEN sign \o Filled(n, "0") \o digits ELSE Filled(n, " ") \o sign \o digits

Number(item) ==
    CASE item.conv = "d" -> LeftPad(item, IF arg.number < 0 THEN <<"-">> ELSE <<>>,
                                    DigitsOf(IF arg.number < 0 THEN -arg.number ELSE arg.number, 10, Digit))
      [] item.conv = "u" -> LeftPad(item, <<>>, DigitsOf(arg.number, 10, Digit))
      [] item.conv \in {"x", "X"} ->
            LeftPad(item, IF item.alt THEN <<"0", item.conv>> ELSE <<>>,
                    DigitsOf(arg.number, 16, IF item.conv = "X" THEN DIGIT ELSE Digit))
      [] item.conv = "p" -> <<"0", "x">> \o DigitsOf(arg.number, 16, Digit)

Printed(item) ==
    CASE item.kind = "text" -> <<item.char>>
      [] item.kind = "cut" -> <<>>
      [] item.kind = "directive" ->
            CASE item.conv = "s" -> IF arg.text = NullString THEN <<"<", "n", "u", "l", "l", ">">> ELSE arg.text
              [] item.conv \in {"c", "%"} -> <<item.conv>>
              [] OTHER -> Number(item)

Result == FlattenSeq([i \in DOMAIN format |-> Printed(format[i])])

AsInC == IF Len(Result) <= room THEN out = Result /\ ret = Len(Result)
         ELSE out = SubSeq(Result, 1, room) /\ ret = -1

Directive(P(_)) == \A i \in Directives(format) : P(format[i])
Numeric(item) == item.conv \notin {"s", "c", "%"}
InWord == Directive(LAMBDA item : Numeric(item) => arg.number < WordMod /\ -arg.number < WordMod)
PaddedAsInC == Directive(LAMBDA item : Numeric(item) /\ item.width # <<>> =>
                   /\ item.zero => arg.number >= 0
                   /\ item.alt => item.zero)

\* stream_vprintf prints what C says and returns the number of characters, or
\* stops at the character that the stream does not take and returns the error:
\* for values that fit in ULONG and the paddings the kernel uses.
FormatExact == (state = "done" /\ InWord /\ PaddedAsInC) => AsInC

\* Values of long long and intmax_t are printed too.  They are not: the divisor
\* is an ULONG, and the digits above it are lost (stream.c:39).
LongLongExact == (state = "done" /\ PaddedAsInC) => AsInC

\* Zeros go between the sign and the digits.  They go before the sign
\* (stream.c:307).
ZerosAfterSign == (state = "done" /\ InWord) => AsInC
============================================================================
