------------------------------- MODULE Format -------------------------------
(***************************************************************************)
(* vsprintf (l_vsprintf.c), one turn of its loop at a time: an ordinary    *)
(* character, or a whole conversion specification                          *)
(* %[flags][width][.prec][h|l|L][type].  A character is a string of length *)
(* one, a text a sequence of them; a %s argument is a text, the others are *)
(* integers.                                                               *)
(***************************************************************************)
EXTENDS Integers, Sequences, FiniteSets

CONSTANTS
  WORD,            \* values of a uint32_t (2^32)
  Calls            \* bound: formats and arguments, [fmt |-> , args |-> ]

VARIABLES
  vpc,             \* "scan" or "done"
  fmt, k,          \* the format and the character looked at
  args,            \* arguments not taken yet
  str,             \* the text written
  vret,
  given,           \* history: the arguments of the call
  last             \* history: the last conversion, its argument and text

fvars == <<vpc, fmt, k, args, str, vret, given, last>>

Types == {"c", "s", "x", "d", "u"}
FlagChars == {"-", "+", " ", "#", "0"}
DigitChars == <<"0", "1", "2", "3", "4", "5", "6", "7", "8", "9",
                "A", "B", "C", "D", "E", "F">>
Digits == {DigitChars[d] : d \in 1 .. 10}
HexDigits == {DigitChars[d] : d \in 1 .. 16}
Letters == STRING \cup HexDigits \cup {" ", "+", "X"}   \* those vsprintf adds
Value(c) == CHOOSE d \in 0 .. 15 : DigitChars[d + 1] = c

At(f, j) == IF j <= Len(f) THEN f[j] ELSE "EOS"

(* The first place from j on whose character is not one of a set.          *)
Past(f, j, chars) ==
  CHOOSE e \in j .. Len(f) + 1 :
    At(f, e) \notin chars /\ \A x \in j .. e - 1 : At(f, x) \in chars

(* The number a text shows, characters that are no digits left out.        *)
ReadIn(base, chars) ==
  LET n[j \in 0 .. Len(chars)] ==
        IF j = 0 THEN 0
        ELSE IF chars[j] \in HexDigits THEN base * n[j - 1] + Value(chars[j])
        ELSE n[j - 1]
  IN  n[Len(chars)]
SkipAtoi(f, j) == ReadIn(10, SubSeq(f, j, Past(f, j, Digits) - 1))

(* The specification at x, read up to its type.  A star, for a width or a  *)
(* precision, is recognised and gives up.                                  *)
ConversionAt(f, x) ==
  LET w == Past(f, x + 1, FlagChars)
      p == Past(f, w, Digits)
      q == IF At(f, p) = "." THEN Past(f, p + 1, Digits) ELSE p
      t == IF At(f, q) \in {"h", "l", "L"} THEN q + 1 ELSE q
  IN  [flags |-> {At(f, y) : y \in x + 1 .. w - 1},
       width |-> IF p = w THEN -1 ELSE SkipAtoi(f, w),
       precision |-> IF q = p THEN -1 ELSE SkipAtoi(f, p + 1),
       star |-> At(f, w) = "*" \/ (q # p /\ At(f, p + 1) = "*"),
       type |-> At(f, t), end |-> t]
Conversion == ConversionAt(fmt, k)

(* Where conversions start among the first characters of f: at a percent   *)
(* sign behind the one before, until one has a star; and which of them     *)
(* take an argument.                                                       *)
Starts(f) ==
  LET starts[n \in 0 .. Len(f)] ==
        IF n = 0 THEN {}
        ELSE LET b == starts[n - 1]
                 free(c) == ~c.star /\ c.end < n
             IN  IF At(f, n) = "%" /\ \A x \in b : free(ConversionAt(f, x))
                 THEN b \cup {n} ELSE b
  IN  starts
Taking(f, n) == {x \in Starts(f)[n] : ConversionAt(f, x).type \in Types}

(* What vsprintf asks of its caller: each conversion has a type, and an    *)
(* argument of this type.                                                  *)
WellCalled(c) ==
  /\ c.fmt \in Seq(STRING) /\ Len(c.args) \in Nat
  /\ c.args = SubSeq(c.args, 1, Len(c.args))
  /\ \A x \in Starts(c.fmt)[Len(c.fmt)] : ConversionAt(c.fmt, x).type # "EOS"
  /\ Cardinality(Taking(c.fmt, Len(c.fmt))) <= Len(c.args)
  /\ \A x \in Taking(c.fmt, Len(c.fmt)) :
       LET a == c.args[Cardinality(Taking(c.fmt, x))]
           type == ConversionAt(c.fmt, x).type
       IN  /\ type = "c" => a \in STRING
           /\ type = "s" => a \in Seq(STRING)
           /\ type \in {"x", "d", "u"} => a \in Int

ASSUME FormatAssumption ==
  WORD \in Nat \ {0} /\ \A c \in Calls : WellCalled(c)

Rep(c, n) == [x \in 1 .. n |-> c]          \* empty for n <= 0

Numeral(num, base) ==
  LET f[n \in 0 .. num] == IF n < base THEN <<DigitChars[n + 1]>>
                      ELSE Append(f[n \div base], DigitChars[(n % base) + 1])
  IN  f[num]

Sign(flags) ==
  IF "+" \in flags THEN <<"+">> ELSE IF " " \in flags THEN <<" ">> ELSE <<>>
Prefix(base, flags) == IF "#" \in flags /\ base = 16 THEN <<"0", "X">> ELSE <<>>

(* Mutant: the prefix takes no room. *)
RoomNoPrefix(size, base, flags, body) == size - Len(Sign(flags)) - Len(body)

(* What is left of the width, and what fills it.                           *)
Room(size, base, flags, body) == size - Len(Sign(flags)) - Len(Prefix(base, flags)) - Len(body)
Layout(flags, room, head, body) ==
  IF "-" \in flags THEN head \o body \o Rep(" ", room)
  ELSE IF "0" \in flags THEN head \o Rep("0", room) \o body
  ELSE Rep(" ", room) \o head \o body

(* number: num has no sign, so that the test num < 0 never holds.          *)
Number(num, base, size, precision, flags) ==
  LET digits == Numeral(num, base)
      body == Rep("0", precision - Len(digits)) \o digits
  IN  Layout(flags, Room(size, base, flags, body), Sign(flags) \o Prefix(base, flags), body)

CharText(c, width, flags) ==
  IF "-" \in flags THEN <<c>> \o Rep(" ", width - 1) ELSE Rep(" ", width - 1) \o <<c>>

(* %s: the loop before the string stops with what is left of the width,    *)
(* and the loop after it, meant for the left-justified case, always runs.  *)
StringText(s, width, flags) ==
  LET before == IF "-" \in flags THEN 0 ELSE width - 1 - Len(s)
      left == IF "-" \in flags THEN width
              ELSE IF before > 0 THEN Len(s) ELSE width - 1
  IN  Rep(" ", before) \o s \o Rep(" ", left - 1)

NoField == [spec |-> [flags |-> {}, width |-> -1, precision |-> -1, star |-> FALSE,
                      type |-> "", end |-> 0],
            arg |-> 0, text |-> <<>>]

FormatInit ==
  /\ \E c \in Calls : fmt = c.fmt /\ args = c.args /\ given = c.args
  /\ vpc = "scan" /\ k = 1 /\ str = <<>> /\ vret = 0 /\ last = NoField

InSpec == vpc = "scan" /\ At(fmt, k) = "%"

Ordinary ==
  /\ vpc = "scan" /\ At(fmt, k) \notin {"%", "EOS"}
  /\ str' = Append(str, fmt[k]) /\ k' = k + 1
  /\ UNCHANGED <<vpc, fmt, args, vret, given, last>>

(* What every conversion does: take its argument, write its text, go on.   *)
Emit(text) ==
  /\ last' = [spec |-> Conversion, arg |-> Head(args), text |-> text]
  /\ str' = str \o text /\ args' = Tail(args) /\ k' = Conversion.end + 1
  /\ UNCHANGED <<vpc, fmt, vret, given>>

FormatChar ==
  /\ InSpec /\ ~Conversion.star /\ Conversion.type = "c"
  /\ Emit(CharText(Head(args), Conversion.width, Conversion.flags))

FormatString ==
  /\ InSpec /\ ~Conversion.star /\ Conversion.type = "s"
  /\ Emit(StringText(Head(args), Conversion.width, Conversion.flags))

FormatNumber ==
  /\ InSpec /\ ~Conversion.star /\ Conversion.type \in {"x", "d", "u"}
  /\ Emit(Number(Head(args) % WORD, IF Conversion.type = "x" THEN 16 ELSE 10,
                 Conversion.width, Conversion.precision, Conversion.flags))

(* Mutant: an unknown type takes an argument. *)
FormatUnknownTakes ==
  /\ InSpec /\ ~Conversion.star /\ Conversion.type \notin Types
  /\ args' = Tail(args) /\ k' = Conversion.end + 1
  /\ UNCHANGED <<vpc, fmt, str, vret, given, last>>

(* A type that is none of these is dropped, the second % of %% as well.    *)
FormatUnknown ==
  /\ InSpec /\ ~Conversion.star /\ Conversion.type \notin Types
  /\ k' = Conversion.end + 1
  /\ UNCHANGED <<vpc, fmt, args, str, vret, given, last>>

GiveUp ==
  /\ InSpec /\ Conversion.star
  /\ vpc' = "done" /\ vret' = 0
  /\ UNCHANGED <<fmt, k, args, str, given, last>>

Finish ==
  /\ vpc = "scan" /\ At(fmt, k) = "EOS"
  /\ vpc' = "done" /\ vret' = Len(str)
  /\ UNCHANGED <<fmt, k, args, str, given, last>>

FormatNext ==
  \/ Ordinary \/ FormatChar \/ FormatString \/ FormatNumber \/ FormatUnknown
  \/ GiveUp \/ Finish

FormatSpec == FormatInit /\ [][FormatNext]_fvars

FormatTypeOK ==
  /\ vpc \in {"scan", "done"} /\ k \in 1 .. Len(fmt) + 1
  /\ str \in Seq(Letters) /\ vret \in 0 .. Len(str) /\ last.spec.width >= -1 /\ last.spec.precision >= -1

spec == last.spec
text == last.text
IsNumber == spec.type \in {"x", "d", "u"}

(* Whatever flags, width and precision say, reading the digits of a number *)
(* field gives the argument modulo 2^32: padding neither hides nor adds a  *)
(* digit, and the prefix of %#x reads as zero.                             *)
ReadsBack ==
  IsNumber => ReadIn(IF spec.type = "x" THEN 16 ELSE 10, text) = last.arg % WORD

(* A field of %c or of a number is as wide as the format says, or as what  *)
(* must be written if that is longer: a column of them is straight.  The   *)
(* sign asked for by a flag is written for %x and %u too.                  *)
FieldWidth ==
  /\ spec.type = "c" => Len(text) = IF spec.width > 1 THEN spec.width ELSE 1
  /\ IsNumber =>
       LET d == Len(Numeral(last.arg % WORD, IF spec.type = "x" THEN 16 ELSE 10))
           least == (IF spec.precision > d THEN spec.precision ELSE d)
                    + (IF spec.flags \cap {"+", " "} # {} THEN 1 ELSE 0)
                    + (IF "#" \in spec.flags /\ spec.type = "x" THEN 2 ELSE 0)
       IN  Len(text) = IF spec.width > least THEN spec.width ELSE least

(* A %s stands whole among blanks, but not in the width asked for, which   *)
(* docs/024-printk.md:26 has as the least width of the field.  A string of *)
(* n characters in a width w takes n + w - 1 to the left, and to the right *)
(* n - 1 blanks too many follow it, or w - 2 when it fills the width       *)
(* (l_vsprintf.c:280-294).                                                 *)
StringField ==
  spec.type = "s" =>
    LET n == Len(last.arg)
        w == spec.width
        lead == IF "-" \notin spec.flags /\ w > n + 1 THEN w - 1 - n ELSE 0
        trail == IF "-" \in spec.flags THEN w - 1 ELSE IF lead > 0 THEN n - 1 ELSE w - 2
    IN  /\ Len(text) = lead + n + (IF trail > 0 THEN trail ELSE 0)
        /\ \A x \in 1 .. Len(text) :
             text[x] = IF x \in lead + 1 .. lead + n THEN last.arg[x - lead] ELSE " "

(* The flags decide which side of a number is padded, and zeros stand      *)
(* after the sign and the prefix: no blank inside or on the wrong side.    *)
(* Against docs/024-printk.md:22 zeros fill the field although a precision *)
(* is given, and against its line 17 no number is preceded by a minus: %d  *)
(* shows a negative argument as the uint32_t that number() takes it for    *)
(* (l_vsprintf.c:43, 65).                                                  *)
Justified ==
  IsNumber =>
    /\ "-" \notin spec.flags => text[Len(text)] # " "
    /\ "-" \in spec.flags /\ " " \notin spec.flags => text[1] # " "
    /\ \A x \in 1 .. Len(text), y \in 1 .. Len(text) :
         x < y /\ text[x] \notin {" "} /\ text[y] = " " =>
           \A z \in y .. Len(text) : text[z] = " "
    /\ "-" \notin spec.flags /\ "0" \in spec.flags =>
         \A x \in 2 .. Len(text) : text[x] # " "
    /\ \A x \in 1 .. Len(text) : text[x] # "-"

(* What the fields of vsprintf show, how wide they are and what fills      *)
(* them, with the places where that is not what docs/024-printk.md says.   *)
FieldLaws == FormatTypeOK /\ ReadsBack /\ FieldWidth /\ StringField /\ Justified

(* Each conversion takes one argument, the next one, and nothing else      *)
(* does, whatever the flags, the qualifier and unknown types between them: *)
(* those gone are as many as the conversions read so far that take one.    *)
TakesItsArguments ==
  LET taken == Cardinality(Taking(fmt, k - 1))
  IN  /\ args = SubSeq(given, taken + 1, Len(given))
      /\ taken > 0 => last.arg = given[taken]
=============================================================================
