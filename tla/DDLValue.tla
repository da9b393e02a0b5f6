------------------------------ MODULE DDLValue ------------------------------
(***************************************************************************)
(* One value on its way between a text and memory: a literal becomes an    *)
(* object of class Value (the literal parsers of code/OpenDDLParser.cpp    *)
(* and code/Value.cpp), or a client makes one through the setters; the     *)
(* exporter's writeValueType and writeValue (code/OpenDDLExport.cpp) turn  *)
(* it into text again, and so on.                                          *)
(*                                                                         *)
(* A byte has Byte values, so that the integer types can be scaled down,   *)
(* and so can a float.  A number is its integral part n and how many       *)
(* decimal places it has, without trailing zeros; which digits stand there *)
(* is left out, and so are the numbers between -1 and 0, those a double    *)
(* does not hold, and infinities.  A string is what stands in front of its *)
(* first quotation mark, told apart by n, and whether one is in it.        *)
(* No name is one of OpenDDLExport's or DDLHeader's, so that a module can  *)
(* extend all of them.                                                     *)
(***************************************************************************)
EXTENDS Integers

CONSTANTS
    Byte,       \* values a byte can have: 256, or fewer for model checking
    Precision,  \* decimal digits a float keeps for certain, and a stream writes: 6
    FloatWhole, \* the integers up to which a float holds all: 2^24
    Numbers,    \* integers a literal may stand for, or a client may set
    Wholes,     \* integral parts of the real numbers among them
    MaxPlaces,  \* bound: decimal places that are told apart
    MaxTrips    \* bound: times the value is written and parsed again

ASSUME ByteAssumption == Byte \in Nat \ {0} /\ Byte % 2 = 0
ASSUME FloatAssumption ==
    /\ Precision \in Nat \ {0} /\ FloatWhole \in Nat \ {0} /\ 10 ^ Precision <= FloatWhole
    /\ MaxPlaces \in Nat /\ Precision <= MaxPlaces
ASSUME NumbersAssumption == Numbers \subseteq Int /\ Wholes \subseteq Int /\ MaxTrips \in Nat

Signed   == {"int8", "int16", "int32", "int64"}
Unsigned == {"unsigned_int8", "unsigned_int16", "unsigned_int32", "unsigned_int64"}
Integral == Signed \cup Unsigned
Real     == {"float", "double"}

\* What a list is declared as; the value of a property has no declared type.
Type == Integral \cup Real \cup {"bool", "half", "string", "ref", "property"}

\* "dec" 12, "real" 1.5, "exp" 1.5e+06 with one digit in front of the point, "word"
\* any other; rest is the number of decimal places, and not 0 for a string in which
\* a quotation mark stands.
Literal == [form : {"dec", "hex", "real", "exp", "string", "word"}, n : Int, rest : Nat]

VARIABLES
    type,       \* the declared type
    literal,    \* the text of the value
    value,      \* the Value object, Nothing for nullptr
    trips,      \* times it was written, for MaxTrips
    stage       \* "start", "text", "value", or "dropped": the text made no value

valueVars == <<type, literal, value, trips, stage>>

Nothing == [type |-> "none", n |-> 0, rest |-> 0]

-----------------------------------------------------------------------------
\* Integers: Size is what allocPrimData sets m_size to.
Size == [int8 |-> 1, int16 |-> 2, int32 |-> 4, int64 |-> 8, unsigned_int8 |-> 1,
         unsigned_int16 |-> 2, unsigned_int32 |-> 4, unsigned_int64 |-> 8]

\* How many numbers two, four and eight bytes tell apart, and a type
Byte2 == Byte * Byte
Byte4 == Byte2 * Byte2
Byte8 == Byte4 * Byte4
Span(t) ==
    CASE Size[t] = 1 -> Byte [] Size[t] = 2 -> Byte2 [] Size[t] = 4 -> Byte4 [] OTHER -> Byte8

\* Two's complement of m numbers
Half(m) == m \div 2
Wrap(n, m) == n % m
AsSigned(n, m) == IF Wrap(n, m) < Half(m) THEN Wrap(n, m) ELSE Wrap(n, m) - m

InRange(t) ==
    IF t \in Signed THEN -Half(Span(t)) .. Half(Span(t)) - 1 ELSE 0 .. Span(t) - 1

\* atoll and strtoull stop at the limits of their types.
AtMost(n, m) == IF n > m THEN m ELSE n
Long(n)  == AtMost(n, Half(Byte8) - 1)
ULong(n) == AtMost(n, Byte8 - 1)

\* The cast to the type asked for, and what the getter of that type returns.  As
\* in the other modules, mistaken variants may come first.
CastOfLong(t, n) == IF t \in Signed THEN AsSigned(Long(n), Span(t)) ELSE Wrap(Long(n), Span(t))
Cast(t, n) == IF t \in Signed THEN AsSigned(Long(n), Span(t)) ELSE Wrap(ULong(n), Span(t))

-----------------------------------------------------------------------------
\* Real numbers, of p decimal places behind the integral part n.  What has no more
\* digits than Precision survives a float, and a stream.
Magnitude(n) == IF n < 0 THEN -n ELSE n
Short(n, p) == \E d \in 0 .. Precision - p : Magnitude(n) < 10 ^ d
Exact(n, p) == Short(n, p) \/ (p = 0 /\ Magnitude(n) <= FloatWhole)

\* Numbers that n may be rounded to: if the integral part changes, no place is left.
Near(n, width) ==
    {s \in (n - width .. n + width) \X (0 .. MaxPlaces) :
        (s[1] < 0 <=> n < 0) /\ (s[1] # n => s[2] = 0)}

\* The cast to float
Rounded(n, p) ==
    IF Exact(n, p) THEN {<<n, p>>} ELSE Near(n, 1 + Magnitude(n) \div FloatWhole)

\* operator<< rounds to its precision, and takes an exponent for what is longer.
TooLong(n) == ~Short(n, 0)
Streamed(n, p) ==
    IF Short(n, p) THEN {<<n, p>>}
    ELSE {s \in Near(n, 1 + Magnitude(n) \div (2 * 10 ^ (Precision - 1))) :
            Short(s[1], s[2]) \/ s[1] = 0 \/ (TooLong(s[1]) /\ s[2] = 0 /\ s[1] % 10 = 0)}

\* The forms of what it writes: %g takes an exponent from the fifth place on too.
StreamedForm(n, p) ==
    IF TooLong(n) THEN {"exp"}
    ELSE IF p = 0 THEN {"dec"}
    ELSE IF n = 0 /\ p > 4 THEN {"real", "exp"}
    ELSE {"real"}

-----------------------------------------------------------------------------
\* What the tests on characters say of a literal
StartsNumeric(l) == l.form \in {"dec", "hex", "real", "exp"} /\ l.n >= 0
IsInteger(l) == l.form = "dec"
IsFloat(l)   == l.form = "real"
IsHex(l)     == l.form = "hex"

\* The literal parsers: the values a text may become, Nothing for none.

\* atoll and strtoull take the digits a text begins with.
Digits(l) == IF IsHex(l) THEN {0} ELSE IF l.form = "exp" THEN 0 .. 9 ELSE {l.n}

\* parseIntegerLiteral tests one character for a digit, so it refuses a minus sign.
IntegerLiteral(t, l) ==
    IF StartsNumeric(l) THEN {[type |-> t, n |-> Cast(t, d), rest |-> 0] : d \in Digits(l)}
    ELSE {Nothing}

\* parseHexaLiteral collects the digits in an int and stores that as 64 bits.
HexaLiteral(l) ==
    [type |-> "unsigned_int64", n |-> Wrap(AsSigned(l.n, Byte4), Byte8), rest |-> 0]

\* parseFloatingLiteral: what is no double becomes a float, a half too.
FloatingLiteral(t, l) ==
    IF IsHex(l) THEN {HexaLiteral(l)}
    ELSE IF l.form \notin {"dec", "real", "exp"} THEN {Nothing}
    ELSE IF t = "double" THEN {[type |-> "double", n |-> l.n, rest |-> l.rest]}
    ELSE {[type |-> "float", n |-> s[1], rest |-> s[2]] : s \in Rounded(l.n, l.rest)}

\* parseStringLiteral stops at the first quotation mark.
StringLiteral(l) ==
    IF l.form = "string" THEN {[type |-> "string", n |-> l.n, rest |-> 0]} ELSE {Nothing}

\* parseProperty goes by the look of a literal; a hexadecimal one, or one with
\* an exponent, is taken for a reference and lost.
PropertyLiteral(l) ==
    CASE IsInteger(l)        -> IntegerLiteral("int32", l)
      [] IsFloat(l)          -> FloatingLiteral("float", l)
      [] l.form = "string"   -> StringLiteral(l)
      [] OTHER               -> {Nothing}

\* parseDataList goes by the declared type, and makes no bool.
Parsed(t, l) ==
    CASE t \in Integral          -> IntegerLiteral(t, l)
      [] t \in Real \cup {"half"} -> FloatingLiteral(t, l)
      [] t = "string"            -> StringLiteral(l)
      [] t = "property"          -> PropertyLiteral(l)
      [] OTHER                   -> {Nothing}

\* getFloat and getDouble, which returns its double through a float
GetReal(v) == IF v.type = "double" THEN Rounded(v.n, v.rest) ELSE {<<v.n, v.rest>>}

(***************************************************************************)
(* writeValue writes every integer through an int, a real through a stream *)
(* and a string as it is, between quotation marks.                         *)
(***************************************************************************)
ThroughShort(n) == AsSigned(n, Byte2)
ThroughInt(n) == AsSigned(n, Byte4)

RealText(s) == {[form |-> f, n |-> s[1], rest |-> s[2]] : f \in StreamedForm(s[1], s[2])}

WrittenText(v) ==
    CASE v.type \in Integral -> {[form |-> "dec", n |-> ThroughInt(v.n), rest |-> 0]}
      [] v.type \in Real -> UNION {UNION {RealText(s) : s \in Streamed(r[1], r[2])} : r \in GetReal(v)}
      [] v.type = "string" -> {[form |-> "string", n |-> v.n, rest |-> v.rest]}
      [] OTHER -> {[form |-> "word", n |-> v.n, rest |-> 0]}

-----------------------------------------------------------------------------
InitValue ==
    /\ type \in Type
    /\ stage = "start"
    /\ literal = [form |-> "word", n |-> 0, rest |-> 0]
    /\ value = Nothing
    /\ trips = 0

Decimals == 0 .. MaxPlaces

GivenLiterals ==
    [form : {"dec"}, n : Numbers, rest : {0}]
      \cup [form : {"hex"}, n : Numbers \cap Nat, rest : {0}]
      \cup [form : {"real", "exp"}, n : Wholes, rest : Decimals]
      \cup [form : {"string"}, n : Wholes, rest : {0, 1}]
      \cup [form : {"word"}, n : {0}, rest : {0}]

\* A text is handed over.
Give(l) ==
    /\ stage = "start"
    /\ literal' = l
    /\ stage' = "text"
    /\ UNCHANGED <<type, value, trips>>

\* allocPrimData, and the setter of the type: in a property of any of them
SetTo(t, n, r) ==
    /\ value' = [type |-> t, n |-> n, rest |-> r]
    /\ stage' = "value"
    /\ UNCHANGED <<type, literal, trips>>

Set(t) ==
    /\ stage = "start"
    /\ type \in {t, "property"}
    /\ \/ t \in Integral /\ \E n \in Numbers \cap InRange(t) : SetTo(t, n, 0)
       \/ t = "float" /\ \E n \in Wholes, p \in Decimals : \E s \in Rounded(n, p) : SetTo(t, s[1], s[2])
       \/ t = "double" /\ \E n \in Wholes, p \in Decimals : SetTo(t, n, p)
       \/ t = "string" /\ \E n \in Wholes, r \in {0, 1} : SetTo(t, n, r)
       \/ t = "bool" /\ \E n \in {0, 1} : SetTo(t, n, 0)

Parse ==
    /\ stage = "text"
    /\ \E v \in Parsed(type, literal) :
         IF v = Nothing
         THEN stage' = "dropped" /\ UNCHANGED value
         ELSE stage' = "value" /\ value' = v
    /\ UNCHANGED <<type, literal, trips>>

\* writeValueType and writeValue: a list is declared as its values' type.
Write ==
    /\ stage = "value"
    /\ trips < MaxTrips
    /\ literal' \in WrittenText(value)
    /\ type' = IF type = "property" THEN type ELSE value.type
    /\ trips' = trips + 1
    /\ stage' = "text"
    /\ UNCHANGED value

NextValue ==
    \/ \E l \in GivenLiterals : Give(l)
    \/ \E t \in Type : Set(t)
    \/ Parse
    \/ Write

ValueSpec == InitValue /\ [][NextValue]_valueVars

-----------------------------------------------------------------------------
\* Types of the variables: an integer in memory fits its type.
ValueTypeOK ==
    /\ type \in Type
    /\ literal \in Literal
    /\ value.n \in Int /\ value.rest \in Nat
    /\ value.type \in Integral => value.n \in InRange(value.type)
    /\ trips \in 0 .. MaxTrips
    /\ stage \in {"start", "text", "value", "dropped"}

\* The texts of which no value comes: a minus sign where an integer is wanted,
\* hexadecimal digits or an exponent in a property, and what is of another kind
MakesNothing(t, l) ==
    \/ l.n < 0 /\ (t \in Integral \/ (t = "property" /\ l.form = "dec"))
    \/ t = "property" /\ l.form \in {"hex", "exp"}
    \/ l.form = "string" /\ t \notin {"string", "property"}
    \/ l.form # "string" /\ t = "string"
    \/ t \in {"bool", "ref"}

SameBits(m, n, span) == (m - n) % span = 0

\* What of an integer, a hexadecimal, a real literal and a string is in a value
IntegerHeld(l, v) ==
    /\ l.n \in InRange(v.type) => v.n = l.n
    /\ l.n < Half(Byte8) => SameBits(v.n, l.n, Span(v.type))
ExponentHeld(v) == \E d \in 0 .. 9 : SameBits(v.n, d, Span(v.type))
HexaHeld(l, v) ==
    /\ v.type = "unsigned_int64"
    /\ l.n < Half(Byte4) => v.n = l.n
    /\ SameBits(v.n, l.n, Byte4)
RealHeld(l, v) ==
    /\ v.type = "double" \/ Exact(l.n, l.rest) => v.n = l.n /\ v.rest = l.rest
    /\ Magnitude(v.n - l.n) <= 1 + Magnitude(l.n) \div FloatWhole
StringHeld(l, v) == v.n = l.n /\ v.rest = 0

\* What of a literal is in the value made of it
LiteralHeld(t, l, v) ==
    /\ l.form = "string" => StringHeld(l, v)
    /\ l.form = "hex" => IF t \in Integral THEN v.n = 0 ELSE HexaHeld(l, v)
    /\ l.form \in {"dec", "real", "exp"} /\ v.type \in Real => RealHeld(l, v)
    /\ l.form = "exp" /\ v.type \notin Real => ExponentHeld(v)
    /\ l.form \in {"dec", "real"} /\ v.type \notin Real => IntegerHeld(l, v)

\* What becomes of a literal, for every declared type and every form.  One that its
\* type holds is held, other integers keep their low bits as long as 64 of them do, and
\* a real number its float's precision.  But integers below zero make no value at
\* all; a hexadecimal literal is 0 in a list of integers, and elsewhere right up to 31
\* bits only; the decimals of a real one are lost in a list of integers, and with an
\* exponent all but its first digit; a string ends at its first quotation mark.
LiteralKept ==
    /\ ValueTypeOK
    /\ stage \in {"value", "dropped"} /\ trips = 0 /\ literal.form # "word" =>
         /\ stage = "dropped" <=> MakesNothing(type, literal)
         /\ stage = "value" =>
              value.type = type \/ type \in {"half", "property"} \/ literal.form = "hex"
         /\ stage = "value" => LiteralHeld(type, literal, value)

\* Values whose text says all of them: integers an int holds and no minus sign spoils,
\* strings without a quotation mark, and real numbers of a float's precision; in a
\* property those a list of int32 or float would hold, real ones with decimals
Plain(t, v) ==
    \/ v.type \in Integral /\ v.n \in 0 .. Half(Byte4) - 1
         /\ (t = "property" => v.type = "int32")
    \/ v.type = "string" /\ v.rest = 0
    \/ v.type \in Real /\ Short(v.n, v.rest)
         /\ (t = "property" => v.type = "float" /\ v.rest \in 1 .. 4)

\* What writeValue writes of such a value, the parser reads back as the same value,
\* in a list of its type and, where it has one, in a property.
WrittenReadsBack ==
    [][stage = "value" /\ stage' = "text" /\ Plain(type, value)
         => Parsed(type', literal') = {value}]_valueVars
=============================================================================
