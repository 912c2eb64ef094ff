--------------------------- MODULE BalancedTernary ---------------------------
(***************************************************************************)
(* Balanced ternary data on its way from a world to a subscriber: a number,*)
(* a text or plain trits are attached to a moment (FromDecimal,            *)
(* NewBalancedTernaryFromString, AttachBalancedTernaryData), packed into   *)
(* bytes when the moment is published (TernaryToBytes), unpacked by the    *)
(* subscriber (BytesToTernary) and read as a number (ToDecimal) or a text. *)
(*                                                                         *)
(* The two loops are one action per turn.  Arithmetic is that of int64,    *)
(* with a parameter for its range, since both loops can leave it: the      *)
(* carry of FromDecimal at the largest numbers, the powers of ToDecimal    *)
(* already above two thirds of them.                                       *)
(***************************************************************************)
EXTENDS Integers, Sequences

CONSTANTS
    Half,       \* int64 is -Half .. Half-1 (2^63 in the code)
    MaxLength   \* bound: trits or characters of data that is attached as such

\* An odd power of two leaves 2 when divided by 3: the largest number that needs
\* a carry is Half-3, whatever the width.
ASSUME WidthAssumption == Half \in Nat /\ Half > 3 /\ Half % 3 = 2

ASSUME LengthAssumption == MaxLength \in Nat

VARIABLES
    pc,         \* where the data is
    source,     \* history: how it was attached
    n,          \* the argument of FromDecimal
    abs,        \* its local of that name
    digits,     \* result of FromDecimal, then the data of the moment
    text,       \* history: the text it was made from
    bytes,      \* the binary data of the published moment
    received,   \* what the subscriber unpacked
    i,          \* ToDecimal: digits still to add
    result,     \* ToDecimal: the sum
    power,      \* ToDecimal: the weight of the next digit
    sums,       \* history: the exact sum of the first digits FromDecimal found
    places      \* history: their exact weights

number == <<n, abs>>
reading == <<i, result, power>>
exact == <<sums, places>>
vars == <<pc, source, text, bytes, received, digits, number, reading, exact>>

Int64 == -Half .. Half - 1
Wrap(x) == ((x + Half) % (2 * Half)) - Half

Trit == {-1, 0, 1}
Char == {"T", "-", "t", "0", "1", "other"}
AtMost(S, length) == UNION { [1 .. k -> S] : k \in 0 .. length }

-----------------------------------------------------------------------------
(* The pure functions. *)

\* The division of Go rounds towards zero.
Third(x) == IF x >= 0 THEN x \div 3 ELSE -((-x) \div 3)

\* The digit -1 only as a dash.
TritOfDashes(c) == CASE c = "-" -> -1
                     [] c = "1" -> 1
                     [] OTHER -> 0

TritOf(c) == CASE c \in {"T", "-", "t"} -> -1
               [] c = "1" -> 1
               [] OTHER -> 0

NewBalancedTernaryFromString(s) == [k \in 1 .. Len(s) |-> TritOf(s[k])]

String(trits) ==
    [k \in 1 .. Len(trits) |-> CASE trits[k] = -1 -> "T"
                                 [] trits[k] = 1 -> "1"
                                 [] OTHER -> "0"]

\* The digits of a loop that found them backwards, with the sign of the number.
Signed(sign, found) == [k \in 1 .. Len(found) |-> sign * found[Len(found) + 1 - k]]

\* Two bits of a trit; anything that is not one counts as 0.
Bits(trit) == CASE trit = -1 -> 0
                [] trit = 1 -> 2
                [] OTHER -> 1

\* The trit of two bits; the pattern that is never written counts as 0.
TritFromBits(bits) == CASE bits = 0 -> -1
                        [] bits = 2 -> 1
                        [] OTHER -> 0

\* What the k-th trit contributes to its byte; there are zeros after the last.
BitsAt(trits, k) == IF k <= Len(trits) THEN Bits(trits[k]) ELSE 0

\* The number of bytes rounded down.
TernaryToBytesShort(trits) ==
    [b \in 1 .. Len(trits) \div 4 |->
        BitsAt(trits, 4 * b - 3) + 4 * BitsAt(trits, 4 * b - 2)
        + 16 * BitsAt(trits, 4 * b - 1) + 64 * BitsAt(trits, 4 * b)]

\* Four trits to a byte, the first in the lowest bits.
TernaryToBytes(trits) ==
    [b \in 1 .. (Len(trits) + 3) \div 4 |->
        BitsAt(trits, 4 * b - 3) + 4 * BitsAt(trits, 4 * b - 2)
        + 16 * BitsAt(trits, 4 * b - 1) + 64 * BitsAt(trits, 4 * b)]

Shift == <<1, 4, 16, 64>>

\* Trits asked for beyond the bytes are 0.
BytesToTernary(packed, numTrits) ==
    IF packed = <<>> THEN <<>>
    ELSE [k \in 1 .. numTrits |->
            IF (k - 1) \div 4 < Len(packed)
            THEN TritFromBits((packed[((k - 1) \div 4) + 1] \div Shift[((k - 1) % 4) + 1]) % 4)
            ELSE 0]

-----------------------------------------------------------------------------
(* The states. *)

Init ==
    /\ pc = "ready"
    /\ source = "none"
    /\ n = 0 /\ abs = 0
    /\ digits = <<>> /\ text = <<>> /\ bytes = <<>> /\ received = <<>>
    /\ i = 0 /\ result = 0 /\ power = 1
    /\ sums = <<0>> /\ places = <<1>>

Last(s) == s[Len(s)]

-----------------------------------------------------------------------------
(* Attaching. *)

\* FromDecimal before its loop: the absolute value of the smallest number is
\* that number itself.
AttachBalancedTernaryFromDecimal ==
    /\ pc = "ready"
    /\ source' = "number"
    /\ n' \in Int64
    /\ IF n' = 0
       THEN /\ pc' = "attached"
            /\ digits' = <<0>>
            /\ abs' = 0
            /\ sums' = <<0, 0>> /\ places' = <<1, 3>>
       ELSE /\ pc' = "dividing"
            /\ digits' = <<>>
            /\ abs' = Wrap(IF n' < 0 THEN -n' ELSE n')
            /\ UNCHANGED exact
    /\ UNCHANGED <<text, bytes, received, reading>>

Found(digit, rest) ==
    /\ digits' = Append(digits, digit)
    /\ abs' = Third(rest)
    /\ sums' = Append(sums, Last(sums) + digit * Last(places))
    /\ places' = Append(places, 3 * Last(places))
    /\ UNCHANGED <<pc, source, n, text, bytes, received, reading>>

\* Without the carry that a digit of -1 calls for.
DivideForgetCarry ==
    /\ pc = "dividing" /\ abs > 0
    /\ \/ abs % 3 \in {0, 1} /\ Found(abs % 3, abs)
       \/ abs % 3 = 2 /\ Found(-1, abs)

\* A turn of the loop of FromDecimal.
Divide ==
    /\ pc = "dividing" /\ abs > 0
    /\ \/ abs % 3 = 0 /\ Found(0, abs)
       \/ abs % 3 = 1 /\ Found(1, abs)
       \/ abs % 3 = 2 /\ Found(-1, Wrap(abs + 3))

\* The end of it, with the sign and the order put right.
FromDecimalEnd ==
    /\ pc = "dividing" /\ abs <= 0
    /\ digits' = Signed(IF n < 0 THEN -1 ELSE 1, digits)
    /\ pc' = "attached"
    /\ UNCHANGED <<source, number, text, bytes, received, reading, exact>>

AttachBalancedTernaryFromString ==
    /\ pc = "ready"
    /\ source' = "text"
    /\ text' \in AtMost(Char, MaxLength)
    /\ digits' = NewBalancedTernaryFromString(text')
    /\ pc' = "attached"
    /\ UNCHANGED <<number, bytes, received, reading, exact>>

\* The type is a slice of int8, so that values that are no trits can be attached.
AttachBalancedTernaryData ==
    /\ pc = "ready"
    /\ source' = "data"
    /\ digits' \in AtMost(Trit \cup {2}, MaxLength)
    /\ pc' = "attached"
    /\ UNCHANGED <<number, text, bytes, received, reading, exact>>

-----------------------------------------------------------------------------
(* Publishing and reading. *)

\* Without binary data of its own, a moment gets that of its trits.
PublishWorldMoment ==
    /\ pc = "attached"
    /\ bytes' = TernaryToBytes(digits)
    /\ pc' = "published"
    /\ UNCHANGED <<source, digits, text, received, number, reading, exact>>

\* The message does not say how many trits there were: a subscriber knows, or
\* asks for all that the bytes could hold.
Receive ==
    /\ pc = "published"
    /\ \E numTrits \in {Len(digits), 4 * Len(bytes)} :
        /\ received' = BytesToTernary(bytes, numTrits)
        /\ i' = Len(received')
    /\ pc' = "reading"
    /\ UNCHANGED <<source, digits, text, bytes, number, result, power, exact>>

\* The weight is not multiplied when the digit is 0.
AddUnweighted ==
    /\ pc = "reading" /\ i > 0
    /\ result' = Wrap(result + Wrap(received[i] * power))
    /\ power' = IF received[i] = 0 THEN power ELSE Wrap(power * 3)
    /\ i' = i - 1
    /\ UNCHANGED <<pc, source, digits, text, bytes, received, number, exact>>

\* A turn of the loop of ToDecimal.
ToDecimal ==
    /\ pc = "reading" /\ i > 0
    /\ result' = Wrap(result + Wrap(received[i] * power))
    /\ power' = Wrap(power * 3)
    /\ i' = i - 1
    /\ UNCHANGED <<pc, source, digits, text, bytes, received, number, exact>>

Next ==
    \/ AttachBalancedTernaryFromDecimal \/ Divide \/ FromDecimalEnd
    \/ AttachBalancedTernaryFromString \/ AttachBalancedTernaryData
    \/ PublishWorldMoment \/ Receive \/ ToDecimal

Spec == Init /\ [][Next]_vars

-----------------------------------------------------------------------------
(* Properties *)

Magnitude == IF n < 0 THEN -n ELSE n

\* All numbers but three: the carry of Half-3 overflows, and the smallest number
\* has no absolute value.
Convertible == n # -Half /\ Magnitude # Half - 3

\* A number attached with FromDecimal is the number a subscriber who knows how
\* many trits there are reads with ToDecimal, through the packing, and although
\* for large numbers the sum and the weights of ToDecimal leave the range of
\* int64 on the way and come back; the three numbers are the only ones lost.
NumberArrives ==
    pc = "reading" /\ i = 0 /\ source = "number" /\ Len(received) = Len(digits) =>
        (result = n <=> Convertible)

\* Packing keeps every trit at its place, whatever the length and however many
\* trits are asked for; what is not a trit arrives as 0.
TritsSurvive ==
    pc = "reading" =>
        \A k \in DOMAIN digits :
            /\ k \in DOMAIN received
            /\ received[k] = IF digits[k] \in Trit THEN digits[k] ELSE 0

\* A text of T, 0 and 1 comes back from the subscriber's String as it was.
TextArrives ==
    pc = "reading" /\ source = "text" /\ text \in Seq({"T", "0", "1"})
    /\ Len(received) = Len(digits) => String(received) = text

-----------------------------------------------------------------------------
(* The inductive invariant behind NumberArrives and TritsSurvive. *)

TypeOK ==
    /\ pc \in {"ready", "dividing", "attached", "published", "reading"}
    /\ source \in {"none", "number", "text", "data"}
    /\ n \in Int64 /\ abs \in Int64 /\ text \in Seq(Char)
    /\ digits \in Seq(Int) /\ received \in Seq(Trit)
    /\ i \in 0 .. Len(received)
    /\ result \in Int64 /\ power \in Int64
    /\ sums \in Seq(Int) /\ places \in Seq(Int)

Congruent(a, b) == (a - b) % (2 * Half) = 0

Sign == IF n < 0 THEN -1 ELSE 1

\* The k-th digit FromDecimal found, wherever it is now.
DigitFound(k) == IF pc = "dividing" THEN digits[k] ELSE Sign * digits[Len(digits) + 1 - k]

\* The history is the exact worth of the digits.
SumsExact ==
    source = "number" =>
        /\ Len(sums) = Len(digits) + 1 /\ Len(places) = Len(digits) + 1
        /\ sums[1] = 0 /\ places[1] = 1
        /\ \A k \in DOMAIN digits :
            /\ DigitFound(k) \in Trit
            /\ sums[k + 1] = sums[k] + DigitFound(k) * places[k]
            /\ places[k + 1] = 3 * places[k]

\* What was found and what is left make up the number, and no carry is about to
\* overflow.
NothingLost ==
    source = "number" /\ Convertible =>
        /\ abs >= 0 /\ abs # Half - 3
        /\ pc # "dividing" => abs = 0
        /\ Last(sums) + Last(places) * abs = Magnitude

\* FromDecimal has not taken a turn, or has stopped after one turn at most.
TooLarge ==
    source = "number" /\ ~Convertible =>
        \/ /\ pc = "dividing" /\ n # -Half /\ abs = Half - 3
           /\ Last(sums) = 0 /\ Last(places) = 1
        \/ abs <= 0 /\ Last(sums) \in {-1, 0}

Carried ==
    /\ pc = "ready" => source = "none" /\ sums = <<0>> /\ places = <<1>>
    /\ pc = "dividing" => source = "number"
    /\ source = "text" => digits = NewBalancedTernaryFromString(text)
    /\ pc \in {"published", "reading"} => bytes = TernaryToBytes(digits)
    /\ pc = "reading" => /\ received = BytesToTernary(bytes, Len(received))
                         /\ Len(received) >= Len(digits)

\* ToDecimal is as far as the exact sums, up to what wraps.
ReadSoFar ==
    IF pc = "reading"
    THEN source = "number" /\ Len(received) = Len(digits) =>
            LET k == Len(digits) - i + 1
            IN  Congruent(result, Sign * sums[k]) /\ Congruent(power, places[k])
    ELSE i = 0 /\ result = 0 /\ power = 1

IInv == TypeOK /\ SumsExact /\ NothingLost /\ TooLarge /\ Carried /\ ReadSoFar
=============================================================================
