------------------------------- MODULE Numbers -------------------------------
(***************************************************************************)
(* Numbers and their texts (kernel/stdfunc.c): convert, which printf and   *)
(* sprintf use for %d and %x, and the functions that the commands read     *)
(* their arguments with.  A text is a sequence of characters; the widths   *)
(* of the types are constants.                                             *)
(*                                                                         *)
(* A definition whose name has an underscore and a few words after that of *)
(* another definition is that definition with a plausible mistake: the     *)
(* properties that use it must reject it.                                  *)
(***************************************************************************)
EXTENDS Integers, SequencesExt

CONSTANTS
    BYTES,      \* values of a BYTE (2^8)
    UINTS,      \* values of an unsigned int and an unsigned long (2^32)
    QWORDS      \* values of a QWORD (2^64)

ASSUME NumbersAssumption ==
    /\ BYTES \in Nat \ {0} /\ UINTS \in Nat \ {0} /\ QWORDS \in Nat \ {0}
    /\ BYTES <= UINTS /\ UINTS <= QWORDS

Representation == <<"0", "1", "2", "3", "4", "5", "6", "7", "8", "9",
                    "A", "B", "C", "D", "E", "F">>
LowerCase == <<"a", "b", "c", "d", "e", "f">>

-----------------------------------------------------------------------------
(***************************************************************************)
(* Printing.                                                               *)
(***************************************************************************)
(* The digits of the quotients by the base, down to one below it.          *)
convert(num, base) ==
    LET digits[n \in 0 .. num] ==
          (IF n < base THEN <<>> ELSE digits[n \div base])
             \o <<Representation[(n % base) + 1]>>
    IN  digits[num]

(* What %d and %x print takes an unsigned int from the arguments; a number *)
(* below 0 is printed as a large one, because c < 0 is never true.         *)
PrintDecimal(c) == convert(c % UINTS, 10)
PrintHexa(c) == <<"0", "x">> \o convert(c % UINTS, 16)

Conversions == {"%c", "%d", "%o", "%x", "%s"}

Converted(conversion, arg) ==
    CASE conversion = "%c" -> <<arg>>
      [] conversion = "%d" -> PrintDecimal(arg)
      [] conversion = "%o" -> convert(arg % UINTS, 8)
      [] conversion = "%x" -> PrintHexa(arg)
      [] conversion = "%s" -> arg

(* A format is a sequence of characters and conversions; every conversion  *)
(* takes the next argument.                                                *)
Formatted(format, args) ==
    LET done[k \in 0 .. Len(format)] ==
          IF k = 0 THEN [text |-> <<>>, args |-> args]
          ELSE LET last == done[k - 1] IN
               IF format[k] \in Conversions
               THEN [text |-> last.text \o Converted(format[k], Head(last.args)),
                     args |-> Tail(last.args)]
               ELSE [last EXCEPT !.text = Append(@, format[k])]
    IN  done[Len(format)].text

(* What dst holds after it.  Nothing ends a text whose last conversion is  *)
(* of a single character: what dst held behind it stays.                   *)
sprintf(dst, format, args) ==
    LET text == Formatted(format, args)
    IN  IF format = <<>> \/ Last(format) = "%c"
        THEN text \o SubSeq(dst, Len(text) + 1, Len(dst))
        ELSE text

-----------------------------------------------------------------------------
(***************************************************************************)
(* Reading.                                                                *)
(***************************************************************************)
isDigit(c) == \E d \in 1 .. 10 : Representation[d] = c
Digit(c) == (CHOOSE d \in 1 .. 10 : Representation[d] = c) - 1

(* The four bits that a character stands for; of "x" its own lowest ones.  *)
Bits(c) ==
    CASE isDigit(c) -> Digit(c)
      [] \E d \in 11 .. 16 : Representation[d] = c ->
            (CHOOSE d \in 11 .. 16 : Representation[d] = c) - 1
      [] \E d \in 1 .. 6 : LowerCase[d] = c ->
            (CHOOSE d \in 1 .. 6 : LowerCase[d] = c) + 9
      [] OTHER -> 8

(* The loop over the characters: what does not fit into the type is lost.  *)
NumberIn(str, base, width) ==
    LET number[k \in 0 .. Len(str)] ==
          IF k = 0 THEN 0 ELSE (number[k - 1] * base + Bits(str[k])) % width
    IN  number[Len(str)]

AllDigits(str) == \A i \in DOMAIN str : isDigit(str[i])

(* convertToUInt, convertToULong and convertToQWord differ in the width.   *)
convertTo(str, width) == IF AllDigits(str) THEN NumberIn(str, 10, width) ELSE 0

convertToUInt(str) == convertTo(str, UINTS)
convertToULong(str) == convertTo(str, UINTS)
convertToQWord(str) == convertTo(str, QWORDS)

convertToByte_Wraps(str) == convertTo(str, BYTES)

(* A BYTE that would be too large makes it 0 at once, and so does a        *)
(* character that is no digit.                                             *)
convertToByte(str) ==
    LET Gives0(number, c) ==
          number < 0 \/ ~isDigit(c) \/ number * 10 + Digit(c) > BYTES - 1
        number[k \in 0 .. Len(str)] ==
          IF k = 0 THEN 0
          ELSE IF Gives0(number[k - 1], str[k]) THEN -1
          ELSE number[k - 1] * 10 + Digit(str[k])
    IN  IF number[Len(str)] < 0 THEN 0 ELSE number[Len(str)]

(* The first two characters are taken for "0x", whatever they are.         *)
converHexToQWORD(str) == NumberIn(SubSeq(str, 3, Len(str)), 16, QWORDS)

-----------------------------------------------------------------------------
(* What the digits of a text mean, for the properties: no width, no type.  *)
Meaning(str, base) ==
    LET value[k \in 0 .. Len(str)] ==
          IF k = 0 THEN 0 ELSE value[k - 1] * base + Bits(str[k])
    IN  value[Len(str)]
=============================================================================
