----------------------------- MODULE Formatting -----------------------------
(***************************************************************************)
(* jive/formatter.h, jive/hex_formatter.h, jive/preserve_format.h.  A text *)
(* is a sequence of characters; the formatted text is what printf makes of *)
(* its arguments.  In streams a digit is its value and any other character *)
(* its code, but for the newline, whose code a digit has.                  *)
(***************************************************************************)
EXTENDS Integers, Sequences, SequencesExt, FiniteSetsExt

CONSTANTS ROW_WIDTH, NUL

\* vsnprintf: result[0 .. size - 1] becomes the text, or as much of it as fits
\* before the null character.
vsnprintf(result, size, text) ==
    [i \in DOMAIN result |->
        IF i > size \/ i > Len(text) + 1 THEN result[i]
        ELSE IF i = size \/ i = Len(text) + 1 THEN NUL
        ELSE text[i]]

\* std::string::resize
resize(s, size) == [i \in 1 .. size |-> IF i <= Len(s) THEN s[i] ELSE NUL]

TooShort(formattedCharCount, charCount) == formattedCharCount + 1 > charCount

\* vsnprintf fails where it does not return a count.
Formatter(charCount, text, fails) ==
    LET first == vsnprintf(resize(<<>>, charCount), charCount, text)
        second == vsnprintf(resize(first, Len(text) + 1), Len(text) + 1, text)
    IN  IF fails THEN "system_error"
        ELSE resize(IF TooShort(Len(text), charCount) THEN second ELSE first, Len(text))

\* The error's message is returned as if it were the text.
FastFormatter(charCount, text, fails, NDEBUG) ==
    IF fails THEN "Formatting error"
    ELSE IF ~NDEBUG /\ Len(text) > charCount THEN "logic_error"
    ELSE resize(vsnprintf(resize(<<>>, charCount), charCount, text), Len(text))

\* GetFormatterCount
GetFormatterCount(format) ==
    FoldLeft(LAMBDA s, c :
                [lastWasFormatter |-> c = "%" /\ ~s.lastWasFormatter,
                 count |-> IF c # "%" THEN s.count
                           ELSE IF s.lastWasFormatter THEN s.count - 1
                           ELSE s.count + 1],
             [lastWasFormatter |-> FALSE, count |-> 0], format).count

-----------------------------------------------------------------------------
(* Streams: the text so far and the format. *)

Space == 32
Dot == 46
Newline == -1

Digits(n, base) ==
    LET digits[k \in Nat] ==
            IF k < base THEN <<k>> ELSE Append(digits[k \div base], k % base)
    IN  digits[n]

\* Any output is filled up to the stream's width, which is then forgotten.
Filled(stream, before, digits) ==
    LET format == stream.format
        padding == [i \in 1 .. format.width - Len(before) - Len(digits) |-> format.fill]
    IN  [text |-> stream.text \o
            (CASE format.adjust = "left" -> before \o digits \o padding
               [] format.adjust = "internal" -> before \o padding \o digits
               [] format.adjust = "right" -> padding \o before \o digits),
         format |-> [format EXCEPT !.width = 0]]

\* operator<< of characters
Put(stream, characters) == Filled(stream, <<>>, characters)

\* std::setw(width) and operator<< of a number
PutNumber(stream, n, width) ==
    LET format == stream.format
        shows == format.showbase /\ format.base = 16 /\ n # 0
    IN  Filled([stream EXCEPT !.format.width = width],
               IF shows THEN <<0, 120>> ELSE <<>>, Digits(n, format.base))

Set(stream, base, fill) ==
    [stream EXCEPT !.format.base = base, !.format.fill = fill]

\* The destructor of PreserveFormat.
Restored(stream, preserved) == [stream EXCEPT !.format = preserved.format]

\* PRINT_BYTE
PrintByte(stream, byte) == PutNumber(stream, byte, 2)

\* PrintHex and PrintBytes, of at least one byte.
PrintHex(outputStream, data) ==
    LET stream == Set(outputStream, 16, 0)
        bytes == FoldLeft(LAMBDA s, byte : Put(PrintByte(s, byte), <<Space>>),
                          stream, Front(data))
    IN  Restored(PrintByte(bytes, Last(data)), outputStream)

isprint(c) == c \in 32 .. 126

GetPrintable(data) ==
    [i \in DOMAIN data |-> IF isprint(data[i]) THEN data[i] ELSE Dot]

Rows(data) ==
    [r \in 1 .. (Len(data) + ROW_WIDTH - 1) \div ROW_WIDTH |->
        SubSeq(data, (r - 1) * ROW_WIDTH + 1, Min({r * ROW_WIDTH, Len(data)}))]

Spaces(n) == [i \in 1 .. n |-> Space]

\* The rows start with their offsets; the first row in the text is the header.
PrintHexLinesWithAscii(outputStream, data) ==
    LET row(s, r) ==
            LET charCount == Len(Rows(data)[r])
                prefix == Put([s EXCEPT !.format.base = 16], <<0, 120>>)
                offset == PutNumber([Set(prefix, 16, 0) EXCEPT !.format.adjust = "right"],
                                    (r - 1) * ROW_WIDTH, 6)
            IN  Put(PrintHex(Put(offset, Spaces(3)), Rows(data)[r]),
                    Spaces(3 * (ROW_WIDTH - charCount)) \o Spaces(4)
                        \o GetPrintable(Rows(data)[r]) \o <<Newline>>)
    IN  Restored(FoldLeftDomain(LAMBDA s, r : row(s, r), outputStream, Rows(data)),
                 outputStream)

Offset == <<79, 102, 102, 115, 101, 116>>

PrintHexLines(outputStream, data) ==
    LET offsets == Set(outputStream, outputStream.format.base, Space)
        header == Put(Put(offsets, Offset), <<Newline>>)
        row(s, r) ==
            LET offset == PutNumber([Set(s, 10, Space) EXCEPT !.format.adjust = "right"],
                                    (r - 1) * ROW_WIDTH, 6)
            IN  Put(PrintHex(Put(offset, Spaces(3)), Rows(data)[r]), <<Newline>>)
    IN  Restored(FoldLeftDomain(LAMBDA s, r : row(s, r), header, Rows(data)),
                 outputStream)

-----------------------------------------------------------------------------
\* Formatter returns the whole text, whatever room the caller asked for, or
\* throws.  So does FastFormatter, in any build, for callers that leave room for
\* a null character, unless vsnprintf fails.
FormatsText(text, charCount, fails) ==
    IF fails THEN Formatter(charCount, text, fails) = "system_error"
    ELSE /\ Formatter(charCount, text, fails) = text
         /\ Len(text) < charCount => \A NDEBUG \in BOOLEAN :
                FastFormatter(charCount, text, fails, NDEBUG) = text

\* The conversions of a format: runs of an odd number of "%".
CountsFormatters(format) ==
    GetFormatterCount(format) =
        LET run(i, j) ==
                /\ \A k \in i .. j : format[k] = "%"
                /\ i = 1 \/ format[i - 1] # "%"
                /\ j = Len(format) \/ format[j + 1] # "%"
        IN  Cardinality({r \in (DOMAIN format) \X (DOMAIN format) :
                r[1] <= r[2] /\ run(r[1], r[2]) /\ (r[2] - r[1]) % 2 = 0})

\* However a caller has set its stream, all functions leave its format as it was,
\* the width for its next output too.  Bytes can be read back from a row, unless
\* the caller aligns to the left without a base.  Unless it shows the base they
\* have two digits each, at the same places in every row, behind what fills the
\* first output of the lines to the caller's width.
HexReadsBack(format, data) ==
    LET stream == [text |-> <<>>, format |-> format]
        byteAt(text, at) == 16 * text[at] + text[at + 1]
        read(numbers, c) ==
            IF c = Space THEN Append(numbers, 0)
            ELSE IF c = 120 THEN numbers
            ELSE [numbers EXCEPT ![Len(numbers)] = 16 * @ + c]
        filled(n) == Max({0, format.width - n})
        hex == PrintHex(stream, data)
        ascii == PrintHexLinesWithAscii(stream, data)
        lines == PrintHexLines(stream, data)
        length == 8 + 3 + 3 * ROW_WIDTH - 1 + 4
        rowStart(r) == filled(2) + (r - 1) * (length + ROW_WIDTH + 1)
    IN  /\ {hex.format, ascii.format, lines.format} = {format}
        /\ format.adjust # "left" \/ format.showbase =>
                FoldLeft(read, <<0>>, hex.text) = data
        /\ format.adjust # "left" /\ ~format.showbase =>
            \A i \in DOMAIN data :
                LET r == (i - 1) \div ROW_WIDTH + 1
                    column == (i - 1) % ROW_WIDTH
                IN  /\ byteAt(hex.text, 3 * i - 2) = data[i]
                    /\ byteAt(ascii.text, rowStart(r) + 12 + 3 * column) = data[i]
                    /\ ascii.text[rowStart(r) + length + column + 1]
                        = GetPrintable(data)[i]
                    /\ byteAt(lines.text, filled(6) + 7 + (r - 1) * (9 + 3 * ROW_WIDTH)
                                            + 10 + 3 * column) = data[i]
=============================================================================
