----------------------------- MODULE MCUtilities -----------------------------
(***************************************************************************)
(* The library's utilities for TLC.  They share no state, so one behaviour *)
(* is about one of them: part says which, and the others do not move.  The *)
(* functions without state are part "functions": input is what one of them *)
(* is called with.                                                         *)
(***************************************************************************)
EXTENDS Utilities, CoderUtilities, ValueUtilities

CONSTANT Parts     \* the parts that are checked

VARIABLES part, input

SystemNames == {<<"d", "/", "x", ".", "e">>}

NumberTexts == {<<0, 1>>}
StringTexts == {<<>>, <<1>>, <<1, 0, 2>>, <<1, 1, 2, 3>>}

-----------------------------------------------------------------------------
(* The functions, and what they are called with. *)

L == INSTANCE Strings
N == INSTANCE Numbers WITH INT_MAX <- 99, LLONG_MAX <- 100, ULLONG_MAX <- 201
R == INSTANCE ThreadPriority WITH minPriority <- 1, maxPriority <- 5

SeqOf(A, n) == UNION {[1 .. k -> A] : k \in 0 .. n}
IntegralType == [signed : BOOLEAN, bits : 1 .. 4]
Texts ==    \* those that NumericStringCompare is called with
    {<<>>, <<"a">>, <<"b">>, <<"0">>, <<"1">>, <<"9">>, <<"0", "1">>,
     <<"1", "0">>, <<"1", "0", "0">>, <<"a", "9">>, <<"a", "1", "0">>,
     <<"a", "0", "9">>, <<"a", "9", "a">>, <<"9", "a">>}
Memory(size) == [i \in 1 .. 4 |-> [j \in 1 .. size |-> (i + j * j) % 4]]

Input ==
    [split |->
        [s : SeqOf({"a", "b"}, 5), token : SeqOf({"a", "b"}, 2) \ {<<>>},
         limit : {-1, 0, 1, 2}],
     words |-> [s : SeqOf({"a", " ", "\n", "\f"}, 5)],
     path |-> [s : SeqOf({"/", "a", "."}, 5)],
     unique |->
        [s : {d \o b : d \in {<<>>, <<"/">>, <<"d", "/">>, <<"/", "d", ".", "/">>},
                       b \in {<<"x">>, <<"x", ".", "e">>, <<".", "e">>}},
         suffix : 0 .. 3],
     format |-> [s : SeqOf({"a", "%"}, 4), charCount : 0 .. 6, fails : BOOLEAN],
     hex |->
        [data : SeqOf({0, 10, 65, 255}, 4) \ {<<>>},
         format : [base : {10, 16}, fill : {0, 32}, width : {0, 7},
                   adjust : {"left", "right", "internal"}, showbase : BOOLEAN]],
     integer |->
        [s : SeqOf({"0", "1", "9", "-", "+", " ", "a"}, 3),
         type : {N!Signed(7), N!Unsigned(15), N!Signed(31), N!Unsigned(31)},
         NDEBUG : BOOLEAN],
     version |->
        [v : SeqOf({2, 10}, 3) \ SeqOf({2, 10}, 2),
         w : SeqOf({2, 10}, 3) \ SeqOf({2, 10}, 2),
         octets : {<<0, 10, 2, 15>>, <<1, 1, 1, 1>>}],
     texts |-> [s : Texts, t : Texts, u : Texts],
     overflow |-> [n : -8 .. 15, source : IntegralType, target : IntegralType],
     scale |->
        [scale : (-24 .. 24) \cup {NaN}, n : -8 .. 15, target : IntegralType],
     time |-> [t : -90 .. 90, other : -10 .. 65],
     order |->
        [size : {1, 2, 4, 8}, first : 1 .. 3, count : 0 .. 2, out : 1 .. 4,
         format : {"big", "little"}, floating : BOOLEAN,
         sender : {"big", "little"}, receiver : {"big", "little"}],
     priority |-> [offset : -4 .. 1, other : -4 .. 1]]

Call ==
    /\ input.of = "none"
    /\ \E of \in DOMAIN Input :
        \E x \in Input[of] : input' = [of |-> of, with |-> x]

-----------------------------------------------------------------------------
Others(p) ==
    /\ UNCHANGED part
    /\ p # "functions" => UNCHANGED input
    /\ p # "transaction" => UNCHANGED transaction
    /\ p # "scopeFlag" => UNCHANGED scopeFlag
    /\ p # "insertionMap" => UNCHANGED insertionMap
    /\ p # "averagingWindow" => UNCHANGED averagingWindow
    /\ p # "buffer" => UNCHANGED buffer
    /\ p # "path" => UNCHANGED path
    /\ p # "formatParagraph" => UNCHANGED formatParagraph
    /\ p # "huffman" => UNCHANGED huffman
    /\ p # "clock" => UNCHANGED clock
    /\ p # "binaryIo" => UNCHANGED binaryIo
    /\ p # "clientWrite" => UNCHANGED clientWrite

\* Parts that do not move start in one state.
Init ==
    /\ part \in Parts /\ input = [of |-> "none"]
    /\ T!Init /\ F!Init /\ M!Init /\ W!Init /\ B!Init /\ P!Init /\ G!Init
    /\ H!Init /\ C!Init /\ I!Init /\ K!Init
    /\ part # "averagingWindow" => ~isFull_
    /\ part # "clock" => system = Second

Next ==
    \/ part = "transaction" /\ T!Next /\ Others("transaction")
    \/ part = "scopeFlag" /\ F!Next /\ Others("scopeFlag")
    \/ part = "insertionMap" /\ M!Next /\ Others("insertionMap")
    \/ part = "averagingWindow" /\ W!Next /\ Others("averagingWindow")
    \/ part = "buffer" /\ B!Next /\ Others("buffer")
    \/ part = "path" /\ P!Next /\ Others("path")
    \/ part = "formatParagraph" /\ G!Next /\ Others("formatParagraph")
    \/ part = "huffman" /\ H!Next /\ Others("huffman")
    \/ part = "clock" /\ C!Next /\ Others("clock")
    \/ part = "binaryIo" /\ I!Next /\ Others("binaryIo")
    \/ part = "clientWrite" /\ K!Next /\ Others("clientWrite")
    \/ part = "functions" /\ Call /\ Others("functions")

vars == <<part, input, transaction, scopeFlag, insertionMap, averagingWindow,
          buffer, path, formatParagraph, huffman, clock, binaryIo, clientWrite>>

Spec == Init /\ [][Next]_vars

\* Only of the writing client something is said that must happen.
FairSpec ==
    Spec /\ WF_vars(part = "clientWrite" /\ K!ClientStep /\ Others("clientWrite"))

-----------------------------------------------------------------------------
(* What the other modules state. *)

\* format_paragraph.h:4, for every text.
FormatsEveryText == G!FormatsEveryText

\* strings.h, path.cpp, formatter.h and hex_formatter.h: each function that
\* takes a text apart or puts one together loses and invents nothing.
TextsKept ==
    LET x == input.with IN
    CASE input.of = "split" -> L!JoinRestores(x.s, x.token, x.limit)
      [] input.of = "words" -> L!SplitsWords(x.s)
      [] input.of = "path" -> P!SplitRestores(x.s)
      [] input.of = "unique" -> P!KeepsDirectory(x.s, x.suffix)
      [] input.of = "format" ->
            X!FormatsText(x.s, x.charCount, x.fails) /\ X!CountsFormatters(x.s)
      [] input.of = "hex" -> X!HexReadsBack(x.format, x.data)
      [] OTHER -> TRUE

\* to_integer.h, version.h, numeric_string_compare.cpp, overflow.h,
\* multiply_rounded.h, time_value.cpp and endian_tools.h: each conversion of a
\* number tells the number or refuses, and comparisons are orders.
NumbersKept ==
    LET x == input.with IN
    CASE input.of = "integer" -> N!ReadsNumbers(x.s, x.type, x.NDEBUG)
      [] input.of = "version" ->
            N!KeepsVersions(x.v, x.w, x.octets, N!Unsigned(15))
      [] input.of = "texts" -> N!OrdersNumerically(x.s, x.t, x.u)
      [] input.of = "overflow" -> x.n \in V!Values(x.source) =>
            V!FindsOverflow(x.n, x.source, x.target)
      [] input.of = "scale" -> V!RoundsOrThrows(x.scale, x.n, x.target)
      [] input.of = "time" ->
            C!KeepsTime(x.t, x.other) /\ C!KeepsCounts(x.t, x.other)
      [] input.of = "order" -> x.first + x.count <= 5 =>
            Y!NumbersTravel(Memory(x.size), x.first, x.first + x.count, x.out,
                            x.format, x.floating, x.sender, x.receiver)
      [] OTHER -> TRUE

\* thread_priority.h:27, for every offset.
NegativeOffsetsLower ==
    input.of = "priority" =>
        R!NegativeOffsetsLower(input.with.offset, input.with.other)
=============================================================================
