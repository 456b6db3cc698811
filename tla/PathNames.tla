----------------------------- MODULE PathNames -----------------------------
(***************************************************************************)
(* The functions of jive/path.cpp that take a path apart and put it        *)
(* together, on systems with one kind of separator.                        *)
(***************************************************************************)
EXTENDS Integers, Sequences, SequencesExt, TLC

S == INSTANCE Strings

pathSeparator == "/"

\* std::unique on separators.
FilterSeparators(path) ==
    FoldLeft(LAMBDA kept, c :
                IF c = pathSeparator /\ kept # <<>> /\ Last(kept) = c
                THEN kept ELSE Append(kept, c),
             <<>>, path)

Join(paths) == FilterSeparators(S!Join(paths, <<pathSeparator>>))

\* std::string::find_last_of; 0 for npos.
FindLast(path, char) == SelectLastInSeq(path, LAMBDA c : c = char)

Before(path, pos) == SubSeq(path, 1, pos - 1)
From(path, pos) == SubSeq(path, pos, Len(path))

Base(fileName) ==
    LET filtered == FilterSeparators(fileName)
    IN  From(filtered, FindLast(filtered, pathSeparator) + 1)

\* The position is looked for in fileName, not in what was filtered.
Directory(fileName) == Before(fileName, FindLast(fileName, pathSeparator))

Split(fileName) ==
    LET filtered == FilterSeparators(fileName)
        pos == FindLast(filtered, pathSeparator)
    IN  <<Before(filtered, pos), From(filtered, pos + 1)>>

SplitExtension(fileName) ==
    LET pos == FindLast(fileName, ".")
    IN  IF pos = 0 THEN <<fileName, <<>>>>
        ELSE <<Before(fileName, pos), From(fileName, pos)>>

\* The name that the loop of MakeUniqueSystemName tries with suffix.
to_string(suffix) == ToString(suffix)

Candidate(systemName, suffix) ==
    LET dirBase == Split(systemName)
        splitExt == SplitExtension(dirBase[2])
        name == splitExt[1] \o <<"-", to_string(suffix)>> \o splitExt[2]
    IN  IF suffix = 0 THEN systemName
        ELSE IF dirBase[1] # <<>> THEN Join(<<dirBase[1], name>>)
        ELSE name

-----------------------------------------------------------------------------
Absolute(path) == path # <<>> /\ Head(path) = pathSeparator

\* Taking a path apart and joining it again gives the path: the directory and
\* the base of every path that has both, with the separators filtered; Base,
\* Directory and Split agree; and no function is confused by separators that
\* are repeated or at an end.
SplitRestores(path) ==
    LET filtered == FilterSeparators(path) IN
    /\ FilterSeparators(filtered) = filtered
    /\ pathSeparator \in Range(path) => Join(Split(path)) = filtered
    /\ Base(path) = Split(path)[2]
    /\ Join(<<Directory(path), Base(path)>>) = Join(Split(path))
    /\ LET e == SplitExtension(path) IN e[1] \o e[2] = path

\* "Appends an index to systemName": each name that is tried is in systemName's
\* directory and has its extension.  The exception is a name in the root
\* directory: its candidates are relative.
KeepsDirectory(path, suffix) ==
    LET candidate == Candidate(path, suffix) IN
    ~Absolute(path) \/ Split(path)[1] # <<>> =>
        /\ Absolute(candidate) <=> Absolute(path)
        /\ Split(candidate)[1] = Split(path)[1]
        /\ SplitExtension(Base(candidate))[2] = SplitExtension(Base(path))[2]
=============================================================================
