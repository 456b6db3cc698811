---------------------------- MODULE UtilityProofs ----------------------------
(***************************************************************************)
(* What the objects of Utilities promise for every value of their constants: *)
(* the buffer, the file system, the flags of scopes, a window, a transaction, *)
(* a client's stream, a map and a text.                                       *)
(***************************************************************************)
EXTENDS Utilities, SequenceProofs

-----------------------------------------------------------------------------
(* Buffer *)

\* A block of so many bytes has room for so many elements, if these have a size.
Holds(size, number) == B!Fits(number) => number * sizeof_T <= size

LEMMA SizeWraps ==
    ASSUME NEW n \in Nat, NEW m \in Nat \ {0}
    PROVE  n % m \in 0 .. m - 1 /\ (n < m => n % m = n)
OBVIOUS

\* GetAlignedByteCount rounds up, unless that wraps.
LEMMA AlignedIsEnough ==
    ASSUME BufferSizes, NEW number \in Counts
    PROVE  /\ B!GetAlignedByteCount(number) \in Nat
           /\ Holds(B!GetAlignedByteCount(number), number)
<1> DEFINE bytes == number * sizeof_T
           byteCount == B!Wrapped(bytes)
           error == byteCount % align
<1>1. bytes \in Nat /\ align \in Nat \ {0} /\ SIZE_MAX \in Nat
      /\ SIZE_MAX + 1 \in Nat \ {0}
  BY DEF BufferSizes
<1>2. B!GetAlignedByteCount(number)
        = IF error = 0 THEN byteCount ELSE B!Wrapped(byteCount + (align - error))
  BY Zenon DEF B!GetAlignedByteCount
<1>3. B!Fits(number) <=> bytes + align <= SIZE_MAX + 1
  BY DEF B!Fits
<1>4. Holds(B!GetAlignedByteCount(number), number) <=>
        (B!Fits(number) => bytes <= B!GetAlignedByteCount(number))
  BY DEF Holds
<1> HIDE DEF bytes
<1>5. \A n \in Nat : B!Wrapped(n) \in Nat /\ (n <= SIZE_MAX => B!Wrapped(n) = n)
  <2> TAKE n \in Nat
  <2>1. /\ n % (SIZE_MAX + 1) \in 0 .. (SIZE_MAX + 1) - 1
        /\ n < SIZE_MAX + 1 => n % (SIZE_MAX + 1) = n
    BY <1>1, SizeWraps
  <2> QED  BY <1>1, <2>1 DEF B!Wrapped
<1>6. byteCount \in Nat
  BY <1>1, <1>5
<1>7. error \in 0 .. align - 1
  <2> HIDE DEF byteCount
  <2> QED  BY <1>1, <1>6, SizeWraps
<1> HIDE DEF error
<1>8. byteCount + (align - error) \in Nat
  BY <1>1, <1>6, <1>7
<1>9. B!GetAlignedByteCount(number) \in Nat
  BY <1>2, <1>5, <1>6, <1>8
<1>10. ASSUME bytes + align <= SIZE_MAX + 1
       PROVE  bytes <= B!GetAlignedByteCount(number)
  <2>1. byteCount = bytes
    BY <1>1, <1>5, <1>10
  <2>2. error = 0 => B!GetAlignedByteCount(number) = bytes
    BY <1>2, <2>1
  <2>3. error # 0 => B!GetAlignedByteCount(number) = bytes + (align - error)
    <3>1. error # 0 => bytes + (align - error) <= SIZE_MAX
      BY <1>1, <1>7, <1>10
    <3> QED  BY <1>2, <1>5, <1>8, <2>1, <3>1
  <2> QED  BY <1>1, <1>7, <2>2, <2>3
<1> QED  BY <1>3, <1>4, <1>9, <1>10

\* Which object owns which block: no two the same, and none one that was freed.
BlockOwners ==
    /\ live \subseteq Object
    /\ data_ \in [Object -> Block \cup {Null}]
    /\ elementCount_ \in [Object -> Int]
    /\ allocated \in [Block -> Int]
    /\ \A o \in live : data_[o] # Null =>
         /\ allocated[data_[o]] # B!Free
         /\ Holds(allocated[data_[o]], elementCount_[o])
    /\ \A o, p \in live : data_[o] = data_[p] => o = p \/ data_[o] = Null
    /\ \A b \in Block : allocated[b] # B!Free => \E o \in live : data_[o] = b
    /\ ~corrupted

\* Each block that is allocated has one owner, which has room for what it says,
\* while the size of that does not wrap, and each is freed once, for every order
\* of constructions, moves and destructions.
THEOREM BlocksAreOwned ==
    ASSUME BufferSizes
    PROVE  B!Spec => []BlocksOwned
<1> USE DEF BlockOwners, B!Free
<1>1. B!Init => BlockOwners
  BY DEF B!Init
<1>2. BlockOwners /\ [B!Next]_(B!vars) => BlockOwners'
  <2> SUFFICES ASSUME BlockOwners, [B!Next]_(B!vars) PROVE BlockOwners'
    OBVIOUS
  <2>1. ASSUME NEW o \in Object, NEW number \in Counts, B!Construct(o, number)
        PROVE  BlockOwners'
    <3> DEFINE bytes == B!GetAlignedByteCount(number)
    <3>1. bytes \in Nat /\ Holds(bytes, number) /\ number \in Nat
      BY AlignedIsEnough DEF BufferSizes
    <3>2. PICK b \in Block :
            /\ allocated[b] = -1
            /\ allocated' = [allocated EXCEPT ![b] = bytes]
            /\ data_' = [data_ EXCEPT ![o] = b]
      BY <2>1 DEF B!Construct
    <3>3. /\ o \notin live /\ live' = live \cup {o}
          /\ elementCount_' = [elementCount_ EXCEPT ![o] = number]
          /\ corrupted' = corrupted
      BY <2>1 DEF B!Construct
    <3> HIDE DEF bytes
    <3> QED  BY <3>1, <3>2, <3>3 DEF BufferSizes
  <2>2. ASSUME NEW o \in Object, NEW other \in Object, B!Move(o, other)
        PROVE  BlockOwners'
    BY <2>2 DEF B!Move, B!HandedOver, BufferSizes
  <2>3. ASSUME NEW o \in Object, B!Destroy(o)
        PROVE  BlockOwners'
    <3>1. /\ o \in live /\ live' = live \ {o}
          /\ UNCHANGED <<data_, elementCount_, byteCount_>>
      BY <2>3 DEF B!Destroy
    <3>2. CASE data_[o] = Null
      <4>1. UNCHANGED <<allocated, corrupted>>
        BY <2>3, <3>2 DEF B!Destroy
      <4> QED  BY <3>1, <3>2, <4>1 DEF BufferSizes
    <3>3. CASE data_[o] # Null
      <4>1. /\ corrupted' = (corrupted \/ allocated[data_[o]] = -1)
            /\ allocated' = [allocated EXCEPT ![data_[o]] = -1]
        BY <2>3, <3>3 DEF B!Destroy
      <4>2. ~corrupted'
        BY <3>1, <3>3, <4>1
      <4> QED  BY <3>1, <3>3, <4>1, <4>2 DEF BufferSizes
    <3> QED  BY <3>2, <3>3
  <2>4. CASE UNCHANGED B!vars
    BY <2>4 DEF B!vars
  <2> QED  BY <2>1, <2>2, <2>3, <2>4 DEF B!Next
<1>3. BlockOwners => BlocksOwned
  BY DEF BlocksOwned, B!BlocksOwned, B!Owners, BufferSizes, Holds
<1> QED  BY <1>1, <1>2, <1>3, PTL DEF B!Spec

-----------------------------------------------------------------------------
(* Paths *)

Running ==
    [pc : {"unique", "mkdir", "exists", "mkfifo", "stat"},
     name : SystemName, suffix : 0 .. MaxSuffix]

Error == {"EEXIST", "EACCES", "ENOENT"}

Calls ==
    [pc : {"idle"}, told : {"nothing"}]
        \cup Running
        \cup [pc : {"idle"}, told : {"free", "done"} \cup Error \cup P!Kind,
              was : Running]

PathTypes ==
    /\ files \in [P!Name -> P!Kind]
    /\ errno \in [Caller -> {"none"} \cup Error]
    /\ call \in [Caller -> Calls]
    /\ seen \in [Caller -> [P!Name -> SUBSET P!Kind]]

\* CallsTellTheTruth, of the last call of c.
Truthful(c) ==
    call[c].told # "nothing" =>
        LET was == call[c].was
            told == call[c].told
            wasSeen(i) == seen[c][P!Candidate(was.name, i)]
        IN
        /\ was.pc = "unique" =>
             /\ "absent" \in wasSeen(was.suffix)
             /\ \A i \in 0 .. was.suffix - 1 : wasSeen(i) # {"absent"}
        /\ was.pc \in {"mkdir", "exists"} =>
             /\ told = "done" => "directory" \in wasSeen(0)
             /\ told = "ENOENT" => {"absent"} # wasSeen(0)
             /\ told = "EEXIST" => wasSeen(0) \cap {"file", "fifo"} # {}
        /\ was.pc = "mkfifo" =>
             IF told = "done" THEN {"absent", "fifo"} \subseteq wasSeen(0)
             ELSE wasSeen(0) # {"absent"}
        /\ was.pc = "stat" => told \in wasSeen(0)

\* What a call that is under way knows: what is there now is among what it has
\* seen, and so is something by each name that it found taken.
Taken(c, n) == \E kind \in seen[c][n] : kind # "absent"

Knows(c) ==
    /\ \A n \in P!Name : files[n] \in seen[c][n]
    /\ call[c].pc = "unique" =>
         \A i \in 0 .. call[c].suffix - 1 :
            Taken(c, P!Candidate(call[c].name, i))
    /\ call[c].pc # "unique" => call[c].suffix = 0
    /\ call[c].pc = "exists" => errno[c] = "EEXIST" /\ Taken(c, call[c].name)

CallerOK(c) == IF call[c].pc = "idle" THEN Truthful(c) ELSE Knows(c)

PathsOK == PathTypes /\ \A c \in Caller : CallerOK(c)

LEMMA CandidateNames ==
    ASSUME SuffixesEnd
    PROVE  /\ \A s \in SystemName, i \in 0 .. MaxSuffix : P!Candidate(s, i) \in P!Name
           /\ \A s \in SystemName : P!Candidate(s, 0) = s /\ s \in P!Name
<1>1. \A s \in SystemName, i \in 0 .. MaxSuffix : P!Candidate(s, i) \in P!Name
  BY DEF P!Name
<1>2. ASSUME NEW s \in SystemName PROVE P!Candidate(s, 0) = s
  BY DEF P!Candidate
<1> QED  BY <1>1, <1>2 DEF SuffixesEnd

\* The kinds of a call.
LEMMA CallKinds ==
    ASSUME PathTypes, NEW c \in Caller
    PROVE  /\ call[c].pc # "idle" => call[c] \in Running
           /\ call[c].pc = "idle" /\ call[c].told # "nothing" =>
                /\ call[c].was \in Running
BY DEF PathTypes, Calls, Running

\* Whoever changes the files, those who wait see it, and the others do not care.
LEMMA Bystanders ==
    ASSUME SuffixesEnd, PathsOK, NEW d \in Caller,
           call'[d] = call[d], errno'[d] = errno[d],
           \/ UNCHANGED files /\ seen'[d] = seen[d]
           \/ \E n \in P!Name, kind \in P!Kind : P!Becomes(n, kind)
    PROVE  CallerOK(d)'
<1>1. CASE UNCHANGED files /\ seen'[d] = seen[d]
  BY <1>1 DEF PathsOK, CallerOK, Truthful, Knows, Taken
<1>2. ASSUME NEW n \in P!Name, NEW kind \in P!Kind, P!Becomes(n, kind)
      PROVE  CallerOK(d)'
  <2>1. CASE call[d].pc = "idle"
    <3>1. seen'[d] = seen[d]
      BY <1>2, <2>1 DEF P!Becomes
    <3> QED  BY <2>1, <3>1 DEF PathsOK, CallerOK, Truthful
  <2>2. CASE call[d].pc # "idle"
    <3>1. /\ seen'[d] = [seen[d] EXCEPT ![n] = @ \cup {kind}]
          /\ files' = [files EXCEPT ![n] = kind]
      BY <1>2, <2>2 DEF P!Becomes
    <3>2. \A m \in P!Name : seen[d][m] \subseteq seen'[d][m] /\ files'[m] \in seen'[d][m]
      BY <2>2, <3>1 DEF PathsOK, PathTypes, CallerOK, Knows
    <3>3. \A m \in P!Name : Taken(d, m) => Taken(d, m)'
      BY <3>2 DEF Taken
    <3>4. call[d] \in Running /\ call[d].name \in P!Name
      BY <2>2, CallKinds, CandidateNames DEF PathsOK, Running
    <3>5. \A i \in 0 .. call[d].suffix - 1 : P!Candidate(call[d].name, i) \in P!Name
      BY <3>4, CandidateNames DEF Running, SuffixesEnd
    <3>6. Knows(d)
      BY <2>2 DEF PathsOK, CallerOK
    <3>7. Knows(d)'
      BY <3>2, <3>3, <3>4, <3>5, <3>6 DEF Knows
    <3> QED  BY <2>2, <3>7 DEF CallerOK
  <2> QED  BY <2>1, <2>2
<1> QED  BY <1>1, <1>2

\* What a step of c does to the files, and to what it has seen.
Does(c) ==
    \/ UNCHANGED <<files, seen>>
    \/ \E n \in P!Name, kind \in P!Kind : P!Becomes(n, kind)
    \/ /\ UNCHANGED files
       /\ seen' = [seen EXCEPT ![c] = [n \in P!Name |-> {files[n]}]]

LEMMA FileTypes ==
    ASSUME PathTypes, NEW c \in Caller, Does(c)
    PROVE  /\ files' \in [P!Name -> P!Kind]
           /\ seen' \in [Caller -> [P!Name -> SUBSET P!Kind]]
<1>1. ASSUME NEW n \in P!Name, NEW kind \in P!Kind, P!Becomes(n, kind)
      PROVE  /\ files' \in [P!Name -> P!Kind]
             /\ seen' \in [Caller -> [P!Name -> SUBSET P!Kind]]
  <2>1. files' \in [P!Name -> P!Kind]
    BY <1>1 DEF PathTypes, P!Becomes
  <2>2. ASSUME NEW d \in Caller PROVE seen'[d] \in [P!Name -> SUBSET P!Kind]
    <3>1. seen[d] \in [P!Name -> SUBSET P!Kind]
      BY DEF PathTypes
    <3>2. [seen[d] EXCEPT ![n] = @ \cup {kind}] \in [P!Name -> SUBSET P!Kind]
      BY <1>1, <3>1
    <3> QED  BY <1>1, <3>1, <3>2 DEF P!Becomes
  <2>3. seen' = [d \in Caller |-> seen'[d]]
    BY <1>1 DEF P!Becomes
  <2> QED  BY <2>1, <2>2, <2>3
<1>2. CASE /\ UNCHANGED files
           /\ seen' = [seen EXCEPT ![c] = [n \in P!Name |-> {files[n]}]]
  <2>1. [n \in P!Name |-> {files[n]}] \in [P!Name -> SUBSET P!Kind]
    BY DEF PathTypes
  <2> QED  BY <1>2, <2>1 DEF PathTypes
<1> QED  BY <1>1, <1>2 DEF Does, PathTypes

\* It is enough to look at the caller that makes the step.
LEMMA OwnStep ==
    ASSUME SuffixesEnd, PathsOK, NEW c \in Caller, NEW told \in Calls,
           call' = [call EXCEPT ![c] = told],
           \/ UNCHANGED errno
           \/ \E e \in Error : errno' = [errno EXCEPT ![c] = e],
           Does(c), CallerOK(c)'
    PROVE  PathsOK'
<1>1. call' \in [Caller -> Calls] /\ errno' \in [Caller -> {"none"} \cup Error]
  BY DEF PathsOK, PathTypes
<1>2. PathTypes'
  BY <1>1, FileTypes DEF PathsOK, PathTypes
<1>3. ASSUME NEW d \in Caller \ {c} PROVE CallerOK(d)'
  <2>1. call'[d] = call[d] /\ errno'[d] = errno[d]
    BY DEF PathsOK, PathTypes
  <2>2. \/ UNCHANGED files /\ seen'[d] = seen[d]
        \/ \E n \in P!Name, kind \in P!Kind : P!Becomes(n, kind)
    BY DEF Does, PathsOK, PathTypes
  <2> QED  BY <2>1, <2>2, Bystanders
<1> QED  BY <1>2, <1>3 DEF PathsOK

\* A call that ends has told the truth of what it has seen.
LEMMA CallEnds ==
    ASSUME SuffixesEnd, PathsOK, NEW c \in Caller, call[c].pc # "idle",
           NEW told \in {"free", "done"} \cup Error \cup P!Kind,
           P!Tells(c, told),
           \/ UNCHANGED errno
           \/ \E e \in Error : errno' = [errno EXCEPT ![c] = e],
           Does(c), Truthful(c)'
    PROVE  PathsOK'
<1> DEFINE end == [pc |-> "idle", told |-> told, was |-> call[c]]
<1>1. call[c] \in Running
  BY CallKinds DEF PathsOK
<1>2. end \in Calls
  BY <1>1 DEF Calls
<1>3. call' = [call EXCEPT ![c] = end]
  BY DEF P!Tells
<1>4. call'[c].pc = "idle"
  BY <1>3 DEF PathsOK, PathTypes
<1>5. CallerOK(c)'
  BY <1>4 DEF CallerOK
<1> HIDE DEF end
<1> QED  BY <1>2, <1>3, <1>5, OwnStep

\* What c knows while its call is under way.
LEMMA Known ==
    ASSUME SuffixesEnd, PathsOK, NEW c \in Caller, call[c].pc # "idle"
    PROVE  /\ call[c] \in Running /\ Knows(c)
           /\ call[c].name \in P!Name
           /\ P!Candidate(call[c].name, 0) = call[c].name
           /\ \A i \in 0 .. call[c].suffix : P!Candidate(call[c].name, i) \in P!Name
<1>1. call[c] \in Running /\ Knows(c)
  BY CallKinds DEF PathsOK, CallerOK
<1> QED  BY <1>1, CandidateNames DEF Running, SuffixesEnd

LEMMA StartsTruly ==
    ASSUME SuffixesEnd, PathsOK, NEW c \in Caller, NEW n \in SystemName,
           NEW pc \in {"unique", "mkdir", "mkfifo", "stat"}, P!Starts(c, pc, n)
    PROVE  PathsOK'
<1> DEFINE start == [pc |-> pc, name |-> n, suffix |-> 0]
<1>1. start \in Calls
  BY DEF Calls, Running, SuffixesEnd
<1>2. /\ call' = [call EXCEPT ![c] = start]
      /\ UNCHANGED <<files, errno>>
      /\ seen' = [seen EXCEPT ![c] = [m \in P!Name |-> {files[m]}]]
  BY DEF P!Starts
<1>3. call'[c] = start /\ seen'[c] = [m \in P!Name |-> {files[m]}]
  BY <1>2 DEF PathsOK, PathTypes
<1>4. CallerOK(c)'
  BY <1>2, <1>3 DEF CallerOK, Knows
<1> HIDE DEF start
<1> QED  BY <1>1, <1>2, <1>4, OwnStep DEF Does

\* MakeUniqueSystemName
LEMMA UniqueTruly ==
    ASSUME SuffixesEnd, PathsOK, NEW c \in Caller, P!CheckExists(c)
    PROVE  PathsOK'
<1> DEFINE name == P!Candidate(call[c].name, call[c].suffix)
<1>1. /\ call[c].pc = "unique" /\ UNCHANGED <<files, errno, seen>>
  BY DEF P!CheckExists
<1>2. /\ call[c] \in Running /\ Knows(c) /\ name \in P!Name
      /\ call[c].suffix \in 0 .. MaxSuffix
  BY <1>1, Known DEF Running, SuffixesEnd
<1>3. files[name] \in seen[c][name]
  BY <1>2 DEF Knows
<1>4. CASE files[name] # "absent"
  <2> DEFINE next == [call[c] EXCEPT !.suffix = @ + 1]
  <2>1. call[c].suffix < MaxSuffix /\ call' = [call EXCEPT ![c] = next]
    BY <1>4 DEF P!CheckExists, P!Exists, P!Trying
  <2>2. next \in Running /\ next.pc = "unique" /\ next.name = call[c].name
        /\ next.suffix = call[c].suffix + 1
    BY <1>1, <1>2, <2>1 DEF Running, SuffixesEnd
  <2>3. next \in Calls
    BY <2>2 DEF Calls
  <2>4. call'[c] = next
    BY <2>1 DEF PathsOK, PathTypes
  <2> HIDE DEF next
  <2>5. Taken(c, name)
    BY <1>3, <1>4 DEF Taken
  <2>6. \A i \in 0 .. next.suffix - 1 : Taken(c, P!Candidate(next.name, i))
    BY <1>1, <1>2, <2>2, <2>5 DEF Knows
  <2>7. CallerOK(c)'
    BY <1>1, <1>2, <2>2, <2>4, <2>6 DEF CallerOK, Knows, Taken
  <2> QED  BY <1>1, <2>1, <2>3, <2>7, OwnStep DEF Does
<1>5. CASE files[name] = "absent"
  <2>1. P!Tells(c, "free")
    BY <1>5 DEF P!CheckExists, P!Exists, P!Trying
  <2>2. call'[c] = [pc |-> "idle", told |-> "free", was |-> call[c]]
    BY <2>1 DEF P!Tells, PathsOK, PathTypes
  <2>3. "absent" \in seen[c][name]
    BY <1>3, <1>5
  <2>4. \A i \in 0 .. call[c].suffix - 1 :
          seen[c][P!Candidate(call[c].name, i)] # {"absent"}
    BY <1>1, <1>2 DEF Knows, Taken
  <2>5. Truthful(c)'
    BY <1>1, <2>2, <2>3, <2>4 DEF Truthful
  <2> QED  BY <1>1, <2>1, <2>5, CallEnds DEF Does
<1> QED  BY <1>4, <1>5

\* MakeDirectory
LEMMA MkdirTruly ==
    ASSUME SuffixesEnd, PathsOK, NEW c \in Caller,
           P!Mkdir(c) \/ P!MkdirFails(c)
    PROVE  PathsOK'
<1> DEFINE name == call[c].name
<1>1. call[c].pc = "mkdir"
  BY DEF P!Mkdir, P!MkdirFails
<1>2. /\ call[c] \in Running /\ Knows(c) /\ name \in P!Name
      /\ P!Candidate(name, 0) = name
  BY <1>1, Known
<1>3. files[name] \in seen[c][name]
  BY <1>2 DEF Knows
<1>4. CASE P!Mkdir(c) /\ files[name] = "absent"
  <2>1. P!Becomes(name, "directory") /\ P!Tells(c, "done") /\ UNCHANGED errno
    BY <1>4 DEF P!Mkdir, P!Exists
  <2>2. call'[c] = [pc |-> "idle", told |-> "done", was |-> call[c]]
    BY <2>1 DEF P!Tells, PathsOK, PathTypes
  <2>3. "directory" \in seen'[c][name]
    BY <1>1, <1>2, <2>1 DEF P!Becomes, PathsOK, PathTypes
  <2>4. Truthful(c)'
    BY <1>1, <1>2, <2>2, <2>3 DEF Truthful
  <2>5. Does(c)
    BY <1>2, <2>1 DEF Does, P!Kind
  <2> QED  BY <1>1, <2>1, <2>4, <2>5, CallEnds
<1>5. CASE P!Mkdir(c) /\ files[name] # "absent"
  <2> DEFINE next == [call[c] EXCEPT !.pc = "exists"]
  <2>1. /\ call' = [call EXCEPT ![c] = next]
        /\ errno' = [errno EXCEPT ![c] = "EEXIST"]
        /\ UNCHANGED <<files, seen>>
    BY <1>5 DEF P!Mkdir, P!Exists
  <2>2. next \in Running /\ next.pc = "exists" /\ next.name = name
        /\ next.suffix = call[c].suffix
    BY <1>2 DEF Running, SuffixesEnd
  <2>3. next \in Calls
    BY <2>2 DEF Calls
  <2>4. call'[c] = next /\ errno'[c] = "EEXIST"
    BY <2>1 DEF PathsOK, PathTypes
  <2> HIDE DEF next
  <2>5. Taken(c, name)
    BY <1>3, <1>5 DEF Taken
  <2>6. CallerOK(c)'
    BY <1>1, <1>2, <2>1, <2>2, <2>4, <2>5 DEF CallerOK, Knows, Taken
  <2> QED  BY <2>1, <2>3, <2>6, OwnStep DEF Does, Error
<1>6. CASE P!MkdirFails(c)
  <2>1. /\ P!Tells(c, "EACCES") /\ errno' = [errno EXCEPT ![c] = "EACCES"]
        /\ UNCHANGED <<files, seen>>
    BY <1>6 DEF P!MkdirFails
  <2>2. call'[c] = [pc |-> "idle", told |-> "EACCES", was |-> call[c]]
    BY <2>1 DEF P!Tells, PathsOK, PathTypes
  <2>3. Truthful(c)'
    BY <1>1, <2>2 DEF Truthful
  <2> QED  BY <1>1, <2>1, <2>3, CallEnds DEF Does, Error
<1> QED  BY <1>4, <1>5, <1>6

LEMMA IsDirectoryTruly ==
    ASSUME SuffixesEnd, PathsOK, NEW c \in Caller, P!IsDirectory(c)
    PROVE  PathsOK'
<1> DEFINE name == call[c].name
           kind == files[name]
           told == IF kind = "directory" THEN "done" ELSE errno'[c]
<1>1. /\ call[c].pc = "exists" /\ UNCHANGED <<files, seen>>
      /\ errno' = [errno EXCEPT ![c] = IF kind # "absent" THEN @ ELSE "ENOENT"]
      /\ P!Tells(c, told)
  BY DEF P!IsDirectory, P!Exists, P!ExistingTold
<1>2. /\ call[c] \in Running /\ Knows(c) /\ name \in P!Name
      /\ P!Candidate(name, 0) = name
  BY <1>1, Known
<1>3. errno[c] = "EEXIST" /\ Taken(c, name) /\ kind \in seen[c][name]
  BY <1>1, <1>2 DEF Knows
<1>4. errno'[c] = IF kind # "absent" THEN "EEXIST" ELSE "ENOENT"
  BY <1>1, <1>3 DEF PathsOK, PathTypes
<1>5. kind \in P!Kind
  BY <1>2 DEF PathsOK, PathTypes
<1>6. \E e \in Error : errno' = [errno EXCEPT ![c] = e]
  BY <1>1, <1>3 DEF Error
<1>7. call'[c] = [pc |-> "idle", told |-> told, was |-> call[c]]
  BY <1>1 DEF P!Tells, PathsOK, PathTypes
<1>8. /\ told = "done" => "directory" \in seen[c][name]
      /\ told = "ENOENT" => {"absent"} # seen[c][name]
      /\ told = "EEXIST" => seen[c][name] \cap {"file", "fifo"} # {}
      /\ told \in {"done"} \cup Error
  BY <1>3, <1>4, <1>5 DEF Taken, P!Kind, Error
<1> HIDE DEF told
<1>9. Truthful(c)'
  BY <1>1, <1>2, <1>7, <1>8 DEF Truthful
<1> QED  BY <1>1, <1>6, <1>8, <1>9, CallEnds DEF Does

LEMMA FifoTruly ==
    ASSUME SuffixesEnd, PathsOK, NEW c \in Caller, P!MakeFifo(c)
    PROVE  PathsOK'
<1> DEFINE name == call[c].name
<1>1. call[c].pc = "mkfifo"
  BY DEF P!MakeFifo
<1>2. /\ call[c] \in Running /\ Knows(c) /\ name \in P!Name
      /\ P!Candidate(name, 0) = name
  BY <1>1, Known
<1>3. files[name] \in seen[c][name]
  BY <1>2 DEF Knows
<1>4. CASE files[name] = "absent"
  <2>1. P!Becomes(name, "fifo") /\ P!Tells(c, "done") /\ UNCHANGED errno
    BY <1>4 DEF P!MakeFifo, P!Exists
  <2>2. call'[c] = [pc |-> "idle", told |-> "done", was |-> call[c]]
    BY <2>1 DEF P!Tells, PathsOK, PathTypes
  <2>3. {"absent", "fifo"} \subseteq seen'[c][name]
    BY <1>1, <1>2, <1>3, <1>4, <2>1 DEF P!Becomes, PathsOK, PathTypes
  <2>4. Truthful(c)'
    BY <1>1, <1>2, <2>2, <2>3 DEF Truthful
  <2>5. Does(c)
    BY <1>2, <2>1 DEF Does, P!Kind
  <2> QED  BY <1>1, <2>1, <2>4, <2>5, CallEnds
<1>5. CASE files[name] # "absent"
  <2>1. /\ errno' = [errno EXCEPT ![c] = "EEXIST"] /\ P!Tells(c, "EEXIST")
        /\ UNCHANGED <<files, seen>>
    BY <1>5 DEF P!MakeFifo, P!Exists
  <2>2. call'[c] = [pc |-> "idle", told |-> "EEXIST", was |-> call[c]]
    BY <2>1 DEF P!Tells, PathsOK, PathTypes
  <2>3. seen[c][name] # {"absent"}
    BY <1>3, <1>5
  <2>4. Truthful(c)'
    BY <1>1, <1>2, <2>1, <2>2, <2>3 DEF Truthful
  <2> QED  BY <1>1, <2>1, <2>4, CallEnds DEF Does, Error
<1> QED  BY <1>4, <1>5

LEMMA StatTruly ==
    ASSUME SuffixesEnd, PathsOK, NEW c \in Caller, P!Stat(c)
    PROVE  PathsOK'
<1> DEFINE kind == files[call[c].name]
<1>1. /\ call[c].pc = "stat" /\ P!Tells(c, kind) /\ UNCHANGED <<files, errno, seen>>
  BY DEF P!Stat
<1>2. /\ call[c] \in Running /\ Knows(c) /\ call[c].name \in P!Name
      /\ P!Candidate(call[c].name, 0) = call[c].name
  BY <1>1, Known
<1>3. kind \in seen[c][call[c].name] /\ kind \in P!Kind
  BY <1>2 DEF Knows, PathsOK, PathTypes
<1>4. call'[c] = [pc |-> "idle", told |-> kind, was |-> call[c]]
  BY <1>1 DEF P!Tells, PathsOK, PathTypes
<1>5. Truthful(c)'
  BY <1>1, <1>2, <1>3, <1>4 DEF Truthful
<1> HIDE DEF kind
<1> QED  BY <1>1, <1>3, <1>5, CallEnds DEF Does

\* What a call tells was so at a moment of the call, for any number of callers
\* on any names, while others create, replace and remove what they like.
THEOREM CallsAreTrue ==
    ASSUME SuffixesEnd
    PROVE  P!Spec => []CallsTellTheTruth
<1> USE DEF SuffixesEnd
<1>1. P!Init => PathsOK
  BY DEF P!Init, PathsOK, PathTypes, CallerOK, Truthful, Calls, P!Kind
<1>2. PathsOK /\ [P!Next]_(P!vars) => PathsOK'
  <2> SUFFICES ASSUME PathsOK, [P!Next]_(P!vars) PROVE PathsOK'
    OBVIOUS
  <2>1. ASSUME NEW c \in Caller, NEW n \in SystemName,
               NEW pc \in {"unique", "mkdir", "mkfifo", "stat"}, P!Starts(c, pc, n)
        PROVE  PathsOK'
    BY <2>1, StartsTruly
  <2>2. ASSUME NEW c \in Caller,
               \/ P!CheckExists(c) \/ P!Mkdir(c) \/ P!MkdirFails(c)
               \/ P!IsDirectory(c) \/ P!MakeFifo(c) \/ P!Stat(c)
        PROVE  PathsOK'
    BY <2>2, UniqueTruly, MkdirTruly, IsDirectoryTruly, FifoTruly, StatTruly
  <2>3. ASSUME NEW n \in P!Name, P!Others(n) PROVE PathsOK'
    <3>1. PICK kind \in P!Kind : P!Becomes(n, kind)
      BY <2>3 DEF P!Others
    <3>2. UNCHANGED <<errno, call>>
      BY <2>3 DEF P!Others
    <3>3. \A d \in Caller : CallerOK(d)'
      BY <3>1, <3>2, Bystanders
    <3>4. ASSUME NEW c \in Caller PROVE PathTypes'
      BY <3>1, <3>2, FileTypes DEF Does, PathsOK, PathTypes
    <3>5. CASE Caller = {}
      BY <3>1, <3>2, <3>5 DEF P!Becomes, PathsOK, PathTypes
    <3> QED  BY <3>3, <3>4, <3>5 DEF PathsOK
  <2>4. CASE UNCHANGED P!vars
    BY <2>4 DEF P!vars, PathsOK, PathTypes, CallerOK, Truthful, Knows, Taken
  <2> QED  BY <2>1, <2>2, <2>3, <2>4 DEF P!Next
<1>3. PathsOK => CallsTellTheTruth
  BY CallKinds DEF PathsOK, CallerOK, Truthful, Running, CallsTellTheTruth, P!CallsTellTheTruth
<1> QED  BY <1>1, <1>2, <1>3, PTL DEF P!Spec

-----------------------------------------------------------------------------
(* ScopeFlags *)

\* The ScopedCountFlags of f, by thread and place.
Held(f) ==
    {p \in Thread \X (1 .. MaxDepth) :
        p[2] <= Len(scopes[p[1]]) /\ scopes[p[1]][p[2]] = f}

\* A thread that leaves a scope is in one.
ScopesOK ==
    /\ \/ flag = TRUE /\ flagScopes = 1
       \/ flag = FALSE /\ flagScopes = 0
    /\ count \in [CountFlag -> 0 .. CountRange - 1]
    /\ scopes \in [Thread -> Seq(CountFlag)]
    /\ \A t \in Thread : Len(scopes[t]) <= MaxDepth
    /\ leaving \subseteq Thread
    /\ \A t \in leaving : scopes[t] # <<>>
    /\ \A f \in CountFlag : count[f] = F!Open(f)
    /\ terminated = FALSE

LEMMA SameCardinality == \A S : F!Cardinality(S) = Cardinality(S)
BY DEF F!Cardinality, Cardinality, F!IsFiniteSet, IsFiniteSet

LEMMA HeldIsFinite ==
    ASSUME ScopeSizes, NEW f
    PROVE  /\ IsFiniteSet(Held(f)) /\ F!Open(f) = Cardinality(Held(f))
           /\ F!Open(f) \in Nat
<1>1. IsFiniteSet(Thread \X (1 .. MaxDepth))
  <2>1. IsFiniteSet(1 .. MaxDepth)
    BY FS_Interval DEF ScopeSizes
  <2> QED  BY <2>1, FS_Product DEF ScopeSizes
<1>2. IsFiniteSet(Held(f))
  BY <1>1, FS_Subset DEF Held
<1>3. F!Open(f) = Cardinality(Held(f))
  BY SameCardinality DEF F!Open, Held
<1> QED  BY <1>2, <1>3, FS_CardinalityType

\* The youngest scope of t is one of those of its flag.
LEMMA YoungestIsHeld ==
    ASSUME ScopeSizes, ScopesOK, NEW t \in Thread, scopes[t] # <<>>
    PROVE  /\ F!Last(scopes[t]) \in CountFlag
           /\ F!Last(scopes[t]) = scopes[t][Len(scopes[t])]
           /\ <<t, Len(scopes[t])>> \in Held(F!Last(scopes[t]))
           /\ count[F!Last(scopes[t])] > 0
<1> DEFINE n == Len(scopes[t])
           f == F!Last(scopes[t])
<1>1. scopes[t] \in Seq(CountFlag) /\ n \in 1 .. MaxDepth
  BY EmptySeq DEF ScopesOK, ScopeSizes
<1>2. f = scopes[t][n] /\ f \in CountFlag
  BY <1>1, ElementOfSeq DEF F!Last
<1>3. <<t, n>> \in Held(f)
  BY <1>1, <1>2 DEF Held
<1>4. Cardinality(Held(f)) # 0
  BY <1>3, HeldIsFinite, FS_EmptySet
<1>5. count[f] > 0
  BY <1>2, <1>4, HeldIsFinite DEF ScopesOK
<1> QED  BY <1>2, <1>3, <1>5

\* Computed modulo CountRange, but never beyond it.
LEMMA NoWrap ==
    ASSUME ScopeSizes, NEW n \in Nat
    PROVE  /\ n < CountRange => n % CountRange = n
           /\ n \in 1 .. CountRange - 1 => (n + CountRange - 1) % CountRange = n - 1
<1>1. ASSUME NEW m \in Nat, m < CountRange PROVE m % CountRange = m
  BY <1>1 DEF ScopeSizes
<1>2. ASSUME n \in 1 .. CountRange - 1 PROVE (n + CountRange - 1) % CountRange = n - 1
  <2>1. n + CountRange - 1 = 1 * CountRange + (n - 1) /\ n - 1 \in 0 .. CountRange - 1
    BY <1>2 DEF ScopeSizes
  <2> QED  BY <1>2, <2>1 DEF ScopeSizes
<1> QED  BY <1>1, <1>2

LEMMA EnterKeeps ==
    ASSUME ScopeSizes, ScopesOK, NEW t \in Thread, NEW f \in CountFlag, F!Enter(t, f)
    PROVE  ScopesOK'
<1> DEFINE s == scopes[t]
           n == Len(scopes[t]) + 1
<1>1. /\ scopes' = [scopes EXCEPT ![t] = Append(s, f)]
      /\ count' = [count EXCEPT ![f] = (@ + 1) % CountRange]
      /\ t \notin leaving /\ n <= MaxDepth /\ F!Open(f) + 1 < CountRange
      /\ UNCHANGED <<flag, flagScopes, leaving, terminated>>
  BY DEF F!Enter, ScopesOK, ScopeSizes
<1>2. s \in Seq(CountFlag) /\ n \in Nat
  BY DEF ScopesOK
<1>3. /\ Append(s, f) \in Seq(CountFlag) /\ Len(Append(s, f)) = n
      /\ \A i \in 1 .. n : Append(s, f)[i] = IF i = n THEN f ELSE s[i]
  BY <1>2, AppendProperties
<1>4. /\ \A u \in Thread \ {t} : scopes'[u] = scopes[u]
      /\ scopes'[t] = Append(s, f)
      /\ scopes' \in [Thread -> Seq(CountFlag)]
  BY <1>1, <1>3 DEF ScopesOK
<1>5. Held(f)' = Held(f) \cup {<<t, n>>} /\ <<t, n>> \notin Held(f)
  <2>1. n \in 1 .. MaxDepth
    BY <1>1, <1>2
  <2>2. \A u \in Thread, i \in 1 .. MaxDepth :
          <<u, i>> \in Held(f)' <=> <<u, i>> \in Held(f) \/ (u = t /\ i = n)
    <3> TAKE u \in Thread, i \in 1 .. MaxDepth
    <3>1. <<u, i>> \in Held(f)' <=> i <= Len(scopes'[u]) /\ scopes'[u][i] = f
      BY DEF Held
    <3>2. <<u, i>> \in Held(f) <=> i <= Len(scopes[u]) /\ scopes[u][i] = f
      BY DEF Held
    <3>3. CASE u # t
      BY <1>4, <3>1, <3>2, <3>3
    <3>4. CASE u = t
      <4>1. i <= Len(scopes'[u]) /\ scopes'[u][i] = f
              <=> (i <= Len(s) /\ s[i] = f) \/ i = n
        BY <1>2, <1>3, <1>4, <3>4
      <4> HIDE DEF n
      <4> QED  BY <3>1, <3>2, <3>4, <4>1
    <3> QED  BY <3>3, <3>4
  <2>3. <<t, n>> \notin Held(f)
    BY <1>2 DEF Held
  <2>4. Held(f)' \subseteq Thread \X (1 .. MaxDepth) /\ Held(f) \subseteq Thread \X (1 .. MaxDepth)
    BY DEF Held
  <2> QED  BY <2>1, <2>2, <2>3, <2>4
<1>6. ASSUME NEW g \in CountFlag \ {f} PROVE Held(g)' = Held(g)
  <2>1. \A u \in Thread, i \in 1 .. MaxDepth :
          (i <= Len(scopes'[u]) /\ scopes'[u][i] = g) <=>
            (i <= Len(scopes[u]) /\ scopes[u][i] = g)
    <3> TAKE u \in Thread, i \in 1 .. MaxDepth
    <3>1. CASE u # t
      BY <1>4, <3>1
    <3>2. CASE u = t
      BY <1>2, <1>3, <1>4, <3>2
    <3> QED  BY <3>1, <3>2
  <2> QED  BY <2>1 DEF Held
<1>7. F!Open(f)' = F!Open(f) + 1
  <2>1. Cardinality(Held(f)') = Cardinality(Held(f)) + 1
    BY <1>5, HeldIsFinite, FS_AddElement
  <2> QED  BY <2>1, HeldIsFinite, SameCardinality DEF F!Open, Held
<1>8. \A g \in CountFlag \ {f} : F!Open(g)' = F!Open(g)
  BY <1>6, HeldIsFinite, SameCardinality DEF F!Open, Held
<1>9. (count[f] + 1) % CountRange = F!Open(f) + 1
  BY <1>1, HeldIsFinite, NoWrap DEF ScopesOK
<1>10. count' \in [CountFlag -> 0 .. CountRange - 1] /\ \A g \in CountFlag : count'[g] = F!Open(g)'
  BY <1>1, <1>7, <1>8, <1>9, HeldIsFinite DEF ScopesOK, ScopeSizes
<1>11. \A u \in Thread : Len(scopes'[u]) <= MaxDepth
  BY <1>1, <1>3, <1>4 DEF ScopesOK
<1>12. \A u \in leaving : scopes'[u] # <<>>
  BY <1>1, <1>4 DEF ScopesOK
<1> QED  BY <1>1, <1>4, <1>10, <1>11, <1>12 DEF ScopesOK

LEMMA DecrementKeeps ==
    ASSUME ScopeSizes, ScopesOK, NEW t \in Thread, F!Decrement(t)
    PROVE  ScopesOK'
<1> DEFINE s == scopes[t]
<1>0. PICK f \in CountFlag, n \in Nat \ {0} :
        f = F!Last(s) /\ n = Len(s) /\ n <= MaxDepth
  <2>1. s # <<>> /\ s \in Seq(CountFlag)
    BY DEF F!Decrement, ScopesOK
  <2> QED  BY <2>1, YoungestIsHeld, EmptySeq DEF ScopesOK
<1>1. /\ t \in leaving /\ s # <<>>
      /\ count' = [count EXCEPT ![f] = (@ + CountRange - 1) % CountRange]
      /\ scopes' = [scopes EXCEPT ![t] = F!Front(s)]
      /\ leaving' = leaving \ {t}
      /\ UNCHANGED <<flag, flagScopes, terminated>>
  BY <1>0 DEF F!Decrement, ScopesOK
<1>2. f = s[n] /\ <<t, n>> \in Held(f) /\ count[f] > 0
  BY <1>0, <1>1, YoungestIsHeld
<1>3. s \in Seq(CountFlag) /\ n = Len(s)
  BY <1>0 DEF ScopesOK
<1>4. /\ F!Front(s) \in Seq(CountFlag) /\ Len(F!Front(s)) = n - 1
      /\ \A i \in 1 .. n - 1 : F!Front(s)[i] = s[i]
  BY <1>0, <1>3, SubSeqProperties DEF F!Front
<1>5. /\ \A u \in Thread \ {t} : scopes'[u] = scopes[u]
      /\ scopes'[t] = F!Front(s)
      /\ scopes' \in [Thread -> Seq(CountFlag)]
  BY <1>1, <1>4 DEF ScopesOK
<1>6. \A g \in CountFlag, u \in Thread, i \in 1 .. MaxDepth :
        i <= Len(scopes'[u]) /\ scopes'[u][i] = g
          <=> (i <= Len(scopes[u]) /\ scopes[u][i] = g) /\ ~(u = t /\ i = n)
  <2> TAKE g \in CountFlag, u \in Thread, i \in 1 .. MaxDepth
  <2>1. CASE u # t
    BY <1>5, <2>1
  <2>2. CASE u = t
    BY <1>0, <1>3, <1>4, <1>5, <2>2
  <2> QED  BY <2>1, <2>2
<1> HIDE DEF s
<1>7. Held(f)' = Held(f) \ {<<t, n>>}
  <2>1. \A u \in Thread, i \in 1 .. MaxDepth :
          <<u, i>> \in Held(f)' <=> <<u, i>> \in Held(f) /\ ~(u = t /\ i = n)
    <3> TAKE u \in Thread, i \in 1 .. MaxDepth
    <3>1. <<u, i>> \in Held(f)' <=> i <= Len(scopes'[u]) /\ scopes'[u][i] = f
      BY DEF Held
    <3>2. <<u, i>> \in Held(f) <=> i <= Len(scopes[u]) /\ scopes[u][i] = f
      BY DEF Held
    <3> QED  BY <1>2, <1>6, <3>1, <3>2
  <2>2. Held(f)' \subseteq Thread \X (1 .. MaxDepth) /\ Held(f) \subseteq Thread \X (1 .. MaxDepth)
    BY DEF Held
  <2> QED  BY <2>1, <2>2
<1>8. ASSUME NEW g \in CountFlag \ {f} PROVE Held(g)' = Held(g)
  <2>1. \A u \in Thread, i \in 1 .. MaxDepth :
          i <= Len(scopes'[u]) /\ scopes'[u][i] = g
            <=> i <= Len(scopes[u]) /\ scopes[u][i] = g
    BY <1>2, <1>6 DEF s
  <2> QED  BY <2>1 DEF Held
<1>9. F!Open(f)' = F!Open(f) - 1
  <2>1. Cardinality(Held(f)') = Cardinality(Held(f)) - 1
    BY <1>2, <1>7, HeldIsFinite, FS_RemoveElement
  <2> QED  BY <2>1, HeldIsFinite, SameCardinality DEF F!Open, Held
<1>10. \A g \in CountFlag \ {f} : F!Open(g)' = F!Open(g)
  BY <1>8, HeldIsFinite, SameCardinality DEF F!Open, Held
<1>11. (count[f] + CountRange - 1) % CountRange = F!Open(f) - 1
  BY <1>2, NoWrap DEF ScopesOK
<1>12. count' \in [CountFlag -> 0 .. CountRange - 1]
       /\ \A g \in CountFlag : count'[g] = F!Open(g)'
  <2>1. F!Open(f) \in 1 .. CountRange - 1 /\ count \in [CountFlag -> 0 .. CountRange - 1]
    BY <1>2 DEF ScopesOK
  <2>2. count' = [count EXCEPT ![f] = F!Open(f) - 1]
    BY <1>1, <1>2, <1>11 DEF ScopesOK
  <2>3. \A g \in CountFlag \ {f} : count'[g] = F!Open(g)'
    BY <1>10, <2>1, <2>2 DEF ScopesOK
  <2>4. count'[f] = F!Open(f)'
    BY <1>2, <1>9, <2>1, <2>2
  <2>5. F!Open(f) - 1 \in 0 .. CountRange - 1
    BY <2>1 DEF ScopeSizes
  <2> QED  BY <2>1, <2>2, <2>3, <2>4, <2>5
<1>13. \A u \in Thread : Len(scopes'[u]) <= MaxDepth
  <2> TAKE u \in Thread
  <2>1. CASE u # t
    BY <1>5, <2>1 DEF ScopesOK
  <2>2. CASE u = t
    BY <1>0, <1>4, <1>5, <2>2 DEF ScopeSizes
  <2> QED  BY <2>1, <2>2
<1>14. \A u \in leaving \ {t} : scopes'[u] # <<>>
  BY <1>5 DEF ScopesOK
<1> QED  BY <1>1, <1>5, <1>12, <1>13, <1>14 DEF ScopesOK

\* Each flag tells whether a scope of its is open, for any number of threads and
\* flags; no destructor finds a count of zero, which would end the program; and
\* a ScopeFlag that is refused leaves the flag to the one that holds it.
THEOREM FlagsAreRight ==
    ASSUME ScopeSizes, ~NDEBUG
    PROVE  F!Spec => []FlagsTellScopes
<1>1. F!Init => ScopesOK
  <2> SUFFICES ASSUME F!Init PROVE ScopesOK
    OBVIOUS
  <2>1. ASSUME NEW f \in CountFlag PROVE F!Open(f) = 0
    <3>1. Held(f) = {}
      BY DEF F!Init, Held
    <3> QED  BY <3>1, HeldIsFinite, FS_EmptySet
  <2> QED  BY <2>1 DEF F!Init, ScopesOK, ScopeSizes
<1>2. ScopesOK /\ [F!Next]_(F!vars) => ScopesOK'
  <2> SUFFICES ASSUME ScopesOK, [F!Next]_(F!vars) PROVE ScopesOK'
    OBVIOUS
  <2>1. ASSUME UNCHANGED scopes PROVE \A f \in CountFlag : F!Open(f)' = F!Open(f)
    BY <2>1 DEF F!Open
  <2>2. CASE F!EnterFlag \/ F!LeaveFlag
    BY <2>1, <2>2 DEF F!EnterFlag, F!LeaveFlag, ScopesOK
  <2>3. ASSUME NEW t \in Thread, NEW f \in CountFlag, F!Enter(t, f) PROVE ScopesOK'
    BY <2>3, EnterKeeps
  <2>4. ASSUME NEW t \in Thread, F!Leave(t) PROVE ScopesOK'
    <3>1. count[F!Last(scopes[t])] # 0
      <4>1. F!Last(scopes[t]) \in CountFlag /\ count[F!Last(scopes[t])] > 0
        BY <2>4, YoungestIsHeld DEF F!Leave
      <4> QED  BY <4>1 DEF ScopesOK
    <3>2. /\ leaving' = leaving \cup {t} /\ scopes[t] # <<>>
          /\ UNCHANGED <<flag, flagScopes, count, scopes, terminated>>
      BY <2>4, <3>1 DEF F!Leave
    <3> QED  BY <2>1, <3>2 DEF ScopesOK
  <2>5. ASSUME NEW t \in Thread, F!Decrement(t) PROVE ScopesOK'
    BY <2>5, DecrementKeeps
  <2>6. ASSUME NEW f \in CountFlag, NEW g \in CountFlag, F!Assign(f, g)
        PROVE  ScopesOK'
    BY <2>1, <2>6 DEF F!Assign, F!CopiedCount, ScopesOK, ScopeSizes
  <2>7. CASE UNCHANGED F!vars
    BY <2>1, <2>7 DEF F!vars, ScopesOK
  <2> QED  BY <2>2, <2>3, <2>4, <2>5, <2>6, <2>7 DEF F!Next
<1>3. ScopesOK => FlagsTellScopes
  BY DEF ScopesOK, FlagsTellScopes, F!FlagsTellScopes
<1> QED  BY <1>1, <1>2, <1>3, PTL DEF F!Spec

-----------------------------------------------------------------------------
(* AveragingWindow *)

\* The totals are those of SequenceProofs.
LEMMA WindowTotal == \A values : W!Total(values) = Total(values)
BY DEF W!Total, Total, W!FoldLeft, Str!FoldLeft, W!MapThenFoldSet, Str!MapThenFoldSet,
       W!Max, Str!Max

-----------------------------------------------------------------------------
(* AveragingWindow: the steps *)

\* Where the i-th value is, from the oldest on.
Slot(i) ==
    IF index_ + i - 1 < elementCount THEN index_ + i - 1
    ELSE index_ + i - 1 - elementCount

WindowTypes ==
    /\ index_ \in 0 .. elementCount - 1
    /\ elements_ \in [0 .. elementCount - 1 -> Nat]
    /\ recent \in Seq(Nat) /\ Len(recent) = elementCount
    /\ isFull_ = TRUE \/ isFull_ = FALSE
    /\ added \in 0 .. elementCount

\* The ring that is written over is the window, from index_ around to index_,
\* and the sum is that of the window, modulo the range of T, which it may have
\* left in between.
WindowOK ==
    /\ WindowTypes
    /\ \A i \in 1 .. elementCount : recent[i] = elements_[Slot(i)]
    /\ sum_ = W!Total(recent) % SumRange
    /\ isFull_ = TRUE <=> added = elementCount
    /\ isFull_ = FALSE => added = index_

\* Each place holds one value.
LEMMA PlacesAround ==
    ASSUME elementCount \in Nat \ {0}, index_ \in 0 .. elementCount - 1
    PROVE  /\ \A i \in 1 .. elementCount : Slot(i) \in 0 .. elementCount - 1
           /\ Slot(1) = index_
           /\ \A i \in 2 .. elementCount : Slot(i) # index_
           /\ \A p \in 0 .. elementCount - 1 : \E i \in 1 .. elementCount : Slot(i) = p
<1>1. ASSUME NEW p \in 0 .. elementCount - 1
      PROVE  \E i \in 1 .. elementCount : Slot(i) = p
  <2>1. CASE p >= index_
    <3>1. p - index_ + 1 \in 1 .. elementCount /\ Slot(p - index_ + 1) = p
      BY <2>1 DEF Slot
    <3> QED  BY <3>1
  <2>2. CASE p < index_
    <3>1. /\ p - index_ + 1 + elementCount \in 1 .. elementCount
          /\ Slot(p - index_ + 1 + elementCount) = p
      BY <2>2 DEF Slot
    <3> QED  BY <3>1
  <2> QED  BY <2>1, <2>2
<1> QED  BY <1>1 DEF Slot

\* A window of one value.
Filled(value) ==
    /\ index_ = 0 /\ elements_ = [i \in 0 .. elementCount - 1 |-> value]
    /\ recent = [i \in 1 .. elementCount |-> value]
    /\ sum_ = (value * elementCount) % SumRange
    /\ \/ isFull_ = FALSE /\ added = 0
       \/ isFull_ = TRUE /\ added = elementCount

LEMMA WindowFilled ==
    ASSUME WindowSizes, NEW value \in Nat, Filled(value)
    PROVE  WindowOK
<1> USE DEF Filled
<1>1. elementCount \in Nat /\ elementCount > 0
  BY DEF WindowSizes
<1>2. W!Total(recent) = value * elementCount
  BY <1>1, TotalOfSame, WindowTotal
<1>3. recent \in Seq(Nat) /\ Len(recent) = elementCount
  BY <1>1
<1>4. elements_ \in [0 .. elementCount - 1 -> Nat] /\ index_ \in 0 .. elementCount - 1
  BY <1>1
<1>5. \A i \in 1 .. elementCount : recent[i] = elements_[Slot(i)]
  BY <1>1, <1>4, PlacesAround
<1>6. 0 # elementCount /\ 0 \in 0 .. elementCount /\ elementCount \in 0 .. elementCount
  BY <1>1
<1> QED  BY <1>2, <1>3, <1>4, <1>5, <1>6 DEF WindowOK, WindowTypes

LEMMA WindowStarts == ASSUME WindowSizes, W!Init PROVE WindowOK
<1>1. elementCount \in Nat /\ SumRange \in Nat \ {0} /\ Element \subseteq Nat
  BY DEF WindowSizes
<1>2. CASE W!Filled(0) /\ sum_ = 0 /\ isFull_ = FALSE /\ added = 0
  <2>1. (0 * elementCount) % SumRange = 0
    BY <1>1
  <2>2. Filled(0)
    BY <1>2, <2>1 DEF Filled, W!Filled, W!Places
  <2> QED  BY <2>2, WindowFilled
<1>3. ASSUME NEW value \in Element, W!Filled(value),
             sum_ = (value * elementCount) % SumRange,
             isFull_ = TRUE, added = elementCount
      PROVE  WindowOK
  <2>1. value \in Nat /\ Filled(value)
    BY <1>1, <1>3 DEF Filled, W!Filled, W!Places
  <2> QED  BY <2>1, WindowFilled
<1> QED  BY <1>2, <1>3 DEF W!Init

LEMMA WindowEmpty == WindowSizes /\ Filled(0) => WindowOK
BY WindowFilled

LEMMA WindowResets == ASSUME WindowSizes, W!Reset PROVE WindowOK'
<1>1. elementCount \in Nat /\ SumRange \in Nat \ {0}
  BY DEF WindowSizes
<1>2. (0 * elementCount) % SumRange = 0 /\ 0 \in Nat
  BY <1>1
<1>3. Filled(0)'
  BY <1>2 DEF Filled, W!Reset, W!Places
<1>4. WindowSizes'
  BY DEF WindowSizes
<1> QED  BY <1>3, <1>4, WindowEmpty, PTL

LEMMA WindowMoves ==
    ASSUME WindowSizes, WindowOK, NEW element \in Element, W!AddElement(element)
    PROVE  WindowOK'
<1>1. PICK N : N = elementCount
  OBVIOUS
<1>2. PICK x : x = index_
  OBVIOUS
<1>3. PICK y : y = index_'
  OBVIOUS
<1>4. PICK e : e = elements_
  OBVIOUS
<1>5. PICK old : old = recent
  OBVIOUS
<1>6. /\ N \in Nat \ {0} /\ x \in 0 .. N - 1 /\ e \in [0 .. N - 1 -> Nat]
      /\ old \in Seq(Nat) /\ Len(old) = N /\ element \in Nat /\ SumRange \in Nat \ {0}
  BY <1>1, <1>2, <1>4, <1>5 DEF WindowSizes, WindowOK, WindowTypes
<1>7. y = IF x + 1 = N THEN 0 ELSE x + 1
  <2>1. y = (x + 1) % N
    BY <1>1, <1>2, <1>3 DEF W!AddElement
  <2>2. CASE x + 1 = N
    <3>1. x + 1 = N * 1 + 0 /\ 0 \in 0 .. N - 1 /\ x + 1 \in Int
      BY <1>6, <2>2
    <3>2. (x + 1) % N = 0
      BY <1>6, <3>1, RemainderOf
    <3> QED  BY <2>1, <2>2, <3>2
  <2>3. CASE x + 1 # N
    <3>1. PICK z : z = x + 1
      OBVIOUS
    <3>2. z = N * 0 + z /\ z \in 0 .. N - 1 /\ z \in Int /\ 0 \in Int /\ N \in Nat \ {0}
      BY <1>6, <2>3, <3>1
    <3>3. z % N = z
      BY <3>2, RemainderOf
    <3> QED  BY <2>1, <2>3, <3>1, <3>3
  <2> QED  BY <2>1, <2>2, <2>3
<1>8. y \in 0 .. N - 1
  BY <1>6, <1>7
<1>9. elements_' = [e EXCEPT ![x] = element]
  BY <1>2, <1>4 DEF W!AddElement
<1>10. recent' = Append(Tail(old), element)
  BY <1>5 DEF W!AddElement
<1>11. /\ recent' \in Seq(Nat) /\ Len(recent') = N
       /\ \A i \in 1 .. N - 1 : recent'[i] = old[i + 1]
       /\ recent'[N] = element
       /\ W!Total(recent') = W!Total(old) - old[1] + element
  <2>1. Total(recent') = Total(old) - old[1] + element
    BY <1>6, <1>10, TotalMovesOn
  <2>2. W!Total(recent') = Total(recent') /\ W!Total(old) = Total(old)
    BY WindowTotal
  <2> QED  BY <1>6, <1>10, <2>1, <2>2, TotalMovesOn
<1>12. old[1] = e[x] /\ \A i \in 2 .. N : old[i] = e[Slot(i)] /\ Slot(i) # x /\ Slot(i) \in 0 .. N - 1
  <2>1. Slot(1) = x /\ \A i \in 2 .. N : Slot(i) # x /\ Slot(i) \in 0 .. N - 1
    <3>1. elementCount \in Nat \ {0} /\ index_ \in 0 .. elementCount - 1
      BY <1>1, <1>2, <1>6
    <3>2. /\ \A i \in 1 .. elementCount : Slot(i) \in 0 .. elementCount - 1
          /\ Slot(1) = index_
          /\ \A i \in 2 .. elementCount : Slot(i) # index_
      BY <3>1, PlacesAround
    <3>3. \A i \in 2 .. N : i \in 1 .. N
      BY <1>6
    <3> QED  BY <1>1, <1>2, <3>2, <3>3
  <2>2. \A i \in 1 .. N : old[i] = e[Slot(i)]
    BY <1>1, <1>4, <1>5 DEF WindowOK
  <2>3. 1 \in 1 .. N /\ \A i \in 2 .. N : i \in 1 .. N
    BY <1>6
  <2> QED  BY <2>1, <2>2, <2>3
<1>13. Slot(N)' = x /\ \A i \in 1 .. N - 1 : Slot(i)' = Slot(i + 1)
  <2>1. \A i : Slot(i) = IF x + i - 1 < N THEN x + i - 1 ELSE x + i - 1 - N
    BY <1>1, <1>2 DEF Slot
  <2>2. \A i : Slot(i)' = IF y + i - 1 < N THEN y + i - 1 ELSE y + i - 1 - N
    BY <1>1, <1>3 DEF Slot
  <2>3. Slot(N)' = x
    <3>1. (y + N) - 1 \in Int /\ IF y + N - 1 < N THEN y + N - 1 = x ELSE y + N - 1 - N = x
      BY <1>6, <1>7
    <3> QED  BY <2>2, <3>1
  <2>4. ASSUME NEW i \in 1 .. N - 1 PROVE Slot(i)' = Slot(i + 1)
    <3>1. (IF y + i - 1 < N THEN y + i - 1 ELSE y + i - 1 - N)
            = IF x + (i + 1) - 1 < N THEN x + (i + 1) - 1 ELSE x + (i + 1) - 1 - N
      BY <1>6, <1>7
    <3> QED  BY <2>1, <2>2, <3>1
  <2> QED  BY <2>3, <2>4
<1>14. \A i \in 1 .. N : recent'[i] = elements_'[Slot(i)']
  <2>1. recent'[N] = elements_'[Slot(N)']
    BY <1>6, <1>9, <1>11, <1>13
  <2>2. ASSUME NEW i \in 1 .. N - 1 PROVE recent'[i] = elements_'[Slot(i)']
    <3>1. i + 1 \in 2 .. N
      BY <1>6
    <3>2. recent'[i] = e[Slot(i + 1)] /\ Slot(i)' = Slot(i + 1)
      BY <1>11, <1>12, <1>13, <3>1
    <3>3. elements_'[Slot(i + 1)] = e[Slot(i + 1)]
      BY <1>6, <1>9, <1>12, <3>1
    <3> QED  BY <3>2, <3>3
  <2>3. \A i \in 1 .. N : i = N \/ i \in 1 .. N - 1
    BY <1>6
  <2> QED  BY <2>1, <2>2, <2>3
<1>15. sum_' = W!Total(recent') % SumRange
  <2>1. PICK total : total = W!Total(old)
    OBVIOUS
  <2>2. PICK next : next = W!Total(recent')
    OBVIOUS
  <2>3. total \in Nat /\ old[1] \in Nat
    <3>1. Total(old) = total
      BY <2>1, WindowTotal
    <3>2. total \in Nat
      BY <1>6, <3>1, TotalIsNat
    <3> QED  BY <1>6, <3>2
  <2>4. sum_' = ((total % SumRange) - old[1] + element) % SumRange
    BY <1>2, <1>4, <1>5, <1>12, <2>1 DEF W!AddElement, W!Replaced, WindowOK
  <2>5. PICK rest : rest = total % SumRange
    OBVIOUS
  <2>6. rest \in Int
    BY <1>6, <2>3, <2>5
  <2>7. PICK change : change = element - old[1] /\ change \in Int
    BY <1>6, <2>3
  <2>8. rest - old[1] + element = rest + change /\ total - old[1] + element = total + change
    BY <1>6, <2>3, <2>6, <2>7
  <2>9. (rest + change) % SumRange = (total + change) % SumRange
    <3>1. SumRange \in Nat \ {0} /\ total \in Int /\ change \in Int
      BY <1>6, <2>3, <2>7
    <3>2. ((total % SumRange) + change) % SumRange = (total + change) % SumRange
      BY <3>1, AddedRemainder
    <3> QED  BY <2>5, <3>2
  <2> QED  BY <1>11, <2>1, <2>4, <2>5, <2>8, <2>9
<1>16. /\ isFull_' = TRUE \/ isFull_' = FALSE
       /\ added' \in 0 .. N
       /\ isFull_' = TRUE <=> added' = N
       /\ isFull_' = FALSE => added' = y
  <2>1. PICK m : m = added
    OBVIOUS
  <2>2. PICK n : n = added'
    OBVIOUS
  <2>3. m \in 0 .. N /\ (isFull_ = TRUE <=> m = N) /\ (isFull_ = FALSE => m = x)
        /\ (isFull_ = TRUE \/ isFull_ = FALSE)
    BY <1>1, <1>2, <2>1 DEF WindowOK, WindowTypes
  <2>4. n = W!Min({m + 1, N})
    BY <1>1, <2>1, <2>2 DEF W!AddElement
  <2>5. n = IF m = N THEN N ELSE m + 1
    <3>1. m + 1 \in Nat /\ N \in Nat /\ (m # N => m + 1 <= N) /\ (m = N => N <= m + 1)
      BY <1>6, <2>3
    <3>2. \E a \in {m + 1, N} : \A b \in {m + 1, N} : a <= b
      BY <3>1
    <3>3. n \in {m + 1, N} /\ \A b \in {m + 1, N} : n <= b
      BY <2>4, <3>2 DEF W!Min
    <3> QED  BY <1>6, <2>3, <3>3
  <2>6. isFull_' = (isFull_ \/ y = 0)
    BY <1>3 DEF W!AddElement, W!CheckIsFull
  <2>7. CASE isFull_ = TRUE
    BY <1>6, <2>2, <2>3, <2>5, <2>6, <2>7
  <2>8. CASE isFull_ = FALSE
    <3>1. m = x /\ m # N /\ n = x + 1
      BY <2>3, <2>5, <2>8
    <3>2. isFull_' = (y = 0)
      BY <2>6, <2>8
    <3>3. y = 0 <=> n = N
      BY <1>6, <1>7, <3>1
    <3>4. y # 0 => n = y
      BY <1>7, <3>1
    <3>5. n \in 0 .. N
      BY <1>6, <3>1
    <3> QED  BY <2>2, <3>2, <3>3, <3>4, <3>5
  <2> QED  BY <2>3, <2>7, <2>8
<1>17. elements_' \in [0 .. N - 1 -> Nat]
  BY <1>6, <1>9
<1> QED  BY <1>1, <1>3, <1>8, <1>11, <1>14, <1>15, <1>16, <1>17 DEF WindowOK, WindowTypes

\* The answers are those of the window.
LEMMA WindowAnswers ==
    ASSUME WindowSizes, WindowOK
    PROVE  WindowIsRecent
<1>1. W!Range(elements_) = W!Range(recent)
  <2>1. elementCount \in Nat \ {0} /\ index_ \in 0 .. elementCount - 1
    BY DEF WindowSizes, WindowOK, WindowTypes
  <2>2. DOMAIN elements_ = 0 .. elementCount - 1 /\ DOMAIN recent = 1 .. elementCount
    BY <2>1 DEF WindowOK, WindowTypes
  <2>3. /\ \A i \in 1 .. elementCount : Slot(i) \in 0 .. elementCount - 1
        /\ \A p \in 0 .. elementCount - 1 : \E i \in 1 .. elementCount : Slot(i) = p
    BY <2>1, PlacesAround
  <2>4. \A i \in 1 .. elementCount : recent[i] = elements_[Slot(i)]
    BY DEF WindowOK
  <2> QED  BY <2>2, <2>3, <2>4 DEF W!Range
<1>2. PICK total : total = W!Total(recent)
  OBVIOUS
<1>3. total \in Nat
  <2>1. recent \in Seq(Nat)
    BY DEF WindowOK, WindowTypes
  <2>2. Total(recent) = total
    BY <1>2, WindowTotal
  <2> QED  BY <2>1, <2>2, TotalIsNat
<1>4. total < SumRange => sum_ = total
  <2>1. sum_ = total % SumRange /\ SumRange \in Nat \ {0}
    BY <1>2 DEF WindowOK, WindowSizes
  <2>2. ASSUME NEW m \in Nat, total < m PROVE total % m = total
    BY <1>3, <2>2
  <2> QED  BY <2>1, <2>2
<1>5. isFull_ <=> added = elementCount
  BY DEF WindowOK, WindowTypes
<1> QED  BY <1>1, <1>2, <1>4, <1>5 DEF WindowIsRecent, W!WindowIsRecent, W!GetAverage, W!GetMinimum, W!GetMaximum

\* After any number of rounds, of resets and of sums that did not fit into T,
\* the average, the extremes and IsFull are those of the last elementCount values.
THEOREM WindowAlwaysRecent ==
    ASSUME WindowSizes
    PROVE  W!Spec => []WindowIsRecent
<1>1. W!Init => WindowOK
  BY WindowStarts
<1>2. WindowOK /\ [W!Next]_(W!vars) => WindowOK'
  <2> SUFFICES ASSUME WindowOK, [W!Next]_(W!vars) PROVE WindowOK'
    OBVIOUS
  <2>1. CASE UNCHANGED W!vars
    BY <2>1 DEF W!vars, WindowOK, WindowTypes, Slot
  <2> QED  BY <2>1, WindowMoves, WindowResets DEF W!Next
<1>3. WindowOK => WindowIsRecent
  BY WindowAnswers
<1> QED  BY <1>1, <1>2, <1>3, PTL DEF W!Spec

-----------------------------------------------------------------------------
(* Transaction *)

\* Below the operations that are still to be undone are those that a Commit
\* made lasting, as functions that do nothing; and what is in effect beyond
\* what was kept is what the stack has above them, element by element.
Unwinds(m) ==
    /\ \A i \in 1 .. Len(stack) : stack[i] = NoOp <=> i <= m
    /\ Len(effects) = Len(kept) + (Len(stack) - m)
    /\ \A i \in 1 .. Len(kept) : effects[i] = kept[i]
    /\ \A i \in 1 .. Len(stack) - m : effects[Len(kept) + i] = stack[m + i]

TransactionTypes ==
    /\ stack \in Seq(Op \cup {NoOp})
    /\ doing \in Seq(Op)
    /\ effects \in Seq(Op)
    /\ kept \in Seq(Op)

TransactionOK == TransactionTypes /\ \E m \in 0 .. Len(stack) : Unwinds(m)

\* Whatever throws, an operation is under way or in effect, or neither, and its
\* function is kept once and while it is in effect.
Among(s, o) == \E i \in 1 .. Len(s) : s[i] = o

OnceEach ==
    /\ \A i, j \in 1 .. Len(doing) : doing[i] = doing[j] => i = j
    /\ \A i \in 1 .. Len(doing) : ~Among(effects, doing[i])
    /\ \A i, j \in 1 .. Len(stack) : stack[i] = stack[j] => i = j \/ stack[i] = NoOp
    /\ \A i \in 1 .. Len(stack) : stack[i] = NoOp \/ Among(effects, stack[i])

UndoesOK ==
    /\ TransactionTypes /\ OnceEach /\ broken \in BOOLEAN
    /\ ~broken => TransactionOK

\* Functions are called one after the other, the first first.
LEMMA CalledInOrder ==
    ASSUME NEW done, NEW undos \in Seq(Op \cup {NoOp})
    PROVE  \E called :
             /\ called[0] = done
             /\ \A n \in 1 .. Len(undos) :
                    called[n] = T!Undo(called[n - 1], undos[n])
             /\ T!FoldLeft(T!Undo, done, undos) = called[Len(undos)]
<1> DEFINE D == DOMAIN undos
           Step(iter, s) == IF s = {} THEN done
                            ELSE T!Undo(iter[s \ {T!Max(s)}], undos[T!Max(s)])
           IsFold(iter, S) == iter = [s \in SUBSET S |-> Step(iter, s)]
           fold == CHOOSE iter : IsFold(iter, D)
<1>1. T!FoldLeft(T!Undo, done, undos) = fold[D]
  BY DEF T!FoldLeft, T!MapThenFoldSet
<1>2. D = 1 .. Len(undos) /\ Len(undos) \in Nat
  OBVIOUS
<1>3. ASSUME NEW s, NEW n \in s, s \subseteq 1 .. n, n \in Nat PROVE T!Max(s) = n
  <2>1. \A y \in s : n >= y
    BY <1>3
  <2>2. \A x \in s : (\A y \in s : x >= y) => x = n
    BY <1>3, <2>1
  <2> QED  BY <1>3, <2>1, <2>2 DEF T!Max
<1>4. ASSUME NEW n \in Nat, NEW s \in SUBSET (1 .. n), s # {} PROVE T!Max(s) \in s
  <2>1. \E x \in s : \A y \in s : x >= y
    BY <1>4, LargestElement
  <2> QED  BY <2>1 DEF T!Max
<1>5. \E iter : IsFold(iter, D)
  <2> DEFINE Exists(n) == \E iter : IsFold(iter, 1 .. n)
             Bad == {n \in 0 .. Len(undos) : ~Exists(n)}
  <2> HIDE DEF Exists
  <2>1. SUFFICES ASSUME Bad # {} PROVE FALSE
    <3>1. Len(undos) \in 0 .. Len(undos)
      BY <1>2
    <3>2. Exists(Len(undos))
      BY <2>1, <3>1
    <3> QED  BY <1>2, <3>2 DEF Exists
  <2>2. PICK n \in Bad : \A m \in Bad : n <= m
    <3>1. Bad \in SUBSET Nat
      OBVIOUS
    <3> HIDE DEF Bad
    <3> QED  BY <2>1, <3>1, LeastElement
  <2>3. n \in 0 .. Len(undos) /\ n \in Nat /\ ~Exists(n)
    BY <1>2, <2>2
  <2>4. CASE n = 0
    <3> DEFINE one == [s \in SUBSET (1 .. 0) |-> done]
    <3>1. \A s \in SUBSET (1 .. 0) : s = {}
      OBVIOUS
    <3>2. \A s \in SUBSET (1 .. 0) : Step(one, s) = done
      BY <3>1
    <3> HIDE DEF Step
    <3>3. IsFold(one, 1 .. 0)
      BY <3>2
    <3> QED  BY <2>3, <2>4, <3>3 DEF Exists
  <2>5. CASE n # 0
    <3>1. n - 1 \in 0 .. Len(undos) /\ n - 1 \in Nat /\ n \in 1 .. n
      BY <1>2, <2>3, <2>5
    <3>2. Exists(n - 1)
      BY <2>2, <2>3, <3>1
    <3>3. PICK part : IsFold(part, 1 .. n - 1)
      BY <3>2 DEF Exists
    <3> DEFINE all == [s \in SUBSET (1 .. n) |->
                        IF n \in s THEN T!Undo(part[s \ {n}], undos[n]) ELSE part[s]]
    <3>4. \A s \in SUBSET (1 .. n) : s \ {n} \in SUBSET (1 .. n - 1)
      BY <2>3
    <3>5. \A s \in SUBSET (1 .. n - 1) :
            /\ s \in SUBSET (1 .. n) /\ n \notin s
            /\ all[s] = part[s] /\ part[s] = Step(part, s)
      <4> SUFFICES ASSUME NEW s \in SUBSET (1 .. n - 1)
                   PROVE  /\ s \in SUBSET (1 .. n) /\ n \notin s
                          /\ all[s] = part[s] /\ part[s] = Step(part, s)
        OBVIOUS
      <4>1. s \in SUBSET (1 .. n) /\ n \notin s
        BY <2>3
      <4> HIDE DEF Step
      <4> QED  BY <3>3, <4>1
    <3>6. ASSUME NEW s \in SUBSET (1 .. n) PROVE all[s] = Step(all, s)
      <4>1. CASE n \in s
        <5>1. T!Max(s) = n
          BY <1>3, <2>3, <4>1
        <5>2. s \ {n} \in SUBSET (1 .. n - 1)
          BY <3>4
        <5>3. all[s \ {n}] = part[s \ {n}]
          BY <3>5, <5>2
        <5>4. all[s] = T!Undo(part[s \ {n}], undos[n])
          BY <4>1
        <5> HIDE DEF all
        <5> QED  BY <4>1, <5>1, <5>3, <5>4
      <4>2. CASE n \notin s
        <5>1. s \in SUBSET (1 .. n - 1)
          BY <3>4, <4>2
        <5>2. all[s] = Step(part, s)
          BY <3>5, <5>1
        <5>3. s # {} => all[s \ {T!Max(s)}] = part[s \ {T!Max(s)}]
          <6>1. s \ {T!Max(s)} \in SUBSET (1 .. n - 1)
            BY <5>1
          <6> HIDE DEF all
          <6> QED  BY <3>5, <6>1
        <5> HIDE DEF all
        <5> QED  BY <5>2, <5>3
      <4> QED  BY <4>1, <4>2
    <3>7. IsFold(all, 1 .. n)
      <4> HIDE DEF Step
      <4> QED  BY <3>6
    <3> QED  BY <2>3, <3>7 DEF Exists
  <2> QED  BY <2>4, <2>5
<1>6. IsFold(fold, D)
  BY <1>5
<1> HIDE DEF fold, D
<1>7. \A s \in SUBSET D : fold[s] = Step(fold, s)
  BY <1>6
<1> DEFINE called == [n \in 0 .. Len(undos) |-> fold[1 .. n]]
<1>8. called[0] = done
  <2>1. 1 .. 0 = {} /\ {} \in SUBSET D
    OBVIOUS
  <2>2. fold[{}] = done
    BY <1>7, <2>1
  <2>3. 0 \in 0 .. Len(undos)
    BY <1>2
  <2> QED  BY <2>1, <2>2, <2>3
<1>9. ASSUME NEW n \in 1 .. Len(undos)
      PROVE  called[n] = T!Undo(called[n - 1], undos[n])
  <2>1. n \in 1 .. n /\ n \in Nat /\ n - 1 \in 0 .. Len(undos) /\ n \in 0 .. Len(undos)
    BY <1>2
  <2>2. 1 .. n \in SUBSET D /\ 1 .. n # {} /\ T!Max(1 .. n) = n
    <3>1. \A i \in 1 .. n : i \in D
      BY <1>2, <2>1
    <3> QED  BY <1>3, <2>1, <3>1
  <2>3. (1 .. n) \ {n} = 1 .. n - 1
    <3>1. \A i : i \in (1 .. n) \ {n} <=> i \in 1 .. n - 1
      BY <2>1
    <3> QED  BY <3>1
  <2>4. fold[1 .. n] = T!Undo(fold[1 .. n - 1], undos[n])
    BY <1>7, <2>2, <2>3
  <2> QED  BY <2>1, <2>4
<1>10. called[Len(undos)] = T!FoldLeft(T!Undo, done, undos)
  BY <1>1, <1>2
<1> HIDE DEF called
<1> QED  BY <1>8, <1>9, <1>10

\* Functions that do nothing undo nothing, however many are called.
LEMMA NoOpsUndoNothing ==
    ASSUME NEW done, NEW undos \in Seq({NoOp})
    PROVE  T!FoldLeft(T!Undo, done, undos) = done
<1>1. undos \in Seq(Op \cup {NoOp}) /\ Len(undos) \in Nat
  OBVIOUS
<1>2. PICK called :
        /\ called[0] = done
        /\ \A n \in 1 .. Len(undos) : called[n] = T!Undo(called[n - 1], undos[n])
        /\ T!FoldLeft(T!Undo, done, undos) = called[Len(undos)]
  BY <1>1, CalledInOrder
<1>3. \A n \in 1 .. Len(undos) : called[n] = called[n - 1]
  <2>1. \A n \in 1 .. Len(undos) : undos[n] = NoOp
    OBVIOUS
  <2> QED  BY <1>2, <2>1 DEF T!Undo
<1> DEFINE Bad == {n \in 0 .. Len(undos) : called[n] # done}
<1>4. SUFFICES ASSUME Bad # {} PROVE FALSE
  BY <1>1, <1>2
<1>5. PICK n \in Bad : \A m \in Bad : n <= m
  <2>1. Bad \in SUBSET Nat
    OBVIOUS
  <2> HIDE DEF Bad
  <2> QED  BY <1>4, <2>1, LeastElement
<1>6. n \in 1 .. Len(undos) /\ n - 1 \in 0 .. Len(undos) /\ n - 1 < n
  BY <1>1, <1>2, <1>5
<1>7. n - 1 \notin Bad
  BY <1>5, <1>6
<1> QED  BY <1>3, <1>5, <1>6, <1>7

\* A vector's elements that moved leave nothing to call.
LEMMA NothingAbandoned ==
    ASSUME TransactionTypes, NEW o \in Op, NEW done
    PROVE  T!FoldLeft(T!Undo, done, T!Abandoned(o)) = done
<1>1. T!Abandoned(o) \in Seq({NoOp})
  <2> DEFINE Moved == IF Len(stack) = capacity THEN Append(stack, o) ELSE <<o>>
  <2>1. Moved \in Seq(Op \cup {NoOp})
    <3>1. o \in Op \cup {NoOp} /\ stack \in Seq(Op \cup {NoOp})
      BY DEF TransactionTypes
    <3>2. Append(stack, o) \in Seq(Op \cup {NoOp}) /\ <<o>> \in Seq(Op \cup {NoOp})
      BY <3>1
    <3> QED  BY <3>2
  <2>2. T!Abandoned(o) = [i \in DOMAIN Moved |-> NoOp]
    BY DEF T!Abandoned, T!LeftBehind
  <2> HIDE DEF Moved
  <2>3. DOMAIN Moved = 1 .. Len(Moved) /\ Len(Moved) \in Nat
    BY <2>1
  <2> QED  BY <2>2, <2>3
<1> QED  BY <1>1, NoOpsUndoNothing

\* The invariant is what RollsBack says while no copy broke it.
LEMMA UnwindsRollsBack == ASSUME TransactionOK PROVE effects = kept \o T!Pending
<1>1. PICK m \in 0 .. Len(stack) : Unwinds(m)
  BY DEF TransactionOK
<1>2. /\ Len(stack) \in Nat /\ DOMAIN stack = 1 .. Len(stack)
      /\ Len(kept) \in Nat /\ m \in Nat /\ m <= Len(stack)
  BY <1>1 DEF TransactionOK, TransactionTypes
<1> DEFINE Undoing == {i \in DOMAIN stack : stack[i] # NoOp}
           Rank(i) == T!Cardinality({j \in Undoing : j <= i})
           size == Len(stack) - m
           Place(n) == CHOOSE i \in Undoing : Rank(i) = n
<1>3. Undoing = (m + 1) .. Len(stack)
  BY <1>1, <1>2 DEF Unwinds
<1>4. \A S : T!Cardinality(S) = Cardinality(S)
  BY DEF T!Cardinality, Cardinality, T!IsFiniteSet, IsFiniteSet
<1>5. T!Cardinality(Undoing) = size /\ size \in Nat
  <2>1. Cardinality((m + 1) .. Len(stack)) = Len(stack) - m
    <3>1. m + 1 \in Int /\ Len(stack) \in Int
      BY <1>2
    <3>2. Cardinality((m + 1) .. Len(stack))
              = IF m + 1 > Len(stack) THEN 0 ELSE Len(stack) - (m + 1) + 1
      BY <3>1, FS_Interval
    <3> QED  BY <1>2, <3>2
  <2>2. size \in Nat
    BY <1>2
  <2>3. T!Cardinality(Undoing) = Cardinality(Undoing)
    BY <1>4
  <2> HIDE DEF Undoing
  <2> QED  BY <1>3, <2>1, <2>2, <2>3
<1>6. \A i \in Undoing : Rank(i) = i - m
  <2> SUFFICES ASSUME NEW i \in Undoing PROVE Rank(i) = i - m
    OBVIOUS
  <2>1. i \in Nat /\ m + 1 <= i /\ {j \in Undoing : j <= i} = (m + 1) .. i
    BY <1>2, <1>3
  <2>2. Cardinality((m + 1) .. i) = i - m
    <3>1. m + 1 \in Int /\ i \in Int
      BY <1>2, <2>1
    <3>2. Cardinality((m + 1) .. i) = IF m + 1 > i THEN 0 ELSE i - (m + 1) + 1
      BY <3>1, FS_Interval
    <3> QED  BY <1>2, <2>1, <3>2
  <2>3. Rank(i) = Cardinality({j \in Undoing : j <= i})
    BY <1>4
  <2> HIDE DEF Undoing, Rank
  <2> QED  BY <2>1, <2>2, <2>3
<1>7. T!Pending = [n \in 1 .. T!Cardinality(Undoing) |-> stack[Place(n)]]
  BY DEF T!Pending
<1> HIDE DEF Rank
<1>8. \A n \in 1 .. size : Place(n) = m + n
  <2> SUFFICES ASSUME NEW n \in 1 .. size PROVE Place(n) = m + n
    OBVIOUS
  <2>1. m + n \in Undoing /\ Rank(m + n) = n
    BY <1>2, <1>3, <1>6
  <2>2. \A i \in Undoing : Rank(i) = n => i = m + n
    BY <1>2, <1>3, <1>6
  <2> HIDE DEF Undoing
  <2> QED  BY <2>1, <2>2
<1> HIDE DEF Undoing
<1>9. T!Pending = [n \in 1 .. size |-> stack[m + n]]
  <2> HIDE DEF size, Place
  <2> QED  BY <1>5, <1>7, <1>8
<1> HIDE DEF size
<1>p. PICK pending : pending = T!Pending
  OBVIOUS
<1>10. pending \in Seq(Op \cup {NoOp}) /\ Len(pending) = size /\ \A n \in 1 .. size : pending[n] = stack[m + n]
  <2>1. \A n \in 1 .. size : stack[m + n] \in Op \cup {NoOp}
    BY <1>2 DEF size, TransactionOK, TransactionTypes
  <2>2. pending = [n \in 1 .. size |-> stack[m + n]]
    BY <1>9, <1>p
  <2> QED  BY <1>5, <2>1, <2>2
<1>11. /\ effects \in Seq(Op \cup {NoOp}) /\ kept \in Seq(Op \cup {NoOp})
       /\ Len(effects) = Len(kept) + size
       /\ \A i \in 1 .. Len(kept) : effects[i] = kept[i]
       /\ \A i \in 1 .. size : effects[Len(kept) + i] = pending[i]
  <2>1. effects \in Seq(Op) /\ kept \in Seq(Op)
    BY DEF TransactionOK, TransactionTypes
  <2>2. effects \in Seq(Op \cup {NoOp}) /\ kept \in Seq(Op \cup {NoOp})
    BY <2>1
  <2>3. \A i \in 1 .. size : effects[Len(kept) + i] = stack[m + i]
    BY <1>1 DEF Unwinds, size
  <2>4. /\ Len(effects) = Len(kept) + size
        /\ \A i \in 1 .. Len(kept) : effects[i] = kept[i]
    BY <1>1 DEF Unwinds, size
  <2> QED  BY <1>10, <2>2, <2>3, <2>4
<1>12. effects = kept \o pending
  <2>1. kept \o pending \in Seq(Op \cup {NoOp}) /\ Len(kept \o pending) = Len(kept) + size
    <3> DEFINE E == Op \cup {NoOp}
    <3>1. kept \in Seq(E) /\ pending \in Seq(E)
      BY <1>10, <1>11
    <3> HIDE DEF E
    <3>2. kept \o pending \in Seq(E) /\ Len(kept \o pending) = Len(kept) + Len(pending)
      BY <3>1
    <3> QED  BY <1>10, <3>2 DEF E
  <2>2. ASSUME NEW i \in 1 .. Len(effects) PROVE effects[i] = (kept \o pending)[i]
    <3>1. CASE i <= Len(kept)
      BY <1>2, <1>5, <1>10, <1>11, <3>1
    <3>2. CASE ~(i <= Len(kept))
      <4>1. i - Len(kept) \in 1 .. size /\ i = Len(kept) + (i - Len(kept))
        BY <1>2, <1>5, <1>11, <3>2
      <4>2. (kept \o pending)[i] = pending[i - Len(kept)]
        BY <1>2, <1>5, <1>10, <1>11, <3>2
      <4>3. effects[Len(kept) + (i - Len(kept))] = pending[i - Len(kept)]
        BY <1>11, <4>1
      <4> QED  BY <4>1, <4>2, <4>3
    <3> QED  BY <3>1, <3>2
  <2> QED  BY <1>11, <2>1, <2>2, SeqEqual
<1> QED  BY <1>12, <1>p

-----------------------------------------------------------------------------
LEMMA TransactionStarts == T!Init => TransactionOK
<1> SUFFICES ASSUME T!Init PROVE TransactionOK
  OBVIOUS
<1>1. TransactionTypes /\ Len(stack) = 0 /\ Len(effects) = 0 /\ Len(kept) = 0
  BY DEF T!Init, TransactionTypes
<1>2. Unwinds(0)
  BY <1>1 DEF Unwinds
<1> QED  BY <1>1, <1>2 DEF TransactionOK

\* The stack, and what is in effect, each with one operation more.
LEMMA Pushed ==
    ASSUME TransactionOK, NothingElse, NEW o \in Op, stack' = Append(stack, o),
           effects' = Append(effects, o), UNCHANGED kept, doing' \in Seq(Op)
    PROVE  TransactionOK'
<1>1. PICK m \in 0 .. Len(stack) : Unwinds(m)
  BY DEF TransactionOK
<1>2. PICK height : height = Len(stack)
  OBVIOUS
<1>3. PICK base : base = Len(kept)
  OBVIOUS
<1>4. /\ height \in Nat /\ base \in Nat /\ m \in 0 .. height /\ o # NoOp
      /\ Len(effects) = base + (height - m)
  <2>1. height \in Nat /\ base \in Nat
    BY <1>2, <1>3 DEF TransactionOK, TransactionTypes
  <2>2. m \in 0 .. height /\ Len(effects) = base + (height - m)
    BY <1>1, <1>2, <1>3 DEF Unwinds
  <2> QED  BY <2>1, <2>2 DEF NothingElse
<1>5. TransactionTypes'
  <2>1. o \in Op \cup {NoOp}
    OBVIOUS
  <2>2. stack' \in Seq(Op \cup {NoOp})
    BY <2>1 DEF TransactionOK, TransactionTypes
  <2> QED  BY <2>2 DEF TransactionOK, TransactionTypes
<1>6. /\ Len(stack') = height + 1 /\ stack'[height + 1] = o
      /\ \A i \in 1 .. height : stack'[i] = stack[i]
  BY <1>2 DEF TransactionOK, TransactionTypes
<1>7. /\ Len(effects') = base + (height - m) + 1
      /\ effects'[base + (height - m) + 1] = o
      /\ \A i \in 1 .. base + (height - m) : effects'[i] = effects[i]
  BY <1>4 DEF TransactionOK, TransactionTypes
<1>8. \A i \in 1 .. height + 1 : stack'[i] = NoOp <=> i <= m
  BY <1>1, <1>2, <1>4, <1>6 DEF Unwinds
<1>9. \A i \in 1 .. base : effects'[i] = kept[i]
  BY <1>1, <1>3, <1>4, <1>7 DEF Unwinds
<1>10. ASSUME NEW i \in 1 .. (height + 1) - m PROVE effects'[base + i] = stack'[m + i]
  <2>1. CASE i = (height + 1) - m
    <3>1. m + i = height + 1 /\ base + i = base + (height - m) + 1
      BY <1>4, <2>1
    <3> QED  BY <1>6, <1>7, <3>1
  <2>2. CASE i # (height + 1) - m
    <3>1. i \in 1 .. height - m /\ m + i \in 1 .. height /\ base + i \in 1 .. base + (height - m)
      BY <1>4, <2>2
    <3>2. effects[base + i] = stack[m + i]
      BY <1>1, <1>2, <1>3, <3>1 DEF Unwinds
    <3> QED  BY <1>6, <1>7, <3>1, <3>2
  <2> QED  BY <2>1, <2>2
<1>11. Len(effects') = base + ((height + 1) - m)
  BY <1>4, <1>7
<1>12. Unwinds(m)'
  BY <1>3, <1>6, <1>8, <1>9, <1>10, <1>11 DEF Unwinds
<1>13. m \in 0 .. Len(stack')
  BY <1>4, <1>6
<1> QED  BY <1>5, <1>12, <1>13 DEF TransactionOK

\* The last element is destroyed.
LEMMA Popped ==
    ASSUME TransactionOK, NothingElse, T!PopBack
    PROVE  TransactionOK'
<1>1. PICK m \in 0 .. Len(stack) : Unwinds(m)
  BY DEF TransactionOK
<1>2. PICK height : height = Len(stack)
  OBVIOUS
<1>3. PICK base : base = Len(kept)
  OBVIOUS
<1>4. /\ height \in Nat \ {0} /\ base \in Nat /\ m \in 0 .. height
      /\ Len(effects) = base + (height - m)
  <2>1. height \in Nat /\ base \in Nat
    BY <1>2, <1>3 DEF TransactionOK, TransactionTypes
  <2>2. height # 0
    BY <1>2 DEF T!PopBack, TransactionOK, TransactionTypes
  <2>3. m \in 0 .. height /\ Len(effects) = base + (height - m)
    BY <1>1, <1>2, <1>3 DEF Unwinds
  <2> QED  BY <2>1, <2>2, <2>3
<1>5. /\ stack' \in Seq(Op \cup {NoOp}) /\ Len(stack') = height - 1
      /\ \A i \in 1 .. height - 1 : stack'[i] = stack[i]
  BY <1>2, <1>4 DEF T!PopBack, T!Front, TransactionOK, TransactionTypes
<1>6. effects' = T!Undo(effects, stack[height])
  BY <1>2 DEF T!PopBack, T!Last
<1>7. UNCHANGED <<kept, doing>>
  BY DEF T!PopBack
<1>8. CASE m = height
  <2>1. stack[height] = NoOp
    BY <1>1, <1>2, <1>4, <1>8 DEF Unwinds
  <2>2. effects' = effects
    BY <1>6, <2>1 DEF T!Undo
  <2>3. \A i \in 1 .. height - 1 : stack'[i] = NoOp <=> i <= height - 1
    BY <1>1, <1>2, <1>4, <1>5, <1>8 DEF Unwinds
  <2>4. Len(effects) = base /\ \A i \in 1 .. base : effects[i] = kept[i]
    BY <1>1, <1>3, <1>4, <1>8 DEF Unwinds
  <2>5. Unwinds(height - 1)'
    BY <1>3, <1>4, <1>5, <1>7, <2>2, <2>3, <2>4 DEF Unwinds
  <2>6. TransactionTypes'
    BY <1>5, <1>7, <2>2 DEF TransactionOK, TransactionTypes
  <2>7. height - 1 \in 0 .. Len(stack')
    BY <1>4, <1>5
  <2> QED  BY <2>5, <2>6, <2>7 DEF TransactionOK
<1>9. CASE m # height
  <2>1. stack[height] # NoOp
    BY <1>1, <1>2, <1>4, <1>9 DEF Unwinds
  <2>2. effects # <<>> /\ effects[Len(effects)] = stack[height]
    <3>1. height - m \in 1 .. height - m /\ m + (height - m) = height
      BY <1>4, <1>9
    <3>2. effects[base + (height - m)] = stack[height]
      BY <1>1, <1>2, <1>3, <3>1 DEF Unwinds
    <3>3. Len(effects) # 0
      BY <1>4, <1>9
    <3> QED  BY <1>4, <3>2, <3>3
  <2>3. effects' = SubSeq(effects, 1, Len(effects) - 1)
    BY <1>6, <2>1, <2>2 DEF T!Undo, T!Last, T!Front
  <2>4. /\ effects' \in Seq(Op) /\ Len(effects') = base + ((height - 1) - m)
        /\ \A i \in 1 .. base + ((height - 1) - m) : effects'[i] = effects[i]
    <3>1. effects \in Seq(Op) /\ Len(effects) - 1 = base + ((height - 1) - m)
      BY <1>4 DEF TransactionOK, TransactionTypes
    <3> QED  BY <1>4, <1>9, <2>3, <3>1
  <2>5. \A i \in 1 .. height - 1 : stack'[i] = NoOp <=> i <= m
    BY <1>1, <1>2, <1>4, <1>5 DEF Unwinds
  <2>6. \A i \in 1 .. base : effects'[i] = kept[i]
    BY <1>1, <1>3, <1>4, <1>9, <2>4 DEF Unwinds
  <2>7. ASSUME NEW i \in 1 .. (height - 1) - m PROVE effects'[base + i] = stack'[m + i]
    <3>1. /\ i \in 1 .. height - m /\ m + i \in 1 .. height - 1
          /\ base + i \in 1 .. base + ((height - 1) - m)
      BY <1>4
    <3>2. effects[base + i] = stack[m + i]
      BY <1>1, <1>2, <1>3, <3>1 DEF Unwinds
    <3> QED  BY <1>5, <2>4, <3>1, <3>2
  <2>8. Unwinds(m)'
    BY <1>3, <1>5, <1>7, <2>4, <2>5, <2>6, <2>7 DEF Unwinds
  <2>9. TransactionTypes'
    BY <1>5, <1>7, <2>4 DEF TransactionOK, TransactionTypes
  <2>10. m \in 0 .. Len(stack')
    BY <1>4, <1>5, <1>9
  <2> QED  BY <2>8, <2>9, <2>10 DEF TransactionOK
<1> QED  BY <1>8, <1>9

\* Every element of the stack is replaced by one that does nothing.
LEMMA Committed ==
    ASSUME TransactionOK, T!Commit
    PROVE  TransactionOK'
<1>1. PICK height : height = Len(stack)
  OBVIOUS
<1>2. height \in Nat /\ effects \in Seq(Op) /\ Len(effects) \in Nat
  BY <1>1 DEF TransactionOK, TransactionTypes
<1>3. stack' = [i \in 1 .. height |-> NoOp]
  BY <1>1 DEF T!Commit, T!Replaced
<1>4. /\ stack' \in Seq(Op \cup {NoOp}) /\ Len(stack') = height
      /\ \A i \in 1 .. height : stack'[i] = NoOp
  BY <1>2, <1>3
<1>5. kept' = effects /\ effects' = effects /\ doing' = doing
  BY DEF T!Commit
<1>6. TransactionTypes'
  BY <1>2, <1>4, <1>5 DEF TransactionOK, TransactionTypes
<1>7. Unwinds(height)'
  BY <1>2, <1>4, <1>5 DEF Unwinds
<1> QED  BY <1>2, <1>4, <1>6, <1>7 DEF TransactionOK

LEMMA TransactionSteps ==
    ASSUME TransactionOK, NothingElse, [T!Next]_T!vars, broken \in BOOLEAN, ~broken'
    PROVE  TransactionOK'
<1>1. ASSUME UNCHANGED <<stack, effects, kept>>, doing' \in Seq(Op)
      PROVE  TransactionOK'
  <2>1. PICK m \in 0 .. Len(stack) : Unwinds(m)
    BY DEF TransactionOK
  <2>2. Unwinds(m)' /\ m \in 0 .. Len(stack')
    BY <1>1, <2>1 DEF Unwinds
  <2> QED  BY <1>1, <2>2 DEF TransactionOK, TransactionTypes
<1>2. doing \in Seq(Op) /\ effects \in Seq(Op)
  BY DEF TransactionOK, TransactionTypes
<1>3. doing # <<>> => T!Last(doing) \in Op /\ T!Front(doing) \in Seq(Op)
  BY <1>2 DEF T!Last, T!Front
<1>4. ASSUME NEW o \in Op, T!Perform(o) PROVE TransactionOK'
  <2>1. doing' \in Seq(Op) /\ UNCHANGED <<stack, effects, kept>>
    BY <1>2, <1>4 DEF T!Perform
  <2> QED  BY <1>1, <2>1
<1>5. CASE T!Store
  <2>1. PICK o : o = T!Last(doing)
    OBVIOUS
  <2>2. o \in Op /\ doing' \in Seq(Op) /\ UNCHANGED kept
    BY <1>3, <1>5, <2>1 DEF T!Store
  <2>3. stack' = Append(stack, o)
    BY <1>5, <2>1 DEF T!Store
  <2>4. effects' = T!FoldLeft(T!Undo, Append(effects, o), T!Abandoned(o))
    BY <1>5, <2>1 DEF T!Store
  <2>5. effects' = Append(effects, o)
    BY <2>2, <2>4, NothingAbandoned DEF TransactionOK
  <2> QED  BY <2>2, <2>3, <2>5, Pushed
<1>6. CASE T!StoreThrows
  <2>1. PICK o : o = T!Last(doing)
    OBVIOUS
  <2>2. o \in Op /\ o # NoOp /\ doing' \in Seq(Op) /\ UNCHANGED <<stack, kept>>
    BY <1>3, <1>6, <2>1 DEF T!StoreThrows, NothingElse
  <2>3. effects' = T!Undo(Append(effects, o), o)
    BY <1>6, <2>1 DEF T!StoreThrows
  <2>4. /\ Append(effects, o) # <<>> /\ T!Last(Append(effects, o)) = o
        /\ T!Front(Append(effects, o)) = effects
    BY <1>2, <2>2, AppendProperties DEF T!Last, T!Front
  <2>5. effects' = effects
    BY <2>2, <2>3, <2>4 DEF T!Undo
  <2> QED  BY <1>1, <2>2, <2>5
<1>7. CASE T!DoThrows
  <2>1. doing' \in Seq(Op) /\ UNCHANGED <<stack, effects, kept>>
    BY <1>3, <1>7 DEF T!DoThrows
  <2> QED  BY <1>1, <2>1
<1>8. CASE T!Commit
  BY <1>8, Committed
<1>9. CASE T!LeaveScope
  BY <1>1, <1>2, <1>9 DEF T!LeaveScope
<1>10. CASE T!PopBack
  BY <1>10, Popped
<1>11. CASE T!CopyThrows
  BY <1>11 DEF T!CopyThrows
<1>12. CASE T!GrowthThrows
  <2>1. PICK i \in DOMAIN stack :
          /\ effects' = T!Undo(T!FoldLeft(T!Undo, Append(effects, T!Last(doing)),
                                         SubSeq(stack, 1, i - 1)), T!Last(doing))
          /\ broken' = (broken \/ \E j \in 1 .. i - 1 : stack[j] # NoOp)
          /\ stack' = [j \in DOMAIN stack |-> IF j < i THEN NoOp ELSE stack[j]]
    BY <1>12 DEF T!GrowthThrows, T!LeftBehind
  <2>2. stack \in Seq(Op \cup {NoOp}) /\ DOMAIN stack = 1 .. Len(stack)
        /\ Len(stack) \in Nat /\ i \in 1 .. Len(stack)
    BY <2>1 DEF TransactionOK, TransactionTypes
  <2>3. \A j \in 1 .. i - 1 : stack[j] = NoOp
    BY <2>1
  <2>4. stack' = stack
    <3>1. \A j \in DOMAIN stack : (IF j < i THEN NoOp ELSE stack[j]) = stack[j]
      BY <2>2, <2>3
    <3>2. stack = [j \in DOMAIN stack |-> stack[j]]
      BY <2>2
    <3> QED  BY <2>1, <3>1, <3>2
  <2>5. SubSeq(stack, 1, i - 1) \in Seq({NoOp})
    <3>1. SubSeq(stack, 1, i - 1) = [j \in 1 .. i - 1 |-> stack[j]]
      BY <2>2
    <3> QED  BY <2>2, <2>3, <3>1
  <2>6. PICK o : o = T!Last(doing)
    OBVIOUS
  <2>7. doing # <<>> /\ doing' = T!Front(doing) /\ UNCHANGED kept
    BY <1>12 DEF T!GrowthThrows
  <2>8. o \in Op /\ o # NoOp /\ doing' \in Seq(Op)
    BY <1>3, <2>6, <2>7 DEF NothingElse
  <2>9. effects' = T!Undo(Append(effects, o), o)
    BY <2>1, <2>5, <2>6, NoOpsUndoNothing
  <2>10. /\ Append(effects, o) # <<>> /\ T!Last(Append(effects, o)) = o
         /\ T!Front(Append(effects, o)) = effects
    BY <1>2, <2>8, AppendProperties DEF T!Last, T!Front
  <2>11. effects' = effects
    BY <2>8, <2>9, <2>10 DEF T!Undo
  <2> QED  BY <1>1, <2>4, <2>7, <2>8, <2>11
<1>13. CASE UNCHANGED T!vars
  BY <1>1, <1>2, <1>13 DEF T!vars
<1> QED
  BY <1>4, <1>5, <1>6, <1>7, <1>8, <1>9, <1>10, <1>11, <1>12, <1>13 DEF T!Next

\* A call of a function undoes its operation, or records one more effect.
LEMMA CallChanges ==
    ASSUME NEW done \in Seq(Op), NEW undo \in Op \cup {NoOp}, NEW o
    PROVE  /\ T!Undo(done, undo) \in Seq(Op)
           /\ Among(done, o) /\ o # undo => Among(T!Undo(done, undo), o)
           /\ Among(T!Undo(done, undo), o) => Among(done, o) \/ o = undo
<1>1. CASE undo = NoOp
  BY <1>1 DEF T!Undo
<1>2. CASE undo # NoOp /\ done # <<>> /\ done[Len(done)] = undo
  <2>1. T!Undo(done, undo) = SubSeq(done, 1, Len(done) - 1)
    BY <1>2 DEF T!Undo, T!Last, T!Front
  <2>2. Len(done) \in Nat \ {0}
    BY <1>2
  <2>3. /\ SubSeq(done, 1, Len(done) - 1) \in Seq(Op)
        /\ Len(SubSeq(done, 1, Len(done) - 1)) = Len(done) - 1
        /\ \A i \in 1 .. Len(done) - 1 : SubSeq(done, 1, Len(done) - 1)[i] = done[i]
    BY <2>2
  <2> QED  BY <1>2, <2>1, <2>2, <2>3 DEF Among
<1>3. CASE undo # NoOp /\ ~(done # <<>> /\ done[Len(done)] = undo)
  <2>1. T!Undo(done, undo) = Append(done, undo) /\ undo \in Op
    BY <1>3 DEF T!Undo, T!Last
  <2> QED  BY <2>1, AppendProperties DEF Among
<1> QED  BY <1>1, <1>2, <1>3

LEMMA CallsChange ==
    ASSUME NEW done \in Seq(Op), NEW undos \in Seq(Op \cup {NoOp}), NEW o,
           NEW left, left = T!FoldLeft(T!Undo, done, undos)
    PROVE  /\ left \in Seq(Op)
           /\ Among(done, o) /\ ~Among(undos, o) => Among(left, o)
           /\ Among(left, o) => Among(done, o) \/ Among(undos, o)
<1>1. PICK called :
        /\ called[0] = done
        /\ \A n \in 1 .. Len(undos) : called[n] = T!Undo(called[n - 1], undos[n])
        /\ T!FoldLeft(T!Undo, done, undos) = called[Len(undos)]
  BY CalledInOrder
<1> DEFINE Good(n) ==
        /\ called[n] \in Seq(Op)
        /\ Among(done, o) /\ ~Among(undos, o) => Among(called[n], o)
        /\ Among(called[n], o) => Among(done, o) \/ Among(undos, o)
    Bad == {n \in 0 .. Len(undos) : ~Good(n)}
<1>2. Len(undos) \in Nat
  OBVIOUS
<1>3. Good(0)
  BY <1>1
<1>4. ASSUME NEW n \in 1 .. Len(undos), Good(n - 1) PROVE Good(n)
  <2>1. undos[n] \in Op \cup {NoOp} /\ Among(undos, undos[n])
    BY DEF Among
  <2>2. called[n] = T!Undo(called[n - 1], undos[n])
    BY <1>1
  <2>3. PICK before, undo : before = called[n - 1] /\ undo = undos[n]
    OBVIOUS
  <2>4. /\ T!Undo(before, undo) \in Seq(Op)
        /\ Among(before, o) /\ o # undo => Among(T!Undo(before, undo), o)
        /\ Among(T!Undo(before, undo), o) => Among(before, o) \/ o = undo
    BY <1>4, <2>1, <2>3, CallChanges
  <2> QED  BY <1>4, <2>1, <2>2, <2>3, <2>4
<1> HIDE DEF Good
<1>5. Bad = {}
  <2> SUFFICES ASSUME Bad # {} PROVE FALSE
    OBVIOUS
  <2>1. PICK n \in Bad : \A m \in Bad : n <= m
    <3>1. Bad \in SUBSET Nat
      OBVIOUS
    <3> HIDE DEF Bad
    <3> QED  BY <3>1, LeastElement
  <2>2. n \in 1 .. Len(undos) /\ n - 1 \in 0 .. Len(undos) /\ n - 1 < n
    <3>1. n \in 0 .. Len(undos) /\ n # 0
      BY <1>3, <2>1
    <3> QED  BY <1>2, <3>1
  <2>3. Good(n - 1)
    BY <1>2, <2>1, <2>2
  <2> QED  BY <1>4, <2>1, <2>2, <2>3
<1>6. Good(Len(undos))
  BY <1>2, <1>5
<1> QED  BY <1>1, <1>6 DEF Good

\* The operation that returned is neither in effect nor under way any more.
LEMMA OperationReturned ==
    ASSUME TransactionTypes, OnceEach, doing # <<>>, NothingElse
    PROVE  /\ T!Last(doing) \in Op /\ T!Last(doing) # NoOp
           /\ ~Among(effects, T!Last(doing))
           /\ \A i \in 1 .. Len(stack) : stack[i] # T!Last(doing)
           /\ T!Front(doing) \in Seq(Op)
           /\ Len(T!Front(doing)) = Len(doing) - 1
           /\ \A i \in 1 .. Len(doing) - 1 :
                 T!Front(doing)[i] = doing[i] /\ doing[i] # T!Last(doing)
<1>1. doing \in Seq(Op) /\ Len(doing) \in Nat \ {0}
  BY DEF TransactionTypes
<1>2. T!Last(doing) = doing[Len(doing)] /\ Len(doing) \in 1 .. Len(doing)
  BY <1>1 DEF T!Last
<1>3. T!Last(doing) \in Op /\ T!Last(doing) # NoOp
  BY <1>1, <1>2 DEF NothingElse
<1>4. ~Among(effects, T!Last(doing))
  BY <1>2 DEF OnceEach
<1>5. \A i \in 1 .. Len(stack) : stack[i] # T!Last(doing)
  BY <1>3, <1>4 DEF OnceEach
<1>6. \A i \in 1 .. Len(doing) - 1 : doing[i] # T!Last(doing)
  <2>1. \A i \in 1 .. Len(doing) - 1 : i \in 1 .. Len(doing) /\ i # Len(doing)
    BY <1>1
  <2> QED  BY <1>2, <2>1 DEF OnceEach
<1>7. /\ T!Front(doing) \in Seq(Op) /\ Len(T!Front(doing)) = Len(doing) - 1
      /\ \A i \in 1 .. Len(doing) - 1 : T!Front(doing)[i] = doing[i]
  <2>1. PICK n : n = Len(doing)
    OBVIOUS
  <2>2. n \in Nat \ {0} /\ T!Front(doing) = SubSeq(doing, 1, n - 1)
    BY <1>1, <2>1 DEF T!Front
  <2>3. /\ SubSeq(doing, 1, n - 1) \in Seq(Op)
        /\ Len(SubSeq(doing, 1, n - 1)) = n - 1
        /\ \A i \in 1 .. n - 1 : SubSeq(doing, 1, n - 1)[i] = doing[i]
    BY <1>1, <2>1, <2>2
  <2> QED  BY <2>1, <2>2, <2>3
<1> QED  BY <1>3, <1>4, <1>5, <1>6, <1>7

LEMMA OnceEachSteps ==
    ASSUME TransactionTypes, OnceEach, broken \in BOOLEAN, NothingElse, [T!Next]_T!vars
    PROVE  TransactionTypes' /\ OnceEach' /\ broken' \in BOOLEAN
<1>1. /\ doing \in Seq(Op) /\ effects \in Seq(Op) /\ kept \in Seq(Op)
      /\ stack \in Seq(Op \cup {NoOp}) /\ DOMAIN stack = 1 .. Len(stack)
      /\ Len(stack) \in Nat
  BY DEF TransactionTypes
<1>2. ASSUME NEW o \in Op, T!Perform(o)
      PROVE  TransactionTypes' /\ OnceEach' /\ broken' \in BOOLEAN
  <2>1. doing' = Append(doing, o) /\ UNCHANGED <<stack, effects, kept, broken>>
    BY <1>2 DEF T!Perform
  <2>2. ~Among(effects, o) /\ \A i \in 1 .. Len(doing) : doing[i] # o
    BY <1>1, <1>2 DEF T!Perform, T!Used, T!Range, Among
  <2>3. /\ doing' \in Seq(Op) /\ Len(doing') = Len(doing) + 1
        /\ doing'[Len(doing) + 1] = o
        /\ \A i \in 1 .. Len(doing) : doing'[i] = doing[i]
    BY <1>1, <2>1, AppendProperties
  <2>4. \A i \in 1 .. Len(doing) + 1 : i \in 1 .. Len(doing) \/ i = Len(doing) + 1
    BY <1>1
  <2>5. \A i, j \in 1 .. Len(doing') : doing'[i] = doing'[j] => i = j
    BY <2>2, <2>3, <2>4 DEF OnceEach
  <2>6. \A i \in 1 .. Len(doing') : ~Among(effects, doing'[i])
    BY <2>2, <2>3, <2>4 DEF OnceEach
  <2>7. OnceEach'
    BY <2>1, <2>5, <2>6 DEF OnceEach, Among
  <2> QED  BY <2>1, <2>3, <2>7 DEF TransactionTypes
\* An operation returned; what it leaves on the stack is still in effect.
<1>3. ASSUME NEW o, doing # <<>>, o = T!Last(doing), doing' = T!Front(doing),
             effects' \in Seq(Op), stack' \in Seq(Op \cup {NoOp}), UNCHANGED kept,
             \A p : Among(effects', p) => Among(effects, p) \/ p = o,
             \A i, j \in 1 .. Len(stack') :
                stack'[i] = stack'[j] => i = j \/ stack'[i] = NoOp,
             \A i \in 1 .. Len(stack') : stack'[i] = NoOp \/ Among(effects', stack'[i])
      PROVE  TransactionTypes' /\ OnceEach'
  <2>1. /\ doing' \in Seq(Op) /\ Len(doing') = Len(doing) - 1 /\ Len(doing) \in Nat
        /\ \A i \in 1 .. Len(doing) - 1 : doing'[i] = doing[i] /\ doing[i] # o
    BY <1>1, <1>3, OperationReturned
  <2>2. \A i \in 1 .. Len(doing') : i \in 1 .. Len(doing)
    BY <2>1
  <2>3. \A i, j \in 1 .. Len(doing') : doing'[i] = doing'[j] => i = j
    BY <2>1, <2>2 DEF OnceEach
  <2>4. \A i \in 1 .. Len(doing') : ~Among(effects', doing'[i])
    BY <1>3, <2>1, <2>2 DEF OnceEach
  <2>5. OnceEach'
    BY <1>3, <2>3, <2>4 DEF OnceEach, Among
  <2> QED  BY <1>1, <1>3, <2>1, <2>5 DEF TransactionTypes
<1>4. ASSUME NEW o \in Op
      PROVE  /\ Append(effects, o) \in Seq(Op) /\ Among(Append(effects, o), o)
             /\ \A p : Among(Append(effects, o), p) <=> Among(effects, p) \/ p = o
  <2>1. /\ Append(effects, o) \in Seq(Op) /\ Len(Append(effects, o)) = Len(effects) + 1
        /\ Append(effects, o)[Len(effects) + 1] = o
        /\ \A i \in 1 .. Len(effects) : Append(effects, o)[i] = effects[i]
    BY <1>1, AppendProperties
  <2>2. Len(effects) \in Nat
    BY <1>1
  <2> QED  BY <2>1, <2>2 DEF Among
<1>5. ASSUME NEW o, doing # <<>>, o = T!Last(doing)
      PROVE  /\ o \in Op /\ o # NoOp /\ ~Among(effects, o)
             /\ \A i \in 1 .. Len(stack) : stack[i] # o
             /\ \A i, j \in 1 .. Len(stack) :
                    stack[i] = stack[j] => i = j \/ stack[i] = NoOp
             /\ \A i \in 1 .. Len(stack) : stack[i] = NoOp \/ Among(effects, stack[i])
  BY <1>5, OperationReturned DEF OnceEach
<1>6. CASE T!Store
  <2>1. PICK o : o = T!Last(doing)
    OBVIOUS
  <2>2. /\ doing # <<>> /\ doing' = T!Front(doing) /\ stack' = Append(stack, o)
        /\ effects' = T!FoldLeft(T!Undo, Append(effects, o), T!Abandoned(o))
        /\ UNCHANGED <<kept, broken>>
    BY <1>6, <2>1 DEF T!Store
  <2>3. o \in Op /\ effects' = Append(effects, o)
    BY <1>5, <2>1, <2>2, NothingAbandoned
  <2>4. /\ stack' \in Seq(Op \cup {NoOp}) /\ Len(stack') = Len(stack) + 1
        /\ stack'[Len(stack) + 1] = o
        /\ \A i \in 1 .. Len(stack) : stack'[i] = stack[i]
    <3>1. o \in Op \cup {NoOp}
      BY <2>3
    <3> QED  BY <1>1, <2>2, <3>1, AppendProperties
  <2>5. \A i \in 1 .. Len(stack') : i \in 1 .. Len(stack) \/ i = Len(stack) + 1
    BY <1>1, <2>4
  <2>6. \A i, j \in 1 .. Len(stack') :
          stack'[i] = stack'[j] => i = j \/ stack'[i] = NoOp
    BY <1>5, <2>1, <2>2, <2>4, <2>5
  <2>7. \A i \in 1 .. Len(stack') : stack'[i] = NoOp \/ Among(effects', stack'[i])
    BY <1>4, <1>5, <2>1, <2>2, <2>3, <2>4, <2>5
  <2>8. effects' \in Seq(Op) /\ \A p : Among(effects', p) => Among(effects, p) \/ p = o
    BY <1>4, <2>3
  <2> QED  BY <1>3, <2>1, <2>2, <2>4, <2>6, <2>7, <2>8
<1>7. CASE T!CopyThrows
  <2>1. PICK o : o = T!Last(doing)
    OBVIOUS
  <2>2. /\ doing # <<>> /\ doing' = T!Front(doing) /\ stack' = stack
        /\ effects' = Append(effects, o) /\ kept' = kept /\ broken' = TRUE
    BY <1>7, <2>1 DEF T!CopyThrows
  <2>3. /\ effects' \in Seq(Op)
        /\ \A p : Among(effects', p) <=> Among(effects, p) \/ p = o
    BY <1>4, <1>5, <2>1, <2>2
  <2>4. \A i \in 1 .. Len(stack') : stack'[i] = NoOp \/ Among(effects', stack'[i])
    BY <1>5, <2>1, <2>2, <2>3
  <2> QED  BY <1>1, <1>3, <1>5, <2>1, <2>2, <2>3, <2>4
<1>8. CASE T!StoreThrows
  <2>1. PICK o : o = T!Last(doing)
    OBVIOUS
  <2>2. /\ doing # <<>> /\ doing' = T!Front(doing) /\ stack' = stack
        /\ effects' = T!Undo(Append(effects, o), o) /\ UNCHANGED <<kept, broken>>
    BY <1>8, <2>1 DEF T!StoreThrows
  <2>3. o \in Op /\ o \in Op \cup {NoOp} /\ Append(effects, o) \in Seq(Op)
    BY <1>4, <1>5, <2>1, <2>2
  <2>4. \A p : /\ effects' \in Seq(Op)
               /\ Among(effects, p) /\ p # o => Among(effects', p)
               /\ Among(effects', p) => Among(effects, p) \/ p = o
    BY <1>4, <2>2, <2>3, CallChanges
  <2>5. \A i \in 1 .. Len(stack') : stack'[i] = NoOp \/ Among(effects', stack'[i])
    BY <1>5, <2>1, <2>2, <2>4
  <2> QED  BY <1>1, <1>3, <1>5, <2>1, <2>2, <2>4, <2>5
<1>9. CASE T!GrowthThrows
  <2>1. PICK o : o = T!Last(doing)
    OBVIOUS
  <2>2. PICK i \in DOMAIN stack :
          /\ effects' = T!Undo(T!FoldLeft(T!Undo, Append(effects, o),
                                         SubSeq(stack, 1, i - 1)), o)
          /\ broken' = (broken \/ \E j \in 1 .. i - 1 : stack[j] # NoOp)
          /\ stack' = [j \in DOMAIN stack |-> IF j < i THEN NoOp ELSE stack[j]]
    BY <1>9, <2>1 DEF T!GrowthThrows, T!LeftBehind
  <2>3. doing # <<>> /\ doing' = T!Front(doing) /\ UNCHANGED kept
    BY <1>9 DEF T!GrowthThrows
  <2>4. o \in Op /\ o \in Op \cup {NoOp} /\ Append(effects, o) \in Seq(Op)
    BY <1>4, <1>5, <2>1, <2>3
  <2>5. PICK moved : moved = SubSeq(stack, 1, i - 1)
    OBVIOUS
  <2>6. /\ i \in 1 .. Len(stack) /\ moved \in Seq(Op \cup {NoOp}) /\ Len(moved) = i - 1
        /\ \A j \in 1 .. i - 1 : moved[j] = stack[j] /\ j \in 1 .. Len(stack)
    <3>1. i \in 1 .. Len(stack)
      BY <1>1
    <3>2. /\ SubSeq(stack, 1, i - 1) \in Seq(Op \cup {NoOp})
          /\ Len(SubSeq(stack, 1, i - 1)) = i - 1
          /\ \A j \in 1 .. i - 1 : SubSeq(stack, 1, i - 1)[j] = stack[j]
      BY <1>1, <3>1
    <3> QED  BY <1>1, <2>5, <3>1, <3>2
  <2>7. PICK left : left = T!FoldLeft(T!Undo, Append(effects, o), moved)
    OBVIOUS
  <2>8. \A p : /\ left \in Seq(Op)
               /\ Among(effects, p) /\ ~Among(moved, p) => Among(left, p)
               /\ Among(left, p) => Among(effects, p) \/ p = o \/ Among(moved, p)
    <3> TAKE p
    <3>1. PICK done : done = Append(effects, o)
      OBVIOUS
    <3>2. /\ done \in Seq(Op) /\ left = T!FoldLeft(T!Undo, done, moved)
          /\ moved \in Seq(Op \cup {NoOp})
      BY <2>4, <2>6, <2>7, <3>1
    <3>3. /\ left \in Seq(Op)
          /\ Among(done, p) /\ ~Among(moved, p) => Among(left, p)
          /\ Among(left, p) => Among(done, p) \/ Among(moved, p)
      BY <3>2, CallsChange
    <3>4. Among(done, p) <=> Among(effects, p) \/ p = o
      BY <1>4, <2>4, <3>1
    <3> QED  BY <3>3, <3>4
  <2>9. \A p : /\ effects' \in Seq(Op)
               /\ Among(left, p) /\ p # o => Among(effects', p)
               /\ Among(effects', p) => Among(left, p) \/ p = o
    BY <2>2, <2>4, <2>5, <2>7, <2>8, CallChanges
  <2>10. NoOp \notin Op /\ ~Among(effects', NoOp)
    <3>1. NoOp \notin Op
      BY DEF NothingElse
    <3> QED  BY <2>9, <3>1 DEF Among
  <2>11. \A p : Among(moved, p) => Among(effects, p) \/ p = NoOp
    BY <1>5, <2>1, <2>3, <2>6 DEF Among
  <2>12. \A p : Among(effects', p) => Among(effects, p) \/ p = o
    BY <2>8, <2>9, <2>10, <2>11
  <2>13. /\ stack' \in Seq(Op \cup {NoOp}) /\ Len(stack') = Len(stack)
         /\ \A j \in 1 .. Len(stack) : stack'[j] = NoOp \/ (stack'[j] = stack[j] /\ i <= j)
    <3>1. \A j \in 1 .. Len(stack) : stack[j] \in Op \cup {NoOp}
      BY <1>1
    <3> QED  BY <1>1, <2>2, <2>6, <3>1
  <2>14. \A j, k \in 1 .. Len(stack') :
           stack'[j] = stack'[k] => j = k \/ stack'[j] = NoOp
    BY <1>5, <2>1, <2>3, <2>13
  <2>15. ASSUME NEW j \in 1 .. Len(stack'), stack'[j] # NoOp
         PROVE  Among(effects', stack'[j])
    <3>1. j \in 1 .. Len(stack) /\ stack'[j] = stack[j] /\ i <= j
      BY <2>13, <2>15
    <3>2. Among(effects, stack[j]) /\ stack[j] # o
      BY <1>5, <2>1, <2>3, <2>15, <3>1
    <3>3. ~Among(moved, stack[j])
      <4>1. \A k \in 1 .. i - 1 : k # j
        BY <2>6, <3>1
      <4>2. \A k \in 1 .. Len(moved) : moved[k] # stack[j]
        BY <1>5, <2>1, <2>3, <2>6, <2>15, <3>1, <4>1
      <4> QED  BY <4>2 DEF Among
    <3> QED  BY <2>8, <2>9, <3>1, <3>2, <3>3
  <2>16. TransactionTypes' /\ OnceEach'
    BY <1>3, <2>1, <2>3, <2>9, <2>12, <2>13, <2>14, <2>15
  <2> QED  BY <2>2, <2>16
<1>10. CASE T!DoThrows
  <2>1. PICK o : o = T!Last(doing)
    OBVIOUS
  <2>2. /\ doing # <<>> /\ doing' = T!Front(doing)
        /\ UNCHANGED <<stack, effects, kept, broken>>
    BY <1>10 DEF T!DoThrows
  <2>3. \A p : Among(effects', p) <=> Among(effects, p)
    BY <2>2 DEF Among
  <2> QED  BY <1>1, <1>3, <1>5, <2>1, <2>2, <2>3
<1>11. CASE T!Commit
  <2>1. /\ stack' = [i \in 1 .. Len(stack) |-> NoOp] /\ kept' = effects
        /\ UNCHANGED <<doing, effects, broken>>
    BY <1>11 DEF T!Commit, T!Replaced
  <2>2. /\ stack' \in Seq(Op \cup {NoOp}) /\ Len(stack') = Len(stack)
        /\ \A i \in 1 .. Len(stack) : stack'[i] = NoOp
    BY <1>1, <2>1
  <2>3. OnceEach'
    BY <2>1, <2>2 DEF OnceEach, Among
  <2> QED  BY <1>1, <2>1, <2>2, <2>3 DEF TransactionTypes
<1>12. CASE T!LeaveScope
  BY <1>12 DEF T!LeaveScope, TransactionTypes, OnceEach, Among
<1>13. CASE T!PopBack
  <2>1. PICK undo : undo = T!Last(stack)
    OBVIOUS
  <2>2. /\ stack # <<>> /\ stack' = T!Front(stack)
        /\ effects' = T!Undo(effects, undo)
        /\ UNCHANGED <<doing, kept, broken>>
    BY <1>13, <2>1 DEF T!PopBack
  <2>3. /\ Len(stack) \in Nat \ {0} /\ undo = stack[Len(stack)]
        /\ undo \in Op \cup {NoOp}
    BY <1>1, <2>1, <2>2 DEF T!Last
  <2>4. /\ stack' \in Seq(Op \cup {NoOp}) /\ Len(stack') = Len(stack) - 1
        /\ \A i \in 1 .. Len(stack) - 1 : stack'[i] = stack[i]
    BY <1>1, <2>2, <2>3 DEF T!Front
  <2>5. \A p : /\ effects' \in Seq(Op)
               /\ Among(effects, p) /\ p # undo => Among(effects', p)
               /\ Among(effects', p) => Among(effects, p) \/ p = undo
    BY <1>1, <2>2, <2>3, CallChanges
  <2>6. undo = NoOp \/ Among(effects, undo)
    BY <2>3 DEF OnceEach
  <2>7. \A i \in 1 .. Len(doing) : ~Among(effects', doing[i])
    <3>1. \A i \in 1 .. Len(doing) : doing[i] # NoOp
      BY <1>1 DEF NothingElse
    <3> QED  BY <2>5, <2>6, <3>1 DEF OnceEach
  <2>8. \A i \in 1 .. Len(stack') : i \in 1 .. Len(stack) /\ i # Len(stack)
    BY <2>3, <2>4
  <2>9. \A i, j \in 1 .. Len(stack') :
          stack'[i] = stack'[j] => i = j \/ stack'[i] = NoOp
    BY <2>4, <2>8 DEF OnceEach
  <2>10. ASSUME NEW i \in 1 .. Len(stack'), stack'[i] # NoOp
         PROVE  Among(effects', stack'[i])
    <3>1. i \in 1 .. Len(stack) /\ i # Len(stack) /\ stack'[i] = stack[i]
      BY <2>4, <2>8
    <3>2. stack[i] # undo /\ Among(effects, stack[i])
      BY <2>3, <2>10, <3>1 DEF OnceEach
    <3> QED  BY <2>5, <3>1, <3>2
  <2>11. OnceEach'
    BY <2>2, <2>7, <2>9, <2>10 DEF OnceEach, Among
  <2> QED  BY <1>1, <2>2, <2>4, <2>5, <2>11 DEF TransactionTypes
<1>14. CASE UNCHANGED T!vars
  BY <1>14 DEF T!vars, TransactionTypes, OnceEach, Among
<1> QED
  BY <1>2, <1>6, <1>7, <1>8, <1>9, <1>10, <1>11, <1>12, <1>13, <1>14 DEF T!Next

\* Once a copy lost a function or called it early, broken stays.
LEMMA StaysBroken == ASSUME broken, [T!Next]_T!vars PROVE broken'
BY DEF T!Next, T!vars, T!Perform, T!Store, T!CopyThrows, T!StoreThrows,
       T!GrowthThrows, T!DoThrows, T!Commit, T!LeaveScope, T!PopBack

\* An exception or the end of the scope undoes what was done since the last
\* Commit, each operation once and in the reverse order, though the vector that
\* keeps them moves them and operations are nested, commit and fail, until a
\* function cannot be copied; and whatever throws, no function is called twice
\* and none whose operation is not in effect is kept.
THEOREM UndoneInOrder ==
    ASSUME NothingElse
    PROVE  T!Spec => []RollsBack
<1>1. T!Init => UndoesOK
  <2> SUFFICES ASSUME T!Init PROVE UndoesOK
    OBVIOUS
  <2>1. TransactionOK /\ broken = FALSE
    BY TransactionStarts DEF T!Init
  <2>2. doing = <<>> /\ stack = <<>>
    BY DEF T!Init
  <2>3. OnceEach
    BY <2>2 DEF OnceEach
  <2> QED  BY <2>1, <2>3 DEF UndoesOK, TransactionOK
<1>2. UndoesOK /\ [T!Next]_T!vars => UndoesOK'
  <2> SUFFICES ASSUME UndoesOK, [T!Next]_T!vars PROVE UndoesOK'
    OBVIOUS
  <2>1. TransactionTypes' /\ OnceEach' /\ broken' \in BOOLEAN
    BY OnceEachSteps DEF UndoesOK
  <2>2. ASSUME ~broken' PROVE TransactionOK'
    BY <2>2, StaysBroken, TransactionSteps DEF UndoesOK
  <2> QED  BY <2>1, <2>2 DEF UndoesOK
<1>3. UndoesOK => RollsBack
  <2> SUFFICES ASSUME UndoesOK PROVE RollsBack
    OBVIOUS
  <2>1. ~broken => effects = kept \o T!Pending
    BY UnwindsRollsBack DEF UndoesOK
  <2>2. /\ stack \in Seq(Op \cup {NoOp}) /\ DOMAIN stack = 1 .. Len(stack)
        /\ DOMAIN effects = 1 .. Len(effects)
    BY DEF UndoesOK, TransactionTypes
  <2>3. \A i, j \in DOMAIN stack : stack[i] = stack[j] => i = j \/ stack[i] = NoOp
    BY <2>2 DEF UndoesOK, OnceEach
  <2>4. T!Range(stack) \subseteq T!Range(effects) \cup {NoOp}
    BY <2>2 DEF UndoesOK, OnceEach, Among, T!Range
  <2> QED  BY <2>1, <2>3, <2>4 DEF RollsBack, T!RollsBack
<1> QED  BY <1>1, <1>2, <1>3, PTL DEF T!Spec

-----------------------------------------------------------------------------
(* ClientWrite *)

Byte == [write : Nat, place : Nat]
Write == [op : {"object", "memory"}, size : Nat,
          told : {"nothing", "returned", "timed_out", "error"}]

WriteTypes ==
    /\ accepted \in Seq(Byte)
    /\ writes \in Seq(Write)
    /\ sending \in [op : {"none", "object", "memory"}, sentCount : Nat]

\* The call that is running has sent sentCount bytes, which are the last ones of
\* the stream: nothing, of an object.
InProgress ==
    sending # K!Idle =>
        /\ writes # <<>>
        /\ sending.op = writes[Len(writes)].op
        /\ writes[Len(writes)].told = "nothing"
        /\ sending.sentCount <= writes[Len(writes)].size
        /\ sending.sentCount = Cardinality(K!PartOf(Len(writes)))
        /\ sending.op = "object" => sending.sentCount = 0
        /\ IF sending.sentCount = 0
           THEN \A n \in DOMAIN accepted : accepted[n].write < Len(writes)
           ELSE accepted # <<>> /\ accepted[Len(accepted)] =
                    [write |-> Len(writes), place |-> sending.sentCount]

WritesOK == WriteTypes /\ InProgress /\ K!WritesKept

LEMMA SameCount == \A S : K!Cardinality(S) = Cardinality(S)
BY DEF K!Cardinality, Cardinality, K!IsFiniteSet, IsFiniteSet

\* The call that is running sends k bytes more.
Sends(k) ==
    /\ k \in 1 .. writes[Len(writes)].size - sending.sentCount
    /\ accepted' = accepted \o K!Sent(sending.sentCount, k)

\* The new bytes follow the old, and belong to the running call.
LEMMA StreamGrows ==
    ASSUME WritesOK, sending # K!Idle, NEW c, c = Len(writes), NEW k, Sends(k)
    PROVE  /\ k \in Nat /\ k > 0
           /\ sending.sentCount + k <= writes[c].size
           /\ accepted' \in Seq(Byte) /\ accepted' # <<>>
           /\ accepted'[Len(accepted')] =
                [write |-> c, place |-> sending.sentCount + k]
           /\ accepted'[1].place = 1
           /\ \A n \in 2 .. Len(accepted') : K!Follows(accepted'[n - 1], accepted'[n])
           /\ \A n \in DOMAIN accepted' : accepted'[n].write \in DOMAIN writes
           /\ Cardinality(K!PartOf(c))' = sending.sentCount + k
           /\ \A i : i # c => K!PartOf(i)' = K!PartOf(i)
<1>1. c = Len(writes)
  OBVIOUS
<1>2. PICK from : from = sending.sentCount
  OBVIOUS
<1>3. PICK size : size = writes[c].size
  OBVIOUS
<1>4. PICK s : s = accepted
  OBVIOUS
<1>5. PICK t : t = accepted'
  OBVIOUS
<1>6. PICK L : L = Len(accepted)
  OBVIOUS
<1>7. /\ s \in Seq(Byte) /\ L = Len(s) /\ L \in Nat /\ DOMAIN s = 1 .. L
      /\ c \in DOMAIN writes /\ c \in Nat \ {0} /\ size \in Nat /\ from \in Nat
      /\ DOMAIN writes = 1 .. c
  <2>1. writes \in Seq(Write) /\ Len(writes) # 0
    BY DEF WritesOK, WriteTypes, InProgress
  <2>2. c \in DOMAIN writes /\ c \in Nat \ {0} /\ writes[c] \in Write /\ DOMAIN writes = 1 .. c
    BY <1>1, <2>1
  <2>3. sending.sentCount \in Nat
    BY DEF WritesOK, WriteTypes
  <2> QED  BY <1>2, <1>3, <1>4, <1>6, <2>2, <2>3 DEF WritesOK, WriteTypes, Write
<1>8. k \in 1 .. size - from /\ t = s \o [i \in 1 .. k |-> [write |-> c, place |-> from + i]]
  BY <1>1, <1>2, <1>3, <1>4, <1>5 DEF Sends, K!Sent, K!Current
<1>9. k \in Nat /\ k > 0 /\ from + k <= size
  BY <1>7, <1>8
<1> DEFINE new == [i \in 1 .. k |-> [write |-> c, place |-> from + i]]
<1>10. new \in Seq(Byte) /\ Len(new) = k /\ \A i \in 1 .. k : new[i] = [write |-> c, place |-> from + i]
  BY <1>7, <1>9 DEF Byte
<1> HIDE DEF new
<1>11. /\ t \in Seq(Byte) /\ Len(t) = L + k /\ DOMAIN t = 1 .. L + k
       /\ \A n \in 1 .. L : t[n] = s[n]
       /\ \A n \in (L + 1) .. (L + k) : t[n] = new[n - L]
  <2>1. t = s \o new
    BY <1>8 DEF new
  <2>2. t \in Seq(Byte) /\ Len(t) = L + k
    BY <1>7, <1>10, <2>1, ConcatProperties
  <2>3. \A n \in 1 .. L + k : t[n] = IF n <= L THEN s[n] ELSE new[n - L]
    BY <1>7, <1>10, <2>1, ConcatProperties
  <2> QED  BY <1>7, <1>9, <2>2, <2>3
<1>12. \A n \in (L + 1) .. (L + k) : t[n] = [write |-> c, place |-> from + (n - L)]
  BY <1>7, <1>9, <1>10, <1>11
<1>n. \A n \in (L + 1) .. (L + k) : t[n].write = c /\ t[n].place = from + (n - L)
  <2> SUFFICES ASSUME NEW n \in (L + 1) .. (L + k)
               PROVE  t[n].write = c /\ t[n].place = from + (n - L)
    OBVIOUS
  <2>1. t[n] = [write |-> c, place |-> from + (n - L)]
    BY <1>12
  <2> QED  BY <2>1
<1>o. \A n \in 1 .. L + k : n <= L \/ n \in (L + 1) .. (L + k)
  BY <1>7, <1>9
<1>13. t # <<>> /\ t[L + k] = [write |-> c, place |-> from + k]
  <2>1. L + k \in (L + 1) .. (L + k) /\ (L + k) - L = k
    BY <1>7, <1>9
  <2>2. t[L + k] = [write |-> c, place |-> from + k]
    BY <1>12, <2>1
  <2>3. Len(t) # 0
    BY <1>7, <1>9, <1>11
  <2> QED  BY <2>2, <2>3
<1>s. \A n \in 1 .. L : n \in 1 .. L + k /\ s[n] \in Byte /\ s[n].write \in Nat
  <2>1. \A n \in 1 .. L : n \in 1 .. L + k
    BY <1>7, <1>9
  <2>2. \A n \in 1 .. L : s[n] \in Byte
    BY <1>7
  <2> QED  BY <2>1, <2>2 DEF Byte
<1>14. /\ from = Cardinality(K!PartOf(c))
       /\ from = 0 => \A n \in 1 .. L : s[n].write < c
       /\ from # 0 => L # 0 /\ s[L] = [write |-> c, place |-> from]
  <2>1. from # 0 => s # <<>>
    BY <1>1, <1>2, <1>4 DEF WritesOK, InProgress
  <2> QED  BY <1>1, <1>2, <1>4, <1>6, <1>7, <2>1 DEF WritesOK, InProgress
<1>15. /\ s # <<>> => s[1].place = 1
       /\ \A n \in 2 .. L : K!Follows(s[n - 1], s[n])
       /\ \A n \in 1 .. L : s[n].write \in DOMAIN writes
  BY <1>4, <1>6, <1>7 DEF WritesOK, K!WritesKept
<1>16. t[1].place = 1
  <2>1. CASE L = 0
    <3>1. from = 0 /\ 1 \in (L + 1) .. (L + k) /\ from + (1 - L) = 1
      BY <1>7, <1>9, <1>14, <2>1
    <3> QED  BY <1>n, <3>1
  <2>2. CASE L # 0
    <3>1. 1 \in 1 .. L /\ s # <<>>
      BY <1>7, <2>2
    <3> QED  BY <1>11, <1>15, <3>1
  <2> QED  BY <2>1, <2>2
<1>17. ASSUME NEW n \in 2 .. L + k PROVE K!Follows(t[n - 1], t[n])
  <2>1. CASE n <= L
    <3>1. n \in 2 .. L /\ n - 1 \in 1 .. L /\ n \in 1 .. L
      BY <1>7, <2>1
    <3> QED  BY <1>11, <1>15, <3>1
  <2>2. CASE n = L + 1
    <3>1. t[n] = [write |-> c, place |-> from + 1] /\ L \in 1 .. L /\ n - 1 = L /\ t[n - 1] = s[L]
      <4>1. L \in 1 .. L /\ n - 1 = L /\ n \in (L + 1) .. (L + k) /\ n - L = 1
        BY <1>7, <1>9, <2>2
      <4> QED  BY <1>11, <1>12, <4>1
    <3>2. CASE from = 0
      <4>1. s[L].write < c /\ s[L].write \in Nat
        BY <1>7, <1>14, <3>1, <3>2, <1>s
      <4> QED  BY <1>7, <3>1, <3>2, <4>1 DEF K!Follows
    <3>3. CASE from # 0
      BY <1>14, <3>1, <3>3 DEF K!Follows
    <3> QED  BY <3>2, <3>3
  <2>3. CASE n > L + 1
    <3>1. /\ n \in (L + 1) .. (L + k) /\ n - 1 \in (L + 1) .. (L + k)
          /\ from + (n - L) = (from + ((n - 1) - L)) + 1
      BY <1>7, <1>9, <2>3
    <3>2. /\ t[n] = [write |-> c, place |-> from + (n - L)]
          /\ t[n - 1] = [write |-> c, place |-> from + ((n - 1) - L)]
      BY <1>12, <3>1
    <3> QED  BY <3>1, <3>2 DEF K!Follows
  <2> QED  BY <1>7, <2>1, <2>2, <2>3
<1>18. ASSUME NEW n \in 1 .. L + k PROVE t[n].write \in DOMAIN writes
  <2>1. CASE n <= L
    BY <1>7, <1>11, <1>15, <2>1
  <2>2. CASE n \in (L + 1) .. (L + k)
    BY <1>7, <1>n, <2>2
  <2> QED  BY <1>o, <2>1, <2>2
<1>19. \A i : K!PartOf(i) = {n \in 1 .. L : s[n].write = i}
  BY <1>4, <1>7 DEF K!PartOf
<1>20. \A i : K!PartOf(i)' = {n \in 1 .. L + k : t[n].write = i}
  BY <1>5, <1>11 DEF K!PartOf
<1>21. ASSUME NEW i, i # c PROVE K!PartOf(i)' = K!PartOf(i)
  <2>1. \A n \in 1 .. L + k : t[n].write = i <=> n <= L /\ s[n].write = i
    <3> SUFFICES ASSUME NEW n \in 1 .. L + k
                 PROVE  t[n].write = i <=> n <= L /\ s[n].write = i
      OBVIOUS
    <3>1. CASE n <= L
      BY <1>7, <1>11, <3>1
    <3>2. CASE n \in (L + 1) .. (L + k)
      <4>1. ~(n <= L) /\ t[n].write = c
        BY <1>7, <1>n, <3>2
      <4> QED  BY <1>21, <4>1
    <3> QED  BY <1>o, <3>1, <3>2
  <2>2. {n \in 1 .. L + k : t[n].write = i} = {n \in 1 .. L : s[n].write = i}
    BY <1>7, <1>9, <2>1
  <2> QED  BY <1>19, <1>20, <2>2
<1>22. Cardinality(K!PartOf(c)') = from + k
  <2> DEFINE Old == {n \in 1 .. L : s[n].write = c}
             New == (L + 1) .. (L + k)
  <2>1. K!PartOf(c)' = Old \cup New
    <3>1. \A n \in 1 .. L + k : t[n].write = c <=> n \in Old \cup New
      <4> SUFFICES ASSUME NEW n \in 1 .. L + k
                   PROVE  t[n].write = c <=> n \in Old \cup New
        OBVIOUS
      <4>1. CASE n <= L
        <5>1. n \in 1 .. L /\ n \notin New /\ t[n] = s[n]
          BY <1>7, <1>11, <4>1
        <5> HIDE DEF New
        <5> QED  BY <5>1
      <4>2. CASE n \in New
        BY <1>n, <4>2
      <4> QED  BY <1>o, <4>1, <4>2
    <3>2. Old \cup New \subseteq 1 .. L + k
      BY <1>7, <1>9
    <3> QED  BY <1>20, <3>1, <3>2
  <2>2. Old \cap New = {}
    BY <1>7
  <2>3. IsFiniteSet(Old) /\ Cardinality(Old) = from
    <3>1. IsFiniteSet(1 .. L)
      BY <1>7, FS_Interval
    <3>2. Old \subseteq 1 .. L
      OBVIOUS
    <3> HIDE DEF Old
    <3>3. Old = K!PartOf(c)
      BY <1>19 DEF Old
    <3> QED  BY <1>14, <3>1, <3>2, <3>3, FS_Subset
  <2>4. IsFiniteSet(New) /\ Cardinality(New) = k
    <3>1. L + 1 \in Int /\ L + k \in Int /\ ~(L + 1 > L + k) /\ (L + k) - (L + 1) + 1 = k
      BY <1>7, <1>9
    <3> QED  BY <3>1, FS_Interval
  <2> HIDE DEF Old, New
  <2>5. Cardinality(Old \cup New) = from + k
    <3>1. Cardinality(Old \cup New) = Cardinality(Old) + Cardinality(New) - Cardinality(Old \cap New)
      BY <2>3, <2>4, FS_Union
    <3>2. Cardinality(Old \cap New) = 0
      BY <2>2, FS_EmptySet
    <3> QED  BY <1>7, <1>9, <2>3, <2>4, <3>1, <3>2
  <2> QED  BY <2>1, <2>5
<1> QED
  BY <1>1, <1>2, <1>3, <1>5, <1>9, <1>11, <1>13, <1>16, <1>17, <1>18, <1>21, <1>22

-----------------------------------------------------------------------------
LEMMA WritesStart == K!Init => WritesOK
<1> SUFFICES ASSUME K!Init PROVE WritesOK
  OBVIOUS
<1>1. WriteTypes /\ sending = K!Idle
  BY DEF K!Init, K!Idle, WriteTypes
<1>2. /\ accepted = <<>> /\ Len(accepted) = 0 /\ DOMAIN accepted = {}
      /\ DOMAIN writes = {}
  BY DEF K!Init
<1>3. K!WritesKept
  BY <1>2 DEF K!WritesKept
<1> QED  BY <1>1, <1>3 DEF WritesOK, InProgress

\* The call that is running comes to its end, with or without a last send.
LEMMA CallTells ==
    ASSUME WritesOK, sending # K!Idle, NEW c, c = Len(writes), NEW told, K!Tells(told),
           told \in {"returned", "timed_out", "error"},
           \/ UNCHANGED accepted
           \/ sending.op = "object" /\ \E k : Sends(k),
           sending.op = "memory" =>
                IF told = "returned" THEN sending.sentCount = writes[c].size
                                     ELSE sending.sentCount < writes[c].size
    PROVE  WritesOK'
<1>1. /\ writes \in Seq(Write) /\ c \in DOMAIN writes /\ writes[c] \in Write
      /\ c \in Nat /\ writes[c].size \in Nat
  <2>1. writes \in Seq(Write) /\ writes # <<>>
    BY DEF WritesOK, WriteTypes, InProgress
  <2>2. c \in DOMAIN writes /\ writes[c] \in Write /\ c \in Nat
    BY <2>1
  <2> QED  BY <2>1, <2>2 DEF Write
<1>2. writes' = [writes EXCEPT ![c].told = told] /\ sending' = K!Idle
  BY DEF K!Tells, K!Current
<1>3. /\ writes' \in Seq(Write) /\ DOMAIN writes' = DOMAIN writes
      /\ writes'[c] = [writes[c] EXCEPT !.told = told]
      /\ \A i \in DOMAIN writes : i # c => writes'[i] = writes[i]
  <2>1. [writes[c] EXCEPT !.told = told] \in Write
    BY <1>1 DEF Write
  <2> QED  BY <1>1, <1>2, <2>1
<1>4. /\ writes'[c].told = told /\ writes'[c].op = writes[c].op
      /\ writes'[c].size = writes[c].size
  BY <1>1, <1>3 DEF Write
<1>5. /\ accepted' \in Seq(Byte)
      /\ accepted' # <<>> => accepted'[1].place = 1
      /\ \A n \in 2 .. Len(accepted') : K!Follows(accepted'[n - 1], accepted'[n])
      /\ \A n \in DOMAIN accepted' : accepted'[n].write \in DOMAIN writes
      /\ \A i : i # c => K!PartOf(i)' = K!PartOf(i)
      /\ Cardinality(K!PartOf(c)') <= writes[c].size
      /\ sending.op = "memory" => K!PartOf(c)' = K!PartOf(c)
  <2>1. CASE UNCHANGED accepted
    <3>1. \A i : K!PartOf(i)' = K!PartOf(i)
      BY <2>1 DEF K!PartOf
    <3>2. Cardinality(K!PartOf(c)) <= writes[c].size
      BY <1>1, SameCount DEF WritesOK, K!WritesKept
    <3>3. /\ accepted \in Seq(Byte)
          /\ accepted # <<>> => accepted[1].place = 1
          /\ \A n \in 2 .. Len(accepted) : K!Follows(accepted[n - 1], accepted[n])
          /\ \A n \in DOMAIN accepted : accepted[n].write \in DOMAIN writes
      BY DEF WritesOK, WriteTypes, K!WritesKept
    <3> QED  BY <2>1, <3>1, <3>2, <3>3
  <2>2. ASSUME NEW k, Sends(k), sending.op = "object"
        PROVE  <1>5!:
    <3>1. sending.op # "memory"
      BY <2>2
    <3> QED  BY <2>2, <3>1, StreamGrows
  <2> QED  BY <2>1, <2>2
<1>6. /\ sending.op = writes[c].op
      /\ sending.op = "memory" => sending.sentCount = Cardinality(K!PartOf(c))
  BY DEF WritesOK, InProgress
<1>7. ASSUME NEW i \in DOMAIN writes
      PROVE  LET sent == Cardinality(K!PartOf(i)') IN
             /\ sent <= writes'[i].size
             /\ writes'[i].op = "memory" =>
                /\ writes'[i].told = "returned" => sent = writes'[i].size
                /\ writes'[i].told \in {"timed_out", "error"} => sent < writes'[i].size
  <2>1. CASE i # c
    <3>1. writes'[i] = writes[i] /\ K!PartOf(i)' = K!PartOf(i)
      BY <1>3, <1>5, <2>1
    <3> QED  BY <3>1, SameCount DEF WritesOK, K!WritesKept
  <2>2. CASE i = c
    BY <1>4, <1>5, <1>6, <2>2
  <2> QED  BY <2>1, <2>2
<1>8. K!WritesKept'
  BY <1>3, <1>5, <1>7, SameCount DEF K!WritesKept
<1>9. WriteTypes' /\ InProgress'
  BY <1>2, <1>3, <1>5 DEF WriteTypes, InProgress, K!Idle
<1> QED  BY <1>8, <1>9 DEF WritesOK

\* A turn of the loop of Write(const void *, size_t).
LEMMA LoopTurns ==
    ASSUME WritesOK, NEW k, Sends(k), sending.op = "memory", UNCHANGED writes,
           sending' = [sending EXCEPT !.sentCount = sending.sentCount + k]
    PROVE  WritesOK'
<1>1. sending # K!Idle
  BY DEF K!Idle
<1>2. PICK c : c = Len(writes)
  OBVIOUS
<1>3. /\ writes \in Seq(Write) /\ c \in DOMAIN writes /\ writes[c] \in Write
      /\ writes[c].told = "nothing" /\ writes[c].op = "memory"
  BY <1>1, <1>2 DEF WritesOK, WriteTypes, InProgress
<1>4. /\ k \in Nat /\ k > 0
      /\ sending.sentCount + k <= writes[c].size
      /\ accepted' \in Seq(Byte) /\ accepted' # <<>>
      /\ accepted'[Len(accepted')] =
           [write |-> c, place |-> sending.sentCount + k]
      /\ accepted'[1].place = 1
      /\ \A n \in 2 .. Len(accepted') : K!Follows(accepted'[n - 1], accepted'[n])
      /\ \A n \in DOMAIN accepted' : accepted'[n].write \in DOMAIN writes
      /\ Cardinality(K!PartOf(c)') = sending.sentCount + k
      /\ \A i : i # c => K!PartOf(i)' = K!PartOf(i)
  BY <1>1, <1>2, StreamGrows
<1>5. /\ sending \in [op : {"none", "object", "memory"}, sentCount : Nat]
      /\ sending.sentCount \in Nat
  BY DEF WritesOK, WriteTypes
<1>6. /\ sending'.op = "memory" /\ sending'.sentCount = sending.sentCount + k
      /\ sending' \in [op : {"none", "object", "memory"}, sentCount : Nat]
      /\ sending'.sentCount # 0
  BY <1>4, <1>5
<1>7. ASSUME NEW i \in DOMAIN writes
      PROVE  LET sent == Cardinality(K!PartOf(i)') IN
             /\ sent <= writes[i].size
             /\ writes[i].op = "memory" =>
                /\ writes[i].told = "returned" => sent = writes[i].size
                /\ writes[i].told \in {"timed_out", "error"} => sent < writes[i].size
  <2>1. CASE i # c
    <3>1. K!PartOf(i)' = K!PartOf(i)
      BY <1>4, <2>1
    <3> QED  BY <3>1, SameCount DEF WritesOK, K!WritesKept
  <2>2. CASE i = c
    BY <1>3, <1>4, <2>2
  <2> QED  BY <2>1, <2>2
<1>8. K!WritesKept'
  BY <1>4, <1>7, SameCount DEF K!WritesKept
<1>9. WriteTypes'
  BY <1>3, <1>4, <1>6 DEF WriteTypes
<1>10. Len(writes') = c /\ writes' = writes /\ writes # <<>>
  BY <1>2, <1>3
<1>11. Cardinality(K!PartOf(Len(writes)))' = sending'.sentCount
  BY <1>4, <1>6, <1>10 DEF K!PartOf
<1>12. InProgress'
  BY <1>3, <1>4, <1>6, <1>10, <1>11 DEF InProgress
<1> QED  BY <1>8, <1>9, <1>12 DEF WritesOK

\* A call starts: all that is in the stream belongs to earlier ones.
LEMMA CallStarts ==
    ASSUME WritesOK, WriteSizes, NEW op \in {"object", "memory"}, NEW size \in ByteCounts,
           K!StartWrite(op, size)
    PROVE  WritesOK'
<1>1. PICK c : c = Len(writes)
  OBVIOUS
<1> DEFINE e == [op |-> op, size |-> size, told |-> "nothing"]
<1>2. e \in Write /\ e.size \in Nat /\ size \in Nat
  BY DEF WriteSizes, Write
<1>3. /\ writes' = Append(writes, e) /\ sending' = [op |-> op, sentCount |-> 0]
      /\ UNCHANGED accepted
  BY DEF K!StartWrite
<1> HIDE DEF e
<1>4. /\ writes \in Seq(Write) /\ c \in Nat /\ DOMAIN writes = 1 .. c
      /\ accepted \in Seq(Byte) /\ Len(accepted) \in Nat
      /\ DOMAIN accepted = 1 .. Len(accepted)
      /\ \A n \in DOMAIN accepted : accepted[n].write \in 1 .. c
  <2>1. writes \in Seq(Write) /\ accepted \in Seq(Byte)
    BY DEF WritesOK, WriteTypes
  <2>2. \A n \in DOMAIN accepted : accepted[n].write \in DOMAIN writes
    BY DEF WritesOK, K!WritesKept
  <2> QED  BY <1>1, <2>1, <2>2
<1>5. /\ writes' \in Seq(Write) /\ Len(writes') = c + 1 /\ DOMAIN writes' = 1 .. c + 1
      /\ writes'[c + 1] = e /\ writes' # <<>>
      /\ \A i \in 1 .. c : writes'[i] = writes[i]
  BY <1>1, <1>2, <1>3, <1>4
<1>6. K!PartOf(c + 1) = {} /\ Cardinality(K!PartOf(c + 1)) = 0
  <2>1. K!PartOf(c + 1) = {}
    BY <1>4 DEF K!PartOf
  <2> QED  BY <2>1, FS_EmptySet
<1>7. \A i : K!PartOf(i)' = K!PartOf(i)
  BY <1>3 DEF K!PartOf
<1>8. e.op = op /\ e.size = size /\ e.told = "nothing"
  BY DEF e
<1>9. ASSUME NEW i \in 1 .. c + 1
      PROVE  LET sent == Cardinality(K!PartOf(i)) IN
             /\ sent <= writes'[i].size
             /\ writes'[i].op = "memory" =>
                /\ writes'[i].told = "returned" => sent = writes'[i].size
                /\ writes'[i].told \in {"timed_out", "error"} => sent < writes'[i].size
  <2>1. CASE i \in 1 .. c
    <3>1. writes'[i] = writes[i] /\ i \in DOMAIN writes
      BY <1>4, <1>5, <2>1
    <3> QED  BY <3>1, SameCount DEF WritesOK, K!WritesKept
  <2>2. CASE i = c + 1
    <3>1. writes'[i] = e /\ Cardinality(K!PartOf(i)) = 0
      BY <1>5, <1>6, <2>2
    <3> QED  BY <1>2, <1>8, <3>1
  <2> QED  BY <1>4, <2>1, <2>2
<1>10. K!WritesKept'
  <2>1. /\ accepted # <<>> => accepted[1].place = 1
        /\ \A n \in 2 .. Len(accepted) : K!Follows(accepted[n - 1], accepted[n])
    BY DEF WritesOK, K!WritesKept
  <2>2. \A n \in DOMAIN accepted : accepted[n].write \in DOMAIN writes'
    BY <1>4, <1>5
  <2> QED  BY <1>3, <1>5, <1>7, <1>9, <2>1, <2>2, SameCount DEF K!WritesKept
<1>11. WriteTypes'
  BY <1>3, <1>4, <1>5 DEF WriteTypes
<1>12. Cardinality(K!PartOf(Len(writes)))' = 0
  BY <1>3, <1>5, <1>6 DEF K!PartOf
<1>13. InProgress'
  <2>1. \A n \in DOMAIN accepted : accepted[n].write < c + 1
    BY <1>4
  <2>2. sending'.op = op /\ sending'.sentCount = 0
    BY <1>3
  <2> QED  BY <1>2, <1>3, <1>5, <1>8, <1>12, <2>1, <2>2 DEF InProgress
<1> QED  BY <1>10, <1>11, <1>13 DEF WritesOK

LEMMA WritesUnchanged ==
    ASSUME WritesOK, UNCHANGED <<accepted, writes, sending>>
    PROVE  WritesOK'
<1>1. \A i : K!PartOf(i)' = K!PartOf(i)
  BY DEF K!PartOf
<1>2. K!WritesKept'
  BY <1>1, SameCount DEF WritesOK, K!WritesKept
<1>3. Cardinality(K!PartOf(Len(writes)))' = Cardinality(K!PartOf(Len(writes)))
  BY DEF K!PartOf
<1>4. InProgress'
  BY <1>3 DEF WritesOK, InProgress, K!Idle
<1>5. WriteTypes'
  BY DEF WritesOK, WriteTypes
<1> QED  BY <1>2, <1>4, <1>5 DEF WritesOK

LEMMA WriteSteps ==
    ASSUME WritesOK, WriteSizes, [K!Next]_K!vars
    PROVE  WritesOK'
<1>1. PICK c : c = Len(writes)
  OBVIOUS
<1>2. ASSUME NEW k, K!Send(k)
      PROVE  Sends(k)
  BY <1>2 DEF K!Send, K!byteCount, K!Current, Sends
<1>3. K!byteCount = writes[c].size /\ K!Current = c
  BY <1>1 DEF K!byteCount, K!Current
<1>4. sending.op # "none" => sending # K!Idle
  BY DEF K!Idle
<1>5. CASE K!PeerReads \/ K!PeerCloses \/ K!BrokenPipe
  BY <1>5, WritesUnchanged DEF K!PeerReads, K!PeerCloses, K!BrokenPipe
<1>6. ASSUME NEW op \in {"object", "memory"}, NEW size \in ByteCounts, K!StartWrite(op, size)
      PROVE  WritesOK'
  BY <1>6, CallStarts
<1>7. CASE K!WriteObject
  <2>1. sending.op = "object" /\ K!Tells("returned")
    BY <1>7 DEF K!WriteObject
  <2>2. UNCHANGED accepted \/ \E k : Sends(k)
    BY <1>2, <1>7 DEF K!WriteObject, K!SendBlocks, K!SendFails
  <2> QED  BY <1>1, <1>4, <2>1, <2>2, CallTells
<1>8. CASE K!WriteSome
  <2>1. PICK k : K!Send(k) /\ sending' = [sending EXCEPT !.sentCount = sending.sentCount + k]
    BY <1>8 DEF K!WriteSome, K!Advance
  <2>2. sending.op = "memory" /\ UNCHANGED writes
    BY <1>8 DEF K!WriteSome
  <2> QED  BY <1>2, <2>1, <2>2, LoopTurns
<1>9. CASE K!WriteThrows
  <2>1. /\ sending.op = "memory" /\ UNCHANGED accepted
        /\ sending.sentCount < writes[c].size
        /\ K!Tells("timed_out") \/ K!Tells("error")
    BY <1>3, <1>9 DEF K!WriteThrows, K!SendBlocks, K!SendFails
  <2> QED  BY <1>1, <1>4, <2>1, CallTells
<1>10. CASE K!WriteReturns
  <2>1. /\ sending.op = "memory" /\ UNCHANGED accepted
        /\ sending.sentCount = writes[c].size /\ K!Tells("returned")
    BY <1>3, <1>10 DEF K!WriteReturns
  <2> QED  BY <1>1, <1>4, <2>1, CallTells
<1>11. CASE K!Interrupt
  <2>1. /\ UNCHANGED accepted /\ sending # K!Idle
        /\ sending.sentCount < writes[c].size
        /\ \/ sending.op = "object" /\ K!Tells("returned")
           \/ sending.op = "memory" /\ K!Tells("error")
    BY <1>3, <1>11 DEF K!Interrupt
  <2> QED  BY <1>1, <2>1, CallTells
<1>12. CASE UNCHANGED K!vars
  BY <1>12, WritesUnchanged DEF K!vars
<1> QED
  BY <1>5, <1>6, <1>7, <1>8, <1>9, <1>10, <1>11, <1>12 DEF K!Next, K!ClientStep

\* What Write tells was sent: for any number of calls, sizes and rooms in the
\* kernel, the stream is made of the first parts of the sources in the order of
\* the calls, whole when Write(const void *, size_t) returned and not when it
\* threw.
THEOREM SentInOrder ==
    ASSUME WriteSizes
    PROVE  K!Spec => []WritesKept
<1>1. K!Init => WritesOK
  BY WritesStart
<1>2. WritesOK /\ [K!Next]_K!vars => WritesOK'
  BY WriteSteps
<1>3. WritesOK => WritesKept
  BY DEF WritesOK, WritesKept
<1> QED  BY <1>1, <1>2, <1>3, PTL DEF K!Spec

-----------------------------------------------------------------------------
(* InsertionMap *)

MapEntry == [key : Key, value : MapValue]

\* The positions of map_.
Positions == DOMAIN map_

\* Positions are given out in ascending order and never twice, and so are keys;
\* and the ranks of the positions are without gaps.
MapOK ==
    /\ insertionIndex_ \in Nat
    /\ Positions \subseteq 0 .. insertionIndex_ - 1
    /\ map_ \in [Positions -> MapEntry]
    /\ \A i, j \in Positions : map_[i].key = map_[j].key => i = j
    /\ \A n \in 1 .. Cardinality(Positions) : \E i \in Positions : M!Rank(i) = n

LEMMA SameSizes == \A S : M!Cardinality(S) = Cardinality(S)
BY DEF M!Cardinality, Cardinality, M!IsFiniteSet, IsFiniteSet

-----------------------------------------------------------------------------
(* Ranks and entries *)

LEMMA PositionsFinite ==
    ASSUME MapOK
    PROVE  IsFiniteSet(Positions) /\ Cardinality(Positions) \in Nat
<1>1. IsFiniteSet(0 .. insertionIndex_ - 1)
  BY FS_Interval DEF MapOK
<1>2. IsFiniteSet(Positions)
  BY <1>1, FS_Subset DEF MapOK
<1> QED  BY <1>2, FS_CardinalityType

\* An entry with a larger position has a larger rank.
LEMMA RanksAscend ==
    ASSUME MapOK
    PROVE  /\ \A i \in Positions : M!Rank(i) \in 1 .. Cardinality(Positions)
           /\ \A i, j \in Positions : i < j => M!Rank(i) < M!Rank(j)
           /\ \A i, j \in Positions : M!Rank(i) = M!Rank(j) => i = j
<1> DEFINE Below(i) == {j \in Positions : j <= i}
<1>1. Positions \subseteq Int
  BY DEF MapOK
<1>2. \A i \in Positions : M!Rank(i) = Cardinality(Below(i))
  BY SameSizes DEF M!Rank, Positions
<1>3. ASSUME NEW i \in Positions
      PROVE  /\ IsFiniteSet(Below(i)) /\ i \in Below(i)
             /\ Cardinality(Below(i)) \in 1 .. Cardinality(Positions)
  <2>1. Below(i) \subseteq Positions /\ i \in Below(i)
    BY <1>1
  <2>2. /\ IsFiniteSet(Below(i)) /\ Cardinality(Below(i)) <= Cardinality(Positions)
        /\ Cardinality(Positions) \in Nat
    BY <2>1, PositionsFinite, FS_Subset
  <2>3. Cardinality(Below(i)) \in Nat /\ Cardinality(Below(i)) # 0
    BY <2>1, <2>2, FS_EmptySet, FS_CardinalityType
  <2> QED  BY <2>1, <2>2, <2>3
<1>4. ASSUME NEW i \in Positions, NEW j \in Positions, i < j
      PROVE  Cardinality(Below(i)) < Cardinality(Below(j))
  <2>1. Below(i) \subseteq Below(j) /\ j \notin Below(i) /\ j \in Below(j)
    <3>1. i \in Int /\ j \in Int
      BY <1>1
    <3>2. \A p \in Positions : p <= i => p <= j
      BY <1>1, <1>4, <3>1
    <3>3. ~(j <= i) /\ j <= j
      BY <1>4, <3>1
    <3> QED  BY <3>2, <3>3
  <2>2. /\ Cardinality(Below(i)) <= Cardinality(Below(j))
        /\ Cardinality(Below(i)) # Cardinality(Below(j))
    BY <1>3, <2>1, FS_Subset
  <2> QED  BY <1>3, <2>2
<1>5. \A i, j \in Positions : i < j => M!Rank(i) < M!Rank(j)
  BY <1>2, <1>4
<1>6. \A i \in Positions : M!Rank(i) \in 1 .. Cardinality(Positions)
  BY <1>2, <1>3
<1> HIDE DEF Below
<1>7. ASSUME NEW i \in Positions, NEW j \in Positions, M!Rank(i) = M!Rank(j) PROVE i = j
  BY <1>1, <1>5, <1>6, <1>7
<1> QED  BY <1>5, <1>6, <1>7

AtTheirRanks == \A i \in Positions : M!Entries[M!Rank(i)] = map_[i]

\* Entries has the entry of each position at its rank, and no others.
LEMMA EntriesByRank ==
    ASSUME MapOK
    PROVE  /\ M!Entries \in Seq(MapEntry)
           /\ Len(M!Entries) = Cardinality(Positions)
           /\ DOMAIN M!Entries = 1 .. Cardinality(Positions)
           /\ AtTheirRanks
<1> DEFINE size == Cardinality(Positions)
           At1(n) == CHOOSE i \in Positions : M!Rank(i) = n
<1>1. M!Entries = [n \in 1 .. size |-> map_[At1(n)]]
  BY SameSizes DEF M!Entries, Positions
<1>2. size \in Nat
  BY PositionsFinite
<1>3. \A n \in 1 .. size : At1(n) \in Positions /\ M!Rank(At1(n)) = n
  BY DEF MapOK
<1>4. \A i \in Positions : At1(M!Rank(i)) = i
  BY <1>3, RanksAscend
<1> HIDE DEF size, At1
<1>5. M!Entries \in [1 .. size -> MapEntry]
  BY <1>1, <1>3 DEF MapOK
<1>6. M!Entries \in Seq(MapEntry) /\ Len(M!Entries) = size /\ DOMAIN M!Entries = 1 .. size
  BY <1>2, <1>5
<1>7. \A i \in Positions : M!Rank(i) \in 1 .. size
  BY RanksAscend DEF size
<1>8. \A i \in Positions : M!Entries[M!Rank(i)] = map_[i]
  BY <1>1, <1>4, <1>7
<1> QED  BY <1>6, <1>8 DEF size, AtTheirRanks

\* The keys are those of the map.
LEMMA SameKeys ==
    ASSUME MapOK, NEW k
    PROVE  /\ k \in M!Ordered!Keys <=> M!Find(k) # {}
           /\ Cardinality(M!Find(k)) = IF k \in M!Ordered!Keys THEN 1 ELSE 0
<1>1. M!Ordered!Keys = {M!Entries[n].key : n \in DOMAIN M!Entries}
  BY DEF M!Ordered!Keys
<1>2. \A n \in DOMAIN M!Entries : \E i \in Positions : M!Rank(i) = n
  BY EntriesByRank DEF MapOK
<1>3. \A i \in Positions : M!Rank(i) \in DOMAIN M!Entries
  BY EntriesByRank, RanksAscend
<1>4. k \in M!Ordered!Keys <=> \E i \in Positions : map_[i].key = k
  BY <1>1, <1>2, <1>3, EntriesByRank DEF AtTheirRanks
<1>5. k \in M!Ordered!Keys <=> M!Find(k) # {}
  BY <1>4 DEF M!Find, Positions
<1>6. ASSUME NEW i \in M!Find(k) PROVE M!Find(k) = {i}
  BY DEF M!Find, MapOK, Positions
<1>7. M!Find(k) # {} => Cardinality(M!Find(k)) = 1
  BY <1>6, FS_Singleton
<1> QED  BY <1>5, <1>7, FS_EmptySet

-----------------------------------------------------------------------------
(* The steps *)

LEMMA InitEmpty == M!Init => MapOK /\ M!Ordered!Init
<1> SUFFICES ASSUME M!Init PROVE MapOK /\ M!Ordered!Init
  OBVIOUS
<1>1. Positions = {}
  BY DEF M!Init, Positions
<1>2. Cardinality(Positions) = 0
  BY <1>1, FS_EmptySet
<1>3. MapOK
  BY <1>1, <1>2 DEF M!Init, MapOK, Positions
<1>4. M!Entries \in Seq(MapEntry) /\ Len(M!Entries) = 0
  BY <1>2, <1>3, EntriesByRank
<1>5. M!Entries = <<>>
  BY <1>4, EmptySeq
<1> QED  BY <1>3, <1>5 DEF M!Init, M!Ordered!Init

\* A call that leaves the entries alone.
LEMMA NothingStored ==
    ASSUME MapOK, UNCHANGED map_,
           insertionIndex_' = insertionIndex_ \/ insertionIndex_' = insertionIndex_ + 1
    PROVE  MapOK' /\ M!Entries' = M!Entries
<1>1. \A i : M!Rank(i)' = M!Rank(i)
  BY DEF M!Rank
<1>2. M!Entries' = M!Entries
  BY <1>1 DEF M!Entries, M!Rank
<1>3. Positions' = Positions
  BY DEF Positions
<1>4. insertionIndex_' \in Nat /\ Positions' \subseteq 0 .. insertionIndex_' - 1
  <2>1. PICK old : old = insertionIndex_
    OBVIOUS
  <2>2. PICK new : new = insertionIndex_'
    OBVIOUS
  <2>3. old \in Nat /\ new \in {old, old + 1} /\ Positions \subseteq 0 .. old - 1
    BY <2>1, <2>2 DEF MapOK
  <2>4. new \in Nat /\ 0 .. old - 1 \subseteq 0 .. new - 1
    BY <2>3
  <2> QED  BY <1>3, <2>2, <2>3, <2>4
<1> QED  BY <1>1, <1>2, <1>3, <1>4 DEF MapOK

\* A new entry has the largest position: it goes to the end, the others keep
\* their ranks.
LEMMA StoredAtTheEnd ==
    ASSUME MapOK, NEW k \in Key, NEW v \in MapValue, M!Find(k) = {},
           map_' = M!Emplace(insertionIndex_, k, v),
           insertionIndex_' = M!NextIndex(insertionIndex_)
    PROVE  MapOK' /\ M!Entries' = Append(M!Entries, [key |-> k, value |-> v])
<1> DEFINE e == [key |-> k, value |-> v]
<1>0. PICK o : o = insertionIndex_
  OBVIOUS
<1>p. PICK keys : keys = Positions
  OBVIOUS
<1>s. PICK size : size = Cardinality(Positions)
  OBVIOUS
<1>1. o \in Nat /\ o \notin keys /\ keys \subseteq 0 .. o - 1 /\ IsFiniteSet(keys) /\ size \in Nat /\ size = Cardinality(keys)
  BY <1>0, <1>p, <1>s, PositionsFinite DEF MapOK
<1>2. map_' = [i \in keys \cup {o} |-> IF i = o THEN e ELSE map_[i]]
  BY <1>0, <1>1, <1>p DEF M!Emplace, Positions
<1>3. Positions' = keys \cup {o}
  BY <1>2 DEF Positions
<1>4. Cardinality(Positions') = size + 1 /\ IsFiniteSet(Positions')
  BY <1>1, <1>3, FS_AddElement
<1>5. ASSUME NEW i \in keys PROVE M!Rank(i)' = M!Rank(i) /\ i \in Int /\ i # o
  <2>1. i \in Int /\ i < o /\ ~(o <= i)
    BY <1>1
  <2>2. {j \in keys \cup {o} : j <= i} = {j \in keys : j <= i}
    BY <2>1
  <2>3. M!Rank(i) = Cardinality({j \in keys : j <= i})
    BY <1>p, SameSizes DEF M!Rank, Positions
  <2>4. M!Rank(i)' = Cardinality({j \in keys \cup {o} : j <= i})
    BY <1>3, SameSizes DEF M!Rank, Positions
  <2> QED  BY <2>1, <2>2, <2>3, <2>4
<1>6. M!Rank(o)' = size + 1
  <2>1. \A j \in keys \cup {o} : j <= o
    BY <1>1
  <2>2. {j \in keys \cup {o} : j <= o} = keys \cup {o}
    BY <2>1
  <2>3. M!Rank(o)' = Cardinality({j \in keys \cup {o} : j <= o})
    BY <1>3, SameSizes DEF M!Rank, Positions
  <2> QED  BY <2>2, <2>3, <1>3, <1>4
<1>7. MapOK'
  <2>1. insertionIndex_' = o + 1
    BY <1>0 DEF M!NextIndex
  <2>2. insertionIndex_' \in Nat /\ Positions' \subseteq 0 .. insertionIndex_' - 1
    BY <2>1, <1>1, <1>3
  <2>3. e \in MapEntry /\ e.key = k
    BY DEF MapEntry
  <2>4. \A i \in keys : map_[i] \in MapEntry /\ map_[i].key # k
    BY <1>p DEF MapOK, M!Find, Positions
  <2>5. map_' \in [Positions' -> MapEntry]
    BY <1>2, <1>3, <2>3, <2>4
  <2>6. \A i \in keys : map_'[i] = map_[i] /\ map_'[o] = e
    BY <1>1, <1>2
  <2>7. map_'[o] = e
    BY <1>2
  <2>8. \A i, j \in keys : map_[i].key = map_[j].key => i = j
    BY <1>p DEF MapOK
  <2>9. \A i, j \in Positions' : map_'[i].key = map_'[j].key => i = j
    BY <1>3, <2>3, <2>4, <2>6, <2>7, <2>8
  <2>10. ASSUME NEW n \in 1 .. Cardinality(Positions')
         PROVE  \E i \in Positions' : M!Rank(i)' = n
    <3>1. CASE n = size + 1
      BY <3>1, <1>3, <1>6
    <3>2. CASE n # size + 1
      <4>1. n \in 1 .. Cardinality(Positions)
        BY <3>2, <1>1, <1>4, <1>s
      <4>2. PICK i \in keys : M!Rank(i) = n
        BY <4>1, <1>p DEF MapOK
      <4>3. M!Rank(i)' = n /\ i \in Positions'
        BY <4>2, <1>5, <1>3
      <4> QED  BY <4>3
    <3> QED  BY <3>1, <3>2
  <2> QED  BY <2>2, <2>5, <2>9, <2>10 DEF MapOK
<1>8. PICK E1 : E1 = M!Entries
  OBVIOUS
<1>9. PICK E2 : E2 = M!Entries'
  OBVIOUS
<1>10. /\ E1 \in Seq(MapEntry) /\ Len(E1) = size
       /\ \A i \in keys : E1[M!Rank(i)] = map_[i]
  BY <1>8, <1>p, <1>s, EntriesByRank DEF AtTheirRanks
<1>11. /\ E2 \in Seq(MapEntry) /\ Len(E2) = size + 1
  <2>1. (M!Entries \in Seq(MapEntry))' /\ (Len(M!Entries) = Cardinality(Positions))'
    BY <1>7, EntriesByRank, PTL
  <2> QED  BY <2>1, <1>4, <1>9 DEF MapEntry
<1>12. \A i \in keys \cup {o} : E2[M!Rank(i)'] = map_'[i]
  <2>1. AtTheirRanks'
    BY <1>7, EntriesByRank, PTL
  <2> QED  BY <2>1, <1>3, <1>9 DEF AtTheirRanks
<1>13. E2[size + 1] = e
  BY <1>2, <1>6, <1>12
<1>14. ASSUME NEW n \in 1 .. size PROVE E2[n] = E1[n]
  <2>1. PICK i \in keys : M!Rank(i) = n
    BY <1>p, <1>s DEF MapOK
  <2>2. E2[n] = map_'[i] /\ E1[n] = map_[i]
    BY <2>1, <1>5, <1>10, <1>12
  <2>3. map_'[i] = map_[i]
    BY <1>1, <1>2
  <2> QED  BY <2>2, <2>3
<1>15. e \in MapEntry
  BY DEF MapEntry
<1> HIDE DEF e
<1>16. Append(E1, e) \in Seq(MapEntry) /\ Len(Append(E1, e)) = size + 1
  BY <1>1, <1>10, <1>15
<1>17. Append(E1, e)[size + 1] = e /\ \A n \in 1 .. size : Append(E1, e)[n] = E1[n]
  BY <1>1, <1>10, <1>15
<1>18. E2 = Append(E1, e)
  <2>1. 1 .. size + 1 = (1 .. size) \cup {size + 1}
    BY <1>1
  <2>2. \A n \in 1 .. size + 1 : E2[n] = Append(E1, e)[n]
    BY <1>13, <1>14, <1>17, <2>1
  <2> QED  BY <1>11, <1>16, <2>2, SeqEqual
<1> QED  BY <1>7, <1>8, <1>9, <1>18 DEF e

\* A caller's assignment changes the value of one entry, and no place.
LEMMA AssignedInPlace ==
    ASSUME MapOK, NEW k \in Key, NEW v \in MapValue, NEW i \in M!Find(k),
           map_' = [map_ EXCEPT ![i].value = v], UNCHANGED insertionIndex_
    PROVE  /\ MapOK'
           /\ M!Rank(i) \in DOMAIN M!Entries /\ M!Entries[M!Rank(i)].key = k
           /\ M!Entries' = [M!Entries EXCEPT ![M!Rank(i)].value = v]
<1>p. PICK keys : keys = Positions
  OBVIOUS
<1>s. PICK size : size = Cardinality(Positions)
  OBVIOUS
<1>1. i \in keys /\ map_[i].key = k /\ map_[i] \in MapEntry /\ map_ \in [keys -> MapEntry] /\ size \in Nat
  BY <1>p, <1>s, PositionsFinite DEF M!Find, MapOK, Positions
<1>2. map_' \in [keys -> MapEntry] /\ map_'[i] = [map_[i] EXCEPT !.value = v]
      /\ \A j \in keys \ {i} : map_'[j] = map_[j]
  BY <1>1 DEF MapEntry
<1>3. Positions' = keys
  BY <1>2 DEF Positions
<1>4. \A j : M!Rank(j)' = M!Rank(j)
  BY <1>3, <1>p, SameSizes DEF M!Rank, Positions
<1>5. MapOK'
  <2>1. \A j \in keys : map_'[j].key = map_[j].key
    BY <1>1, <1>2 DEF MapEntry
  <2>2. insertionIndex_' \in Nat /\ Positions' \subseteq 0 .. insertionIndex_' - 1
    BY <1>3, <1>p DEF MapOK
  <2>3. \A j, l \in Positions' : map_'[j].key = map_'[l].key => j = l
    BY <2>1, <1>3, <1>p DEF MapOK
  <2>4. \A n \in 1 .. Cardinality(Positions') : \E j \in Positions' : M!Rank(j)' = n
    BY <1>3, <1>4, <1>p DEF MapOK
  <2> QED  BY <1>2, <1>3, <2>2, <2>3, <2>4 DEF MapOK
<1>8. PICK E1 : E1 = M!Entries
  OBVIOUS
<1>9. PICK E2 : E2 = M!Entries'
  OBVIOUS
<1>r. PICK r : r = M!Rank(i)
  OBVIOUS
<1>10. /\ E1 \in Seq(MapEntry) /\ Len(E1) = size /\ DOMAIN E1 = 1 .. size
       /\ \A j \in keys : E1[M!Rank(j)] = map_[j]
  BY <1>8, <1>p, <1>s, EntriesByRank DEF AtTheirRanks
<1>11. /\ E2 \in Seq(MapEntry) /\ Len(E2) = size
  <2>1. (M!Entries \in Seq(MapEntry))' /\ (Len(M!Entries) = Cardinality(Positions))'
    BY <1>5, EntriesByRank, PTL
  <2> QED  BY <2>1, <1>3, <1>9, <1>p, <1>s DEF MapEntry
<1>12. \A j \in keys : E2[M!Rank(j)] = map_'[j]
  <2>1. AtTheirRanks'
    BY <1>5, EntriesByRank, PTL
  <2> QED  BY <2>1, <1>3, <1>4, <1>9 DEF AtTheirRanks
<1>13. r \in 1 .. size /\ E1[r] = map_[i]
  BY <1>1, <1>10, <1>p, <1>r, <1>s, RanksAscend
<1>14. ASSUME NEW n \in 1 .. size
       PROVE  E2[n] = IF n = r THEN [E1[n] EXCEPT !.value = v] ELSE E1[n]
  <2>1. PICK j \in keys : M!Rank(j) = n
    BY <1>p, <1>s DEF MapOK
  <2>2. E2[n] = map_'[j] /\ E1[n] = map_[j]
    BY <2>1, <1>10, <1>12
  <2>3. n = r <=> j = i
    BY <2>1, <1>1, <1>p, <1>r, RanksAscend
  <2> QED  BY <2>2, <2>3, <1>2
<1>15. E2 = [E1 EXCEPT ![r].value = v]
  <2>1. [E1 EXCEPT ![r].value = v] = [n \in 1 .. size |-> IF n = r THEN [E1[n] EXCEPT !.value = v] ELSE E1[n]]
    BY <1>10
  <2>2. E2 = [n \in 1 .. size |-> E2[n]]
    BY <1>11, <1>1
  <2> QED  BY <1>14, <2>1, <2>2
<1> QED  BY <1>1, <1>5, <1>8, <1>9, <1>10, <1>13, <1>15, <1>r

\* Every step of the code is a step of the ordered map.
LEMMA StepOrdered ==
    ASSUME DefaultIsValue, MapOK, [M!Next]_(M!vars)
    PROVE  MapOK' /\ [M!Ordered!Next]_<<M!Entries, returned>>
<1>0. Default \in MapValue
  BY DEF DefaultIsValue
<1>1. CASE UNCHANGED M!vars
  BY <1>1, NothingStored DEF M!vars
<1>2. ASSUME NEW k \in Key, M!Count(k) PROVE MapOK' /\ M!Ordered!Next
  <2>1. MapOK' /\ M!Entries' = M!Entries
    BY <1>2, NothingStored DEF M!Count
  <2>2. M!Ordered!Count(k)
    BY <1>2, <2>1, SameKeys, SameSizes DEF M!Count, M!Ordered!Count
  <2> QED  BY <2>1, <2>2 DEF M!Ordered!Next
<1>3. ASSUME NEW k \in Key, M!Subscript(k) PROVE MapOK' /\ M!Ordered!Next
  <2>1. MapOK' /\ M!Entries' = Append(M!Entries, [key |-> k, value |-> Default])
    BY <1>0, <1>3, StoredAtTheEnd DEF M!Subscript
  <2>2. M!Ordered!Add(k, Default)
    BY <1>3, <2>1, SameKeys DEF M!Subscript, M!Ordered!Add
  <2> QED  BY <1>0, <2>1, <2>2 DEF M!Ordered!Next
<1>4. ASSUME NEW k \in Key, M!InsertThrows(k) PROVE MapOK' /\ M!Ordered!Next
  <2>1. MapOK' /\ M!Entries' = M!Entries
    BY <1>4, NothingStored DEF M!InsertThrows, M!NextIndex
  <2>2. M!Ordered!Add(k, Default)
    BY <1>4, <2>1, SameKeys DEF M!InsertThrows, M!Ordered!Add
  <2> QED  BY <1>0, <2>1, <2>2 DEF M!Ordered!Next
<1>5. ASSUME NEW k \in Key, NEW v \in MapValue, M!At(k, v) PROVE MapOK' /\ M!Ordered!Next
  <2>1. CASE M!Find(k) = {}
    <3>1. MapOK' /\ M!Entries' = M!Entries
      BY <1>5, <2>1, NothingStored DEF M!At
    <3>2. M!Ordered!At(k, v)
      BY <1>5, <2>1, <3>1, SameKeys DEF M!At, M!Ordered!At
    <3> QED  BY <3>1, <3>2 DEF M!Ordered!Next
  <2>2. CASE M!Find(k) # {}
    <3>1. PICK i \in M!Find(k) : returned' = <<"reference", k>> /\ map_' = [map_ EXCEPT ![i].value = v]
      BY <1>5, <2>2 DEF M!At
    <3>2. UNCHANGED insertionIndex_
      BY <1>5 DEF M!At
    <3>3. /\ MapOK'
          /\ M!Rank(i) \in DOMAIN M!Entries /\ M!Entries[M!Rank(i)].key = k
          /\ M!Entries' = [M!Entries EXCEPT ![M!Rank(i)].value = v]
      BY <3>1, <3>2, AssignedInPlace
    <3>4. M!Ordered!At(k, v)
      BY <3>1, <3>3 DEF M!Ordered!At
    <3> QED  BY <3>3, <3>4 DEF M!Ordered!Next
  <2> QED  BY <2>1, <2>2
<1>6. ASSUME NEW k \in Key, NEW v \in MapValue, M!Insert(k, v) PROVE MapOK' /\ M!Ordered!Next
  <2>1. CASE M!Find(k) = {}
    <3>1. MapOK' /\ M!Entries' = Append(M!Entries, [key |-> k, value |-> v])
      BY <1>6, <2>1, StoredAtTheEnd DEF M!Insert
    <3>2. M!Ordered!Add(k, v)
      BY <1>6, <2>1, <3>1, SameKeys DEF M!Insert, M!Ordered!Add
    <3> QED  BY <3>1, <3>2 DEF M!Ordered!Next
  <2>2. CASE M!Find(k) # {}
    <3>1. MapOK' /\ M!Entries' = M!Entries
      BY <1>6, <2>2, NothingStored DEF M!Insert
    <3>2. M!Ordered!Keep(k)
      BY <1>6, <2>2, <3>1, SameKeys DEF M!Insert, M!Ordered!Keep
    <3> QED  BY <3>1, <3>2 DEF M!Ordered!Next
  <2> QED  BY <2>1, <2>2
<1> QED  BY <1>1, <1>2, <1>3, <1>4, <1>5, <1>6 DEF M!Next

\* The map keeps the entries in the order in which their keys were added, each
\* key once, an entry where it is, whatever is called and fails (insert,
\* operator[], at and count of insertion_map.h): every run of it is a run of
\* the ordered map.
THEOREM MapIsOrdered ==
    ASSUME DefaultIsValue
    PROVE  M!Spec => ImplementsOrderedMap
<1>1. M!Init => MapOK /\ M!Ordered!Init
  BY InitEmpty
<1>2. MapOK /\ [M!Next]_(M!vars) => MapOK' /\ [M!Ordered!Next]_<<M!Entries, returned>>
  BY StepOrdered
<1> QED  BY <1>1, <1>2, PTL DEF M!Spec, ImplementsOrderedMap, M!ImplementsOrderedMap, M!Ordered!Spec

-----------------------------------------------------------------------------
(* FormatParagraph *)

Line == [indent : Nat, words : Seq(G!Words)]

\* What is said of the line that is being filled.  That a text is in memory
\* keeps the sums from wrapping: each word has its share of SIZE_MAX.
FillingOK ==
    /\ lineVector_ \in Seq(G!Words) /\ wordDeque \in Seq(G!Words)
    /\ totalWordLength_ = G!Total(lineVector_)
    /\ MaxWords * (totalWordLength_ + Len(lineVector_)) <= SIZE_MAX * Len(lineVector_)
    /\ lineVector_ # <<>> =>
            totalWordLength_ + Len(lineVector_) - 1 <= permittedLineLength
    /\ paragraph = (G!OnLines \o lineVector_) \o wordDeque

\* The text and its sizes, and no line that was pushed is longer than permitted.
LinesOK ==
    /\ paragraph \in Seq(G!Words) /\ Len(paragraph) \in 1 .. MaxWords
    /\ indent \in 0 .. SIZE_MAX /\ permittedLineLength \in 0 .. SIZE_MAX
    /\ lines \in Seq(Line)
    /\ \A i \in DOMAIN lines : G!Length(lines[i]) <= permittedLineLength + indent

ParagraphOK ==
    /\ formatting \in {"idle", "loop", "done", "bad_alloc", "logic_error"}
    /\ formatting = "idle" => lines = <<>> /\ lineVector_ = <<>> /\ totalWordLength_ = 0
    /\ formatting \in {"loop", "done", "bad_alloc"} => LinesOK
    /\ formatting = "loop" =>
            FillingOK /\ (G!WordsFit => Len(lines) <= Len(G!OnLines))
    /\ formatting = "done" =>
            \/ paragraph = (G!OnLines \o lineVector_) \o wordDeque
            \/ G!OnLines = G!Front(paragraph) /\ G!Last(paragraph).size = 0
    /\ formatting = "bad_alloc" => ~G!WordsFit

\* The size of words that follow each other is that of all of them.
LEMMA WordTotals ==
    ASSUME TextSizes, NEW words \in Seq(G!Words)
    PROVE  /\ G!Total(<<>>) = 0
           /\ G!Total(words) \in Nat
           /\ \A word \in G!Words :
                G!Total(Append(words, word)) = G!Total(words) + word.size
<1> DEFINE Sizes(s) == [i \in DOMAIN s |-> s[i].size]
<1>1. \A s : G!Total(s) = Total(Sizes(s))
  BY DEF G!Total, Total, G!FoldLeft, Str!FoldLeft, G!MapThenFoldSet, Str!MapThenFoldSet,
         G!Max, Str!Max
<1>2. \A w \in G!Words : w.size \in Nat
  BY DEF G!Words, TextSizes
<1>3. Sizes(words) \in Seq(Nat)
  <2>1. \A i \in DOMAIN words : words[i].size \in Nat
    BY <1>2
  <2> QED  BY <2>1
<1>4. \A word : Sizes(Append(words, word)) = Append(Sizes(words), word.size)
  OBVIOUS
<1>5. Sizes(<<>>) = <<>>
  OBVIOUS
<1> HIDE DEF Sizes
<1>6. Total(<<>>) = 0 /\ Total(Sizes(words)) \in Nat
  <2>1. 0 \in Nat
    OBVIOUS
  <2> QED  BY <1>3, <2>1, TotalAppend
<1> QED  BY <1>1, <1>2, <1>3, <1>4, <1>5, <1>6, TotalAppend

\* The words of a line that is pushed come behind those of the others.
LEMMA LineAdded ==
    ASSUME lines \in Seq(Line)
    PROVE  /\ G!OnLines \in Seq(G!Words)
           /\ \A line \in Line : lines' = Append(lines, line) =>
                    G!OnLines' = G!OnLines \o line.words
<1> DEFINE WordsOf(s) == [i \in DOMAIN s |-> s[i].words]
<1>1. G!OnLines = G!FlattenSeq(WordsOf(lines)) /\ G!OnLines' = G!FlattenSeq(WordsOf(lines'))
  BY DEF G!OnLines
<1>2. WordsOf(lines) \in Seq(Seq(G!Words))
  <2>1. \A i \in DOMAIN lines : lines[i].words \in Seq(G!Words)
    <3>1. \A i \in DOMAIN lines : lines[i] \in Line
      OBVIOUS
    <3> QED  BY <3>1 DEF Line
  <2>2. Len(lines) \in Nat /\ DOMAIN lines = 1 .. Len(lines)
    OBVIOUS
  <2> QED  BY <2>1, <2>2
<1>3. \A line \in Line : WordsOf(Append(lines, line)) = Append(WordsOf(lines), line.words)
  OBVIOUS
<1>4. \A line \in Line : line.words \in Seq(G!Words)
  BY DEF Line
<1>5. PICK seqs, S : seqs = WordsOf(lines) /\ S = G!Words
  OBVIOUS
<1> HIDE DEF WordsOf
<1>6. <<>> \in Seq(S) /\ seqs \in Seq(Seq(S))
  BY <1>2, <1>5
<1>7. \A s : G!FlattenSeq(s) = Str!FlattenSeq(s)
  BY DEF G!FlattenSeq, Str!FlattenSeq
<1>8. Str!FlattenSeq(seqs) \in Seq(S)
  BY <1>6, FlattenAppend
<1>9. \A s \in Seq(S) : Str!FlattenSeq(Append(seqs, s)) = Str!FlattenSeq(seqs) \o s
  BY <1>6, FlattenAppend
<1> QED  BY <1>1, <1>3, <1>4, <1>5, <1>7, <1>8, <1>9

LEMMA NothingOnNoLine == lines = <<>> => G!OnLines = <<>>
BY DEF G!OnLines, G!FlattenSeq

\* What size_t makes of the numbers that are computed with it.
LEMMA SizesWrap ==
    ASSUME TextSizes
    PROVE  /\ \A n \in 0 .. SIZE_MAX : G!Size(n) = n /\ G!Size(SIZE_MAX + n + 1) = n
           /\ G!Size(-1) = SIZE_MAX
<1>1. PICK m : m = SIZE_MAX + 1 /\ m \in Nat \ {0}
  BY DEF TextSizes
<1>2. \A q \in Int, r \in 0 .. m - 1, a \in Int : a = m * q + r => a % m = r
  BY <1>1, RemainderOf
<1>3. \A n \in 0 .. m - 1 : n % m = n /\ (m + n) % m = n
  <2> TAKE n \in 0 .. m - 1
  <2>1. n = m * 0 + n /\ m + n = m * 1 + n /\ n \in Int /\ m + n \in Int
    BY <1>1
  <2> QED  BY <1>2, <2>1
<1>4. (-1) % m = m - 1
  <2>1. -1 = m * (-1) + (m - 1) /\ m - 1 \in 0 .. m - 1
    BY <1>1
  <2> QED  BY <1>2, <2>1
<1>5. SIZE_MAX \in Nat
  BY DEF TextSizes
<1>6. \A n \in 0 .. SIZE_MAX : G!Size(n) = n /\ G!Size(SIZE_MAX + n + 1) = n
  <2> TAKE n \in 0 .. SIZE_MAX
  <2>1. n \in 0 .. m - 1 /\ SIZE_MAX + n + 1 = m + n
    BY <1>1, <1>5
  <2> QED  BY <1>1, <1>3, <2>1 DEF G!Size
<1> QED  BY <1>1, <1>4, <1>5, <1>6 DEF G!Size

\* The predicted length is that of the line with a space and the word; the
\* length of an empty line wraps and the prediction wraps back.
LEMMA Predicted ==
    ASSUME TextSizes, LinesOK, FillingOK, wordDeque # <<>>
    PROVE  G!PredictLength(Head(wordDeque)) =
                IF lineVector_ = <<>> THEN Head(wordDeque).size
                ELSE totalWordLength_ + Len(lineVector_) + Head(wordDeque).size
<1>1. PICK word : word = Head(wordDeque)
  OBVIOUS
<1>2. PICK size : size = word.size
  OBVIOUS
<1>3. word \in G!Words /\ size \in WordSizes /\ size \in Nat
  <2>1. wordDeque \in Seq(G!Words)
    BY DEF FillingOK
  <2>2. word \in G!Words
    BY <1>1, <2>1
  <2> QED  BY <1>2, <2>2 DEF TextSizes, G!Words
<1>4. MaxWords * (size + 1) <= SIZE_MAX
  BY <1>3 DEF TextSizes
<1>5. PICK n : n = Len(lineVector_)
  OBVIOUS
<1>6. n \in Nat /\ (lineVector_ = <<>> <=> n = 0)
  BY <1>5 DEF FillingOK
<1>7. n + 1 <= MaxWords
  <2>1. PICK before : before = G!OnLines
    OBVIOUS
  <2>2. before \in Seq(G!Words) /\ lineVector_ \in Seq(G!Words) /\ wordDeque \in Seq(G!Words)
    BY <2>1, LineAdded DEF LinesOK, FillingOK
  <2>3. paragraph = (before \o lineVector_) \o wordDeque /\ Len(paragraph) <= MaxWords
    BY <2>1 DEF LinesOK, FillingOK
  <2>4. Len(paragraph) = Len(before) + Len(lineVector_) + Len(wordDeque)
    BY <2>2, <2>3
  <2>5. Len(wordDeque) >= 1 /\ Len(before) >= 0 /\ Len(lineVector_) >= 0
    BY <2>2
  <2> QED  BY <1>5, <2>2, <2>3, <2>4, <2>5 DEF TextSizes
<1>8. MaxWords \in Nat /\ SIZE_MAX \in Nat
  BY DEF TextSizes
<1>9. size + 1 <= SIZE_MAX
  <2>1. MaxWords >= 1
    BY <1>6, <1>7, <1>8
  <2>2. size + 1 <= MaxWords * (size + 1)
    <3>1. MaxWords * (size + 1) = (MaxWords - 1) * (size + 1) + (size + 1)
      BY <1>3, <1>8
    <3>2. MaxWords - 1 \in Nat /\ size + 1 \in Nat
      BY <1>3, <1>8, <2>1
    <3>3. \A a, b \in Nat : a * b \in Nat
      OBVIOUS
    <3>4. (MaxWords - 1) * (size + 1) \in Nat
      BY <3>2, <3>3
    <3> QED  BY <1>3, <3>1, <3>4
  <2> QED  BY <1>3, <1>4, <1>8, <2>2
<1>10. CASE n = 0
  <2>1. G!GetLineLength = SIZE_MAX
    <3>1. totalWordLength_ = 0 /\ Len(lineVector_) = 0
      <4>1. lineVector_ = <<>>
        BY <1>6, <1>10
      <4> QED  BY <1>3, <4>1, WordTotals DEF FillingOK
    <3> QED  BY <3>1, SizesWrap DEF G!GetLineLength
  <2>2. G!Size(SIZE_MAX + size + 1) = size
    BY <1>3, <1>8, <1>9, SizesWrap
  <2> QED  BY <1>1, <1>2, <1>6, <1>10, <2>1, <2>2 DEF G!PredictLength
<1>11. CASE n > 0
  <2>1. PICK total : total = totalWordLength_ /\ total \in Nat
    BY <1>3, WordTotals DEF FillingOK
  <2>2. MaxWords * (total + n) <= SIZE_MAX * n
    BY <1>5, <2>1 DEF FillingOK
  <2>3. total + n + size + 1 <= SIZE_MAX
    <3>1. PICK a, b : a = total + n /\ b = size + 1
      OBVIOUS
    <3>2. a \in Nat /\ b \in Nat
      BY <1>3, <1>6, <2>1, <3>1
    <3>3. MaxWords * (a + b) = MaxWords * a + MaxWords * b
      BY <1>8, <3>2
    <3>4. SIZE_MAX * (n + 1) = SIZE_MAX * n + SIZE_MAX
      BY <1>6, <1>8
    <3>5. SIZE_MAX * (n + 1) <= SIZE_MAX * MaxWords
      <4>1. \A x, y, z \in Nat : x <= y => z * x <= z * y
        OBVIOUS
      <4> QED  BY <1>6, <1>7, <1>8, <4>1
    <3>6. MaxWords * (a + b) <= MaxWords * SIZE_MAX
      <4>1. \A x, y \in Nat : x * y \in Nat /\ x * y = y * x
        OBVIOUS
      <4>2. MaxWords * a \in Nat /\ MaxWords * b \in Nat /\ SIZE_MAX * n \in Nat
            /\ SIZE_MAX * MaxWords \in Nat /\ SIZE_MAX * (n + 1) \in Nat
        BY <1>6, <1>8, <3>2, <4>1
      <4>3. SIZE_MAX * MaxWords = MaxWords * SIZE_MAX
        BY <1>8, <4>1
      <4> QED  BY <1>4, <1>8, <2>2, <3>1, <3>3, <3>4, <3>5, <4>2, <4>3
    <3>7. a + b <= SIZE_MAX
      <4>1. \A x, y, z \in Nat : z > 0 /\ z * x <= z * y => x <= y
        OBVIOUS
      <4>2. MaxWords > 0 /\ a + b \in Nat
        BY <1>6, <1>7, <1>8, <3>2
      <4> QED  BY <1>8, <3>6, <4>1, <4>2
    <3> QED  BY <1>3, <1>6, <2>1, <3>1, <3>7
  <2>4. G!GetLineLength = total + n - 1
    <3>1. total + n - 1 \in 0 .. SIZE_MAX
      BY <1>3, <1>6, <1>8, <1>11, <2>1, <2>3
    <3> QED  BY <1>5, <2>1, <3>1, SizesWrap DEF G!GetLineLength
  <2>5. G!Size(total + n - 1 + size + 1) = total + n + size
    <3>1. total + n - 1 + size + 1 = total + n + size /\ total + n + size \in 0 .. SIZE_MAX
      BY <1>3, <1>6, <1>8, <2>1, <2>3
    <3> QED  BY <3>1, SizesWrap
  <2> QED  BY <1>1, <1>2, <1>5, <1>6, <1>11, <2>1, <2>4, <2>5 DEF G!PredictLength
<1> QED  BY <1>6, <1>10, <1>11

\* The words of a paragraph are on three heaps.
LEMMA HeapsOfWords ==
    ASSUME TextSizes, LinesOK, FillingOK
    PROVE  /\ G!OnLines \in Seq(G!Words)
           /\ Len(paragraph) = Len(G!OnLines) + Len(lineVector_) + Len(wordDeque)
           /\ G!WordsFit /\ wordDeque # <<>> => Head(wordDeque).size <= permittedLineLength
<1>1. PICK before, S : before = G!OnLines /\ S = G!Words
  OBVIOUS
<1>2. before \in Seq(S) /\ lineVector_ \in Seq(S) /\ wordDeque \in Seq(S)
  BY <1>1, LineAdded DEF LinesOK, FillingOK
<1>3. paragraph = (before \o lineVector_) \o wordDeque
  BY <1>1 DEF FillingOK
<1>4. Len(paragraph) = Len(before) + Len(lineVector_) + Len(wordDeque)
  BY <1>2, <1>3
<1>5. ASSUME G!WordsFit, wordDeque # <<>> PROVE Head(wordDeque).size <= permittedLineLength
  <2>1. PICK i : i = Len(before) + Len(lineVector_) + 1
    OBVIOUS
  <2>2. Len(wordDeque) >= 1 /\ Len(before) \in Nat /\ Len(lineVector_) \in Nat
        /\ Len(wordDeque) \in Nat
    BY <1>2, <1>5
  <2>3. i \in DOMAIN paragraph
    <3>1. DOMAIN paragraph = 1 .. Len(paragraph)
      BY <1>2, <1>3
    <3> QED  BY <1>4, <2>1, <2>2, <3>1
  <2>4. paragraph[i] = wordDeque[1]
    BY <1>2, <1>3, <2>1, <2>2
  <2>5. wordDeque[1] = Head(wordDeque)
    BY <1>2, <1>5
  <2> QED  BY <1>5, <2>3, <2>4, <2>5 DEF G!WordsFit
<1> QED  BY <1>1, <1>2, <1>4, <1>5

\* Words go from one sequence to the next.
MovesOn(a, b, c) ==
    /\ ((a \o b) \o <<>>) \o c = (a \o b) \o c
    /\ c # <<>> => (a \o Append(b, Head(c))) \o Tail(c) = (a \o b) \o c
    /\ c # <<>> => ((a \o Append(b, Head(c))) \o <<>>) \o Tail(c) = (a \o b) \o c

LEMMA WordsMove ==
    ASSUME NEW S, NEW a \in Seq(S), NEW b \in Seq(S), NEW c \in Seq(S)
    PROVE  MovesOn(a, b, c)
<1>1. a \o b \in Seq(S) /\ (a \o b) \o <<>> = a \o b
  OBVIOUS
<1>2. ASSUME c # <<>> PROVE (a \o Append(b, Head(c))) \o Tail(c) = (a \o b) \o c
  <2>1. PICK h, t : h = Head(c) /\ t = Tail(c)
    OBVIOUS
  <2>2. h \in S /\ t \in Seq(S) /\ Len(t) = Len(c) - 1 /\ Len(c) >= 1 /\ c[1] = h
        /\ \A i \in 1 .. Len(t) : t[i] = c[i + 1]
    BY <1>2, <2>1
  <2>3. PICK left, right, d :
            left = (a \o d) \o t /\ right = (a \o b) \o c /\ d = Append(b, h)
    OBVIOUS
  <2>4. d \in Seq(S) /\ Len(d) = Len(b) + 1 /\ d[Len(d)] = h
        /\ \A i \in 1 .. Len(b) : d[i] = b[i]
    BY <2>2, <2>3
  <2>5. left \in Seq(S) /\ right \in Seq(S)
    BY <2>2, <2>3, <2>4
  <2>6. Len(left) = Len(a) + Len(b) + Len(c) /\ Len(right) = Len(a) + Len(b) + Len(c)
    <3>1. Len(left) = Len(a) + Len(d) + Len(t)
      <4>1. \A x, y \in Seq(S) : x \o y \in Seq(S) /\ Len(x \o y) = Len(x) + Len(y)
        OBVIOUS
      <4>2. a \in Seq(S) /\ d \in Seq(S) /\ t \in Seq(S) /\ left = (a \o d) \o t
        BY <2>2, <2>3, <2>4
      <4> QED  BY <4>1, <4>2
    <3>2. Len(right) = Len(a) + Len(b) + Len(c)
      BY <2>3
    <3>3. Len(a) \in Nat /\ Len(b) \in Nat /\ Len(c) \in Nat
      OBVIOUS
    <3> QED  BY <2>2, <2>4, <3>1, <3>2, <3>3
  <2>7. Len(a) \in Nat /\ Len(b) \in Nat /\ Len(c) \in Nat
    OBVIOUS
  <2>8. ASSUME NEW i \in 1 .. Len(left) PROVE left[i] = right[i]
    <3>1. CASE i <= Len(a)
      BY <2>2, <2>3, <2>4, <2>6, <2>7, <3>1
    <3>2. CASE i > Len(a) /\ i <= Len(a) + Len(b)
      BY <2>2, <2>3, <2>4, <2>6, <2>7, <3>2
    <3>3. CASE i = Len(a) + Len(b) + 1
      BY <2>2, <2>3, <2>4, <2>6, <2>7, <3>3
    <3>4. CASE i > Len(a) + Len(b) + 1
      <4>1. left[i] = t[i - (Len(a) + Len(b) + 1)]
        BY <2>2, <2>3, <2>4, <2>6, <2>7, <3>4
      <4>2. right[i] = c[i - (Len(a) + Len(b))]
        BY <2>2, <2>3, <2>6, <2>7, <3>4
      <4>3. t[i - (Len(a) + Len(b) + 1)] = c[i - (Len(a) + Len(b))]
        <5>1. PICK k : k = i - (Len(a) + Len(b) + 1)
          OBVIOUS
        <5>2. k \in 1 .. Len(t) /\ k + 1 = i - (Len(a) + Len(b))
          BY <2>2, <2>6, <2>7, <3>4, <5>1
        <5> QED  BY <2>2, <5>1, <5>2
      <4> QED  BY <4>1, <4>2, <4>3
    <3>5. i \in Nat
      BY <2>6, <2>7
    <3> QED  BY <2>7, <3>1, <3>2, <3>3, <3>4, <3>5
  <2>9. left = right
    BY <2>5, <2>6, <2>8
  <2> QED  BY <2>1, <2>3, <2>9
<1>3. ASSUME c # <<>> PROVE (a \o Append(b, Head(c))) \o <<>> = a \o Append(b, Head(c))
  <2>1. Append(b, Head(c)) \in Seq(S)
    BY <1>3
  <2> QED  BY <2>1
<1> QED  BY <1>1, <1>2, <1>3 DEF MovesOn

\* A line is pushed that is not too long.

LEMMA LinePushed ==
    ASSUME TextSizes, LinesOK, NEW spaces \in 0 .. indent, NEW words \in Seq(G!Words),
           IF words = <<>> THEN TRUE ELSE G!Total(words) + Len(words) - 1 <= permittedLineLength,
           lines' = Append(lines, [indent |-> spaces, words |-> words]),
           UNCHANGED <<paragraph, indent, permittedLineLength>>
    PROVE  /\ LinesOK'
           /\ G!OnLines' = G!OnLines \o words
           /\ Len(lines') = Len(lines) + 1
<1>1. PICK line : line = [indent |-> spaces, words |-> words]
  OBVIOUS
<1>2. indent \in Nat /\ spaces \in Nat /\ spaces <= indent /\ permittedLineLength \in Nat
  BY DEF LinesOK, TextSizes
<1>3. line \in Line /\ line.indent = spaces /\ line.words = words
  BY <1>1, <1>2 DEF Line
<1>4. lines \in Seq(Line) /\ lines' = Append(lines, line)
  BY <1>1 DEF LinesOK
<1>5. G!OnLines' = G!OnLines \o words
  BY <1>3, <1>4, LineAdded
<1>6. /\ lines' \in Seq(Line) /\ Len(lines') = Len(lines) + 1 /\ lines'[Len(lines) + 1] = line
      /\ \A i \in DOMAIN lines : lines'[i] = lines[i]
      /\ \A i \in DOMAIN lines' : i \in DOMAIN lines \/ i = Len(lines) + 1
  BY <1>3, <1>4
<1>7. G!Length(line) <= permittedLineLength + indent
  <2>1. G!Total(words) \in Nat /\ G!Total(<<>>) = 0
    BY WordTotals
  <2>2. CASE words = <<>>
    BY <1>2, <1>3, <2>1, <2>2 DEF G!Length
  <2>3. CASE words # <<>>
    <3>1. G!Total(words) + Len(words) - 1 <= permittedLineLength /\ Len(words) \in Nat
      BY <2>3
    <3>2. G!Length(line) = spaces + G!Total(words) + (Len(words) - 1)
      BY <1>3, <2>3 DEF G!Length
    <3> QED  BY <1>2, <2>1, <3>1, <3>2
  <2> QED  BY <2>2, <2>3
<1>8. \A i \in DOMAIN lines' : G!Length(lines'[i]) <= permittedLineLength + indent
  <2>1. \A i \in DOMAIN lines : G!Length(lines[i]) <= permittedLineLength + indent
    BY DEF LinesOK
  <2> QED  BY <1>6, <1>7, <2>1
<1> QED  BY <1>5, <1>6, <1>8 DEF LinesOK

LEMMA ParagraphStarts == G!Init => ParagraphOK
BY DEF G!Init, ParagraphOK

LEMMA TextSplit == ASSUME TextSizes, ParagraphOK, G!Call PROVE ParagraphOK'
<1>1. PICK t \in G!Text, spaces \in Indents, width \in Widths :
            /\ paragraph' = t /\ wordDeque' = t
            /\ indent' = spaces
            /\ permittedLineLength' = G!Size(width - spaces)
            /\ formatting' = IF spaces > width THEN "logic_error" ELSE "loop"
  BY DEF G!Call
<1>2. /\ lines = <<>> /\ lineVector_ = <<>> /\ totalWordLength_ = 0
      /\ lines' = lines /\ lineVector_' = lineVector_ /\ totalWordLength_' = totalWordLength_
  BY DEF G!Call, ParagraphOK
<1>3. CASE spaces > width
  <2>1. formatting' = "logic_error"
    BY <1>1, <1>3
  <2> QED  BY <2>1 DEF ParagraphOK
<1>4. CASE ~(spaces > width)
  <2>1. t \in Seq(G!Words) /\ Len(t) \in 1 .. MaxWords /\ t # <<>>
    <3>1. PICK n \in 0 .. MaxWords : t \in [1 .. n -> G!Words]
      BY <1>1 DEF G!Text, G!BoundedSeq, G!SeqOf
    <3>2. t # <<>> /\ n \in Nat
      BY <1>1, <3>1 DEF G!Text, TextSizes
    <3>3. t \in Seq(G!Words) /\ Len(t) = n
      BY <3>1, <3>2
    <3>4. n # 0
      BY <3>2, <3>3
    <3> QED  BY <3>1, <3>2, <3>3, <3>4 DEF TextSizes
  <2>2. spaces \in 0 .. SIZE_MAX /\ width - spaces \in 0 .. SIZE_MAX
    <3>1. spaces \in 0 .. SIZE_MAX /\ width \in 0 .. SIZE_MAX /\ SIZE_MAX \in Nat
      BY <1>1 DEF TextSizes
    <3> QED  BY <1>4, <3>1
  <2>3. permittedLineLength' = width - spaces
    BY <1>1, <2>2, SizesWrap
  <2>4. LinesOK'
    <3>1. lines' = <<>>
      BY <1>2
    <3>2. lines' \in Seq(Line) /\ DOMAIN lines' = {}
      BY <3>1
    <3> QED  BY <1>1, <2>1, <2>2, <2>3, <3>2 DEF LinesOK
  <2>5. G!OnLines' = <<>>
    BY <1>2 DEF G!OnLines, G!FlattenSeq
  <2>6. FillingOK'
    <3>1. lineVector_' = <<>> /\ totalWordLength_' = 0 /\ <<>> \in Seq(G!Words)
          /\ Len(<<>>) = 0
      BY <1>2
    <3>2. G!Total(<<>>) = 0
      BY <2>1, WordTotals
    <3>3. (G!OnLines \o lineVector_)' = <<>>
      BY <2>5, <3>1
    <3>4. <<>> \o t = t
      BY <2>1
    <3>5. MaxWords * 0 = 0 /\ SIZE_MAX * 0 = 0
      BY DEF TextSizes
    <3> QED  BY <1>1, <2>1, <3>1, <3>2, <3>3, <3>4, <3>5 DEF FillingOK
  <2>7. Len(lines') = 0 /\ Len(G!OnLines') = 0
    BY <1>2, <2>5
  <2>8. formatting' = "loop"
    BY <1>1, <1>4
  <2> QED  BY <2>4, <2>6, <2>7, <2>8 DEF ParagraphOK
<1> QED  BY <1>3, <1>4

LEMMA LinesUnchanged ==
    ASSUME UNCHANGED <<paragraph, indent, permittedLineLength, lines>>
    PROVE  (LinesOK => LinesOK') /\ G!OnLines' = G!OnLines /\ (G!WordsFit' <=> G!WordsFit)
BY DEF LinesOK, G!OnLines, G!WordsFit, G!Length

LEMMA LineBroken == ASSUME TextSizes, ParagraphOK, G!Break PROVE ParagraphOK'
<1>1. /\ formatting = "loop" /\ wordDeque # <<>> /\ LinesOK /\ FillingOK
      /\ G!WordsFit => Len(lines) <= Len(G!OnLines)
      /\ G!PredictLength(Head(wordDeque)) > permittedLineLength
      /\ lineVector_' = <<>> /\ totalWordLength_' = 0
      /\ UNCHANGED <<paragraph, indent, permittedLineLength, wordDeque>>
      /\ G!PushLine(indent, lineVector_)
  BY DEF ParagraphOK, G!Break, G!Reset
<1>2. PICK before : before = G!OnLines
  OBVIOUS
<1>3. /\ before \in Seq(G!Words) /\ lineVector_ \in Seq(G!Words) /\ wordDeque \in Seq(G!Words)
      /\ Len(paragraph) = Len(before) + Len(lineVector_) + Len(wordDeque)
  BY <1>1, <1>2, HeapsOfWords DEF FillingOK
<1>4. G!WordsFit => lineVector_ # <<>>
  <2> SUFFICES ASSUME G!WordsFit, lineVector_ = <<>> PROVE FALSE
    OBVIOUS
  <2>1. Head(wordDeque).size <= permittedLineLength
    BY <1>1, HeapsOfWords
  <2>2. G!PredictLength(Head(wordDeque)) = Head(wordDeque).size
    BY <1>1, Predicted
  <2>3. Head(wordDeque).size \in Nat /\ permittedLineLength \in Nat
    <3>1. Head(wordDeque) \in G!Words
      BY <1>1, <1>3
    <3>2. permittedLineLength \in Nat
      BY <1>1 DEF TextSizes, LinesOK
    <3> QED  BY <3>1, <3>2 DEF G!Words, TextSizes
  <2> QED  BY <1>1, <2>1, <2>2, <2>3
<1>5. CASE Len(lines) = LineMemory
  <2>1. lines' = lines /\ formatting' = "bad_alloc"
    BY <1>1, <1>5 DEF G!PushLine
  <2>2. ~G!WordsFit
    <3>1. Len(paragraph) <= MaxWords /\ Len(before) <= Len(paragraph)
      BY <1>1, <1>3 DEF LinesOK
    <3>2. Len(before) \in Nat /\ Len(paragraph) \in Nat /\ LineMemory > MaxWords
          /\ MaxWords \in Nat /\ LineMemory \in Nat
      BY <1>1, <1>3 DEF LinesOK, TextSizes
    <3> QED  BY <1>1, <1>2, <1>5, <3>1, <3>2
  <2>3. LinesOK' /\ ~G!WordsFit'
    BY <1>1, <2>1, <2>2, LinesUnchanged
  <2> QED  BY <2>1, <2>3 DEF ParagraphOK
<1>6. CASE Len(lines) # LineMemory
  <2>1. /\ lines' = Append(lines, [indent |-> indent, words |-> lineVector_])
        /\ formatting' = "loop"
    BY <1>1, <1>6 DEF G!PushLine
  <2>2. indent \in 0 .. indent
    BY <1>1 DEF LinesOK, TextSizes
  <2>3. IF lineVector_ = <<>> THEN TRUE
        ELSE G!Total(lineVector_) + Len(lineVector_) - 1 <= permittedLineLength
    BY <1>1 DEF FillingOK
  <2>4. LinesOK' /\ G!OnLines' = before \o lineVector_ /\ Len(lines') = Len(lines) + 1
    BY <1>1, <1>2, <1>3, <2>1, <2>2, <2>3, LinePushed
  <2>5. FillingOK'
    <3>1. paragraph' = (G!OnLines' \o lineVector_') \o wordDeque'
      <4>1. paragraph = (before \o lineVector_) \o wordDeque
        BY <1>1, <1>2 DEF FillingOK
      <4>2. ((before \o lineVector_) \o <<>>) \o wordDeque = (before \o lineVector_) \o wordDeque
        BY <1>3, WordsMove DEF MovesOn
      <4> QED  BY <1>1, <2>4, <4>1, <4>2
    <3>2. G!Total(<<>>) = 0 /\ <<>> \in Seq(G!Words) /\ Len(<<>>) = 0
      BY <1>3, WordTotals
    <3>3. MaxWords * 0 = 0 /\ SIZE_MAX * 0 = 0
      BY DEF TextSizes
    <3> QED  BY <1>1, <1>3, <3>1, <3>2, <3>3 DEF FillingOK
  <2>6. G!WordsFit' => Len(lines') <= Len(G!OnLines')
    <3>1. G!WordsFit' <=> G!WordsFit
      BY <1>1 DEF G!WordsFit
    <3>2. Len(before \o lineVector_) = Len(before) + Len(lineVector_)
      BY <1>3
    <3>3. Len(lineVector_) \in Nat /\ Len(before) \in Nat /\ Len(lines) \in Nat
      BY <1>1, <1>3 DEF LinesOK
    <3>4. lineVector_ # <<>> => Len(lineVector_) >= 1
      BY <1>3
    <3> QED  BY <1>1, <1>2, <1>4, <2>4, <3>1, <3>2, <3>3, <3>4
  <2> QED  BY <2>1, <2>4, <2>5, <2>6 DEF ParagraphOK
<1> QED  BY <1>5, <1>6

\* A line with the next word is still short.
LEMMA WordFitsLine ==
    ASSUME TextSizes, LinesOK, FillingOK, wordDeque # <<>>,
           G!PredictLength(Head(wordDeque)) <= permittedLineLength
    PROVE  LET more == Append(lineVector_, Head(wordDeque)) IN
           /\ Head(wordDeque) \in G!Words
           /\ more \in Seq(G!Words) /\ more # <<>>
           /\ Len(more) = Len(lineVector_) + 1
           /\ G!Total(more) = totalWordLength_ + Head(wordDeque).size
           /\ G!Total(more) + Len(more) - 1 <= permittedLineLength
           /\ MaxWords * (G!Total(more) + Len(more)) <= SIZE_MAX * Len(more)
<1>1. PICK word, more : word = Head(wordDeque) /\ more = Append(lineVector_, word)
  OBVIOUS
<1>2. lineVector_ \in Seq(G!Words) /\ word \in G!Words
  <2>1. lineVector_ \in Seq(G!Words) /\ wordDeque \in Seq(G!Words)
    BY DEF FillingOK
  <2> QED  BY <1>1, <2>1
<1>3. more \in Seq(G!Words) /\ more # <<>> /\ Len(more) = Len(lineVector_) + 1
  BY <1>1, <1>2
<1>4. PICK size, total, n : size = word.size /\ total = totalWordLength_ /\ n = Len(lineVector_)
  OBVIOUS
<1>5. size \in WordSizes /\ size \in Nat /\ total \in Nat /\ n \in Nat
  <2>1. size \in WordSizes
    BY <1>2, <1>4 DEF G!Words
  <2>2. total \in Nat
    BY <1>2, <1>4, WordTotals DEF FillingOK
  <2>3. size \in Nat
    BY <2>1 DEF TextSizes
  <2>4. n \in Nat
    BY <1>2, <1>4
  <2> QED  BY <2>1, <2>2, <2>3, <2>4
<1>6. G!Total(more) = total + size
  BY <1>1, <1>2, <1>4, WordTotals DEF FillingOK
<1>7. total + size + n <= permittedLineLength
  <2>1. G!PredictLength(word) = IF lineVector_ = <<>> THEN size ELSE total + n + size
    BY <1>1, <1>4, Predicted
  <2>2. lineVector_ = <<>> => total = 0 /\ n = 0
    BY <1>2, <1>4, WordTotals DEF FillingOK
  <2>3. G!PredictLength(word) <= permittedLineLength
    BY <1>1
  <2> QED  BY <1>5, <2>1, <2>2, <2>3
<1>8. MaxWords * (total + size + (n + 1)) <= SIZE_MAX * (n + 1)
  <2>1. MaxWords * (total + n) <= SIZE_MAX * n
    BY <1>4 DEF FillingOK
  <2>2. MaxWords * (size + 1) <= SIZE_MAX
    BY <1>5 DEF TextSizes
  <2>3. MaxWords \in Nat /\ SIZE_MAX \in Nat
    BY DEF TextSizes
  <2>4. PICK a, b : a = total + n /\ b = size + 1
    OBVIOUS
  <2>5. a \in Nat /\ b \in Nat /\ total + size + (n + 1) = a + b
    BY <1>5, <2>4
  <2>6. MaxWords * (a + b) = MaxWords * a + MaxWords * b
        /\ SIZE_MAX * (n + 1) = SIZE_MAX * n + SIZE_MAX
    BY <1>5, <2>3, <2>5
  <2>7. MaxWords * a \in Nat /\ MaxWords * b \in Nat /\ SIZE_MAX * n \in Nat
    <3>1. \A x, y \in Nat : x * y \in Nat
      OBVIOUS
    <3> QED  BY <1>5, <2>3, <2>5, <3>1
  <2>8. MaxWords * a <= SIZE_MAX * n /\ MaxWords * b <= SIZE_MAX
    BY <2>1, <2>2, <2>4
  <2>9. MaxWords * (a + b) <= SIZE_MAX * (n + 1)
    BY <2>3, <2>6, <2>7, <2>8
  <2> QED  BY <2>5, <2>9
<1>9. G!Total(more) + Len(more) - 1 <= permittedLineLength
  BY <1>3, <1>4, <1>5, <1>6, <1>7
<1>10. MaxWords * (G!Total(more) + Len(more)) <= SIZE_MAX * Len(more)
  BY <1>3, <1>4, <1>6, <1>8
<1> QED  BY <1>1, <1>2, <1>3, <1>4, <1>6, <1>9, <1>10

LEMMA WordAdded == ASSUME TextSizes, ParagraphOK, G!AddWord PROVE ParagraphOK'
<1>1. PICK word, more, before, rest :
            /\ word = Head(wordDeque) /\ more = Append(lineVector_, word)
            /\ before = G!OnLines /\ rest = Tail(wordDeque)
  OBVIOUS
<1>2. /\ formatting = "loop" /\ wordDeque # <<>> /\ LinesOK /\ FillingOK
      /\ G!WordsFit => Len(lines) <= Len(before)
      /\ G!PredictLength(word) <= permittedLineLength
      /\ wordDeque' = rest
      /\ UNCHANGED <<paragraph, indent, permittedLineLength>>
      /\ \/ G!PushLine(indent, more) /\ lineVector_' = <<>> /\ totalWordLength_' = 0
         \/ /\ lineVector_' = more
            /\ totalWordLength_' = totalWordLength_ + word.size
            /\ UNCHANGED <<formatting, lines>>
  BY <1>1 DEF ParagraphOK, G!AddWord, G!Reset
<1>3. /\ before \in Seq(G!Words) /\ lineVector_ \in Seq(G!Words) /\ wordDeque \in Seq(G!Words)
      /\ Len(paragraph) = Len(before) + Len(lineVector_) + Len(wordDeque)
  BY <1>1, <1>2, HeapsOfWords DEF FillingOK
<1>4. /\ word \in G!Words /\ more \in Seq(G!Words) /\ more # <<>>
      /\ Len(more) = Len(lineVector_) + 1
      /\ G!Total(more) = totalWordLength_ + word.size
      /\ G!Total(more) + Len(more) - 1 <= permittedLineLength
      /\ MaxWords * (G!Total(more) + Len(more)) <= SIZE_MAX * Len(more)
  BY <1>1, <1>2, WordFitsLine
<1>5. /\ rest \in Seq(G!Words)
      /\ paragraph = (before \o more) \o rest
      /\ paragraph = ((before \o more) \o <<>>) \o rest
  <2>1. paragraph = (before \o lineVector_) \o wordDeque
    BY <1>1, <1>2 DEF FillingOK
  <2>2. /\ (before \o more) \o rest = (before \o lineVector_) \o wordDeque
        /\ ((before \o more) \o <<>>) \o rest = (before \o lineVector_) \o wordDeque
    <3>1. PICK S : S = G!Words
      OBVIOUS
    <3>2. before \in Seq(S) /\ lineVector_ \in Seq(S) /\ wordDeque \in Seq(S)
          /\ wordDeque # <<>>
      BY <1>2, <1>3, <3>1
    <3>3. /\ (before \o Append(lineVector_, Head(wordDeque))) \o Tail(wordDeque)
                = (before \o lineVector_) \o wordDeque
          /\ ((before \o Append(lineVector_, Head(wordDeque))) \o <<>>) \o Tail(wordDeque)
                = (before \o lineVector_) \o wordDeque
      <4>1. MovesOn(before, lineVector_, wordDeque)
        BY <3>2, WordsMove
      <4> QED  BY <3>2, <4>1 DEF MovesOn
    <3> QED  BY <1>1, <3>3
  <2>3. rest \in Seq(G!Words)
    BY <1>1, <1>2, <1>3
  <2> QED  BY <2>1, <2>2, <2>3
<1>6. G!WordsFit' <=> G!WordsFit
  BY <1>2 DEF G!WordsFit
<1>7. Len(lineVector_) \in Nat /\ Len(before) \in Nat /\ Len(lines) \in Nat
      /\ Len(wordDeque) \in Nat
  BY <1>2, <1>3 DEF LinesOK
<1>8. CASE /\ G!PushLine(indent, more) /\ lineVector_' = <<>> /\ totalWordLength_' = 0
           /\ Len(lines) = LineMemory
  <2>1. lines' = lines /\ formatting' = "bad_alloc"
    BY <1>8 DEF G!PushLine
  <2>2. ~G!WordsFit
    <3>1. Len(paragraph) <= MaxWords /\ Len(before) <= Len(paragraph)
      BY <1>2, <1>3, <1>7 DEF LinesOK
    <3>2. Len(paragraph) \in Nat /\ LineMemory > MaxWords
          /\ MaxWords \in Nat /\ LineMemory \in Nat
      BY <1>2, <1>3 DEF LinesOK, TextSizes
    <3> QED  BY <1>2, <1>7, <1>8, <3>1, <3>2
  <2>3. LinesOK'
    BY <1>2, <2>1, LinesUnchanged
  <2> QED  BY <1>6, <2>1, <2>2, <2>3 DEF ParagraphOK
<1>9. CASE /\ G!PushLine(indent, more) /\ lineVector_' = <<>> /\ totalWordLength_' = 0
           /\ Len(lines) # LineMemory
  <2>1. /\ lines' = Append(lines, [indent |-> indent, words |-> more])
        /\ formatting' = "loop"
    BY <1>2, <1>9 DEF G!PushLine
  <2>2. indent \in 0 .. indent
    BY <1>2 DEF LinesOK, TextSizes
  <2>3. LinesOK' /\ G!OnLines' = before \o more /\ Len(lines') = Len(lines) + 1
    BY <1>1, <1>2, <1>4, <2>1, <2>2, LinePushed
  <2>4. FillingOK'
    <3>1. paragraph' = (G!OnLines' \o lineVector_') \o wordDeque'
      BY <1>2, <1>5, <1>9, <2>3
    <3>2. G!Total(<<>>) = 0 /\ <<>> \in Seq(G!Words) /\ Len(<<>>) = 0
      BY <1>3, WordTotals
    <3>3. MaxWords * 0 = 0 /\ SIZE_MAX * 0 = 0
      BY DEF TextSizes
    <3>4. /\ lineVector_' \in Seq(G!Words) /\ wordDeque' \in Seq(G!Words)
          /\ totalWordLength_' = G!Total(lineVector_') /\ lineVector_' = <<>>
      BY <1>2, <1>5, <1>9, <3>2
    <3>5. MaxWords * (totalWordLength_' + Len(lineVector_')) <= SIZE_MAX * Len(lineVector_')
      <4>1. totalWordLength_' + Len(lineVector_') = 0 /\ Len(lineVector_') = 0
        BY <1>9, <3>2
      <4> QED  BY <3>3, <4>1
    <3> QED  BY <3>1, <3>4, <3>5 DEF FillingOK
  <2>5. G!WordsFit' => Len(lines') <= Len(G!OnLines')
    <3>1. Len(before \o more) = Len(before) + Len(more)
      <4>1. \A x, y \in Seq(G!Words) : Len(x \o y) = Len(x) + Len(y)
        OBVIOUS
      <4> QED  BY <1>3, <1>4, <4>1
    <3> QED  BY <1>2, <1>4, <1>6, <1>7, <2>3, <3>1
  <2> QED  BY <2>1, <2>3, <2>4, <2>5 DEF ParagraphOK
<1>10. CASE /\ lineVector_' = more
            /\ totalWordLength_' = totalWordLength_ + word.size
            /\ UNCHANGED <<formatting, lines>>
  <2>1. LinesOK' /\ G!OnLines' = before
    BY <1>1, <1>2, <1>10, LinesUnchanged
  <2>2. totalWordLength_' = G!Total(more)
    BY <1>4, <1>10
  <2>3. FillingOK'
    BY <1>2, <1>4, <1>5, <1>10, <2>1, <2>2 DEF FillingOK
  <2> QED  BY <1>2, <1>6, <1>10, <2>1, <2>3 DEF ParagraphOK
<1> QED  BY <1>2, <1>8, <1>9, <1>10

LEMMA ParagraphEnds == ASSUME TextSizes, ParagraphOK, G!Finish PROVE ParagraphOK'
<1>1. PICK before : before = G!OnLines
  OBVIOUS
<1>2. /\ formatting = "loop" /\ wordDeque = <<>> /\ LinesOK /\ FillingOK
      /\ G!WordsFit => Len(lines) <= Len(before)
      /\ lineVector_' = <<>> /\ totalWordLength_' = 0
      /\ UNCHANGED <<paragraph, indent, permittedLineLength, wordDeque>>
      /\ \/ G!GetLineLength = 0 /\ formatting' = "done" /\ UNCHANGED lines
         \/ Len(lines) = LineMemory /\ formatting' = "bad_alloc" /\ UNCHANGED lines
         \/ /\ formatting' = "done"
            /\ lines' = Append(lines, [indent |-> 0, words |-> lineVector_])
  BY <1>1 DEF ParagraphOK, G!Finish, G!Reset
<1>3. /\ before \in Seq(G!Words) /\ lineVector_ \in Seq(G!Words)
      /\ Len(paragraph) = Len(before) + Len(lineVector_) + Len(wordDeque)
  BY <1>1, <1>2, HeapsOfWords DEF FillingOK
<1>4. paragraph = before \o lineVector_
  <2>1. paragraph = (before \o lineVector_) \o wordDeque
    BY <1>1, <1>2 DEF FillingOK
  <2>2. before \o lineVector_ \in Seq(G!Words)
    BY <1>3
  <2> QED  BY <1>2, <2>1, <2>2
<1>5. G!WordsFit' <=> G!WordsFit
  BY <1>2 DEF G!WordsFit
<1>6. PICK n, total : n = Len(lineVector_) /\ total = totalWordLength_
  OBVIOUS
<1>7. n \in Nat /\ total \in Nat /\ total = G!Total(lineVector_)
  BY <1>2, <1>3, <1>6, WordTotals DEF FillingOK
<1>8. CASE G!GetLineLength = 0 /\ formatting' = "done" /\ UNCHANGED lines
  <2>1. LinesOK' /\ G!OnLines' = before
    BY <1>1, <1>2, <1>8, LinesUnchanged
  <2>2. n # 0
    <3> SUFFICES ASSUME n = 0 PROVE FALSE
      OBVIOUS
    <3>1. lineVector_ = <<>>
      BY <1>3, <1>6
    <3>2. total = 0
      BY <1>3, <1>7, <3>1, WordTotals
    <3>3. G!GetLineLength = SIZE_MAX
      BY <1>6, <3>2, SizesWrap DEF G!GetLineLength
    <3>4. SIZE_MAX # 0
      <4>1. Len(paragraph) >= 1 /\ Len(paragraph) <= MaxWords /\ paragraph[1] \in G!Words
        BY <1>2 DEF LinesOK, TextSizes
      <4>2. PICK size : size = paragraph[1].size
        OBVIOUS
      <4>3. size \in WordSizes /\ size \in Nat
        BY <4>1, <4>2 DEF G!Words, TextSizes
      <4>4. MaxWords * (size + 1) <= SIZE_MAX /\ MaxWords \in Nat
        BY <4>3 DEF TextSizes
      <4>5. \A x, y \in Nat : x > 0 /\ y > 0 => x * y > 0
        OBVIOUS
      <4>6. MaxWords > 0 /\ size + 1 \in Nat /\ size + 1 > 0
        BY <1>2, <4>1, <4>3, <4>4 DEF LinesOK
      <4>7. MaxWords * (size + 1) > 0
        BY <4>4, <4>5, <4>6
      <4> QED  BY <4>3, <4>4, <4>7 DEF TextSizes
    <3> QED  BY <1>8, <3>3, <3>4
  <2>3. total + n - 1 = 0
    <3>1. lineVector_ # <<>>
      BY <1>6, <2>2
    <3>2. total + n - 1 <= permittedLineLength
      BY <1>2, <1>6, <3>1 DEF FillingOK
    <3>3. total + n - 1 \in 0 .. SIZE_MAX
      BY <1>2, <1>7, <2>2, <3>2 DEF LinesOK, TextSizes
    <3> QED  BY <1>6, <1>8, <3>3, SizesWrap DEF G!GetLineLength
  <2>4. n = 1 /\ total = 0
    BY <1>7, <2>2, <2>3
  <2>5. PICK word : word = lineVector_[1]
    OBVIOUS
  <2>6. word \in G!Words /\ lineVector_ = <<word>>
    <3>1. \A x \in Seq(G!Words) : Len(x) = 1 => x[1] \in G!Words /\ x = <<x[1]>>
      OBVIOUS
    <3> QED  BY <1>3, <1>6, <2>4, <2>5, <3>1
  <2>7. word.size = 0
    <3>1. <<>> \in Seq(G!Words) /\ lineVector_ = Append(<<>>, word)
      BY <2>6
    <3>2. G!Total(Append(<<>>, word)) = G!Total(<<>>) + word.size /\ G!Total(<<>>) = 0
      BY <2>6, <3>1, WordTotals
    <3>3. word.size \in Nat
      BY <2>6 DEF G!Words, TextSizes
    <3>4. G!Total(lineVector_) = 0
      BY <1>7, <2>4
    <3>5. 0 = 0 + word.size
      BY <3>1, <3>2, <3>4
    <3> QED  BY <3>3, <3>5
  <2>8. before = G!Front(paragraph) /\ G!Last(paragraph) = word
    <3>1. paragraph = before \o <<word>>
      BY <1>4, <2>6
    <3>2. Len(paragraph) = Len(before) + 1 /\ paragraph[Len(before) + 1] = word
          /\ \A i \in 1 .. Len(before) : paragraph[i] = before[i]
      BY <1>3, <2>6, <3>1
    <3>3. G!Last(paragraph) = word
      BY <3>2 DEF G!Last
    <3>4. G!Front(paragraph) = before
      <4>1. Len(before) \in Nat /\ before = [i \in 1 .. Len(before) |-> before[i]]
        BY <1>3
      <4>2. G!Front(paragraph) = [i \in 1 .. Len(before) |-> paragraph[i]]
        <5>1. Len(paragraph) - 1 = Len(before)
          BY <3>2, <4>1
        <5> QED  BY <5>1 DEF G!Front
      <4> QED  BY <3>2, <4>1, <4>2
    <3> QED  BY <3>3, <3>4
  <2>9. G!OnLines' = G!Front(paragraph') /\ G!Last(paragraph').size = 0
    BY <1>2, <2>1, <2>7, <2>8
  <2>10. formatting' = "done"
    BY <1>8
  <2> QED  BY <2>1, <2>9, <2>10 DEF ParagraphOK, G!Front, G!Last
<1>9. CASE Len(lines) = LineMemory /\ formatting' = "bad_alloc" /\ UNCHANGED lines
  <2>1. ~G!WordsFit
    <3>1. Len(paragraph) <= MaxWords /\ Len(before) <= Len(paragraph)
          /\ Len(before) \in Nat /\ Len(paragraph) \in Nat
      <4>1. Len(before) \in Nat /\ Len(wordDeque) = 0
        BY <1>2, <1>3
      <4> QED  BY <1>2, <1>3, <1>6, <1>7, <4>1 DEF LinesOK
    <3>2. LineMemory > MaxWords /\ MaxWords \in Nat /\ LineMemory \in Nat
      BY DEF TextSizes
    <3> QED  BY <1>2, <1>9, <3>1, <3>2
  <2>2. LinesOK'
    BY <1>2, <1>9, LinesUnchanged
  <2> QED  BY <1>5, <1>9, <2>1, <2>2 DEF ParagraphOK
<1>10. CASE /\ formatting' = "done"
            /\ lines' = Append(lines, [indent |-> 0, words |-> lineVector_])
  <2>1. 0 \in 0 .. indent
    BY <1>2 DEF LinesOK, TextSizes
  <2>2. IF lineVector_ = <<>> THEN TRUE
        ELSE G!Total(lineVector_) + Len(lineVector_) - 1 <= permittedLineLength
    BY <1>2 DEF FillingOK
  <2>3. LinesOK' /\ G!OnLines' = before \o lineVector_
    BY <1>1, <1>2, <1>3, <1>10, <2>1, <2>2, LinePushed
  <2>4. paragraph' = (G!OnLines' \o lineVector_') \o wordDeque'
    <3>1. (paragraph \o <<>>) \o <<>> = paragraph
      <4>1. paragraph \in Seq(G!Words)
        BY <1>2 DEF LinesOK
      <4>2. \A s \in Seq(G!Words) : s \o <<>> = s
        OBVIOUS
      <4> QED  BY <4>1, <4>2
    <3> QED  BY <1>2, <1>4, <2>3, <3>1
  <2> QED  BY <1>10, <2>3, <2>4 DEF ParagraphOK
<1> QED  BY <1>2, <1>8, <1>9, <1>10

LEMMA ParagraphSteps == TextSizes /\ ParagraphOK /\ [G!Next]_(G!vars) => ParagraphOK'
<1> SUFFICES ASSUME TextSizes, ParagraphOK, [G!Next]_(G!vars) PROVE ParagraphOK'
  OBVIOUS
<1>1. CASE G!Call
  BY <1>1, TextSplit
<1>2. CASE G!Break
  BY <1>2, LineBroken
<1>3. CASE G!AddWord
  BY <1>3, WordAdded
<1>4. CASE G!Finish
  BY <1>4, ParagraphEnds
<1>5. CASE UNCHANGED G!vars
  BY <1>5 DEF G!vars, ParagraphOK, LinesOK, FillingOK, G!OnLines, G!WordsFit, G!Length
<1> QED  BY <1>1, <1>2, <1>3, <1>4, <1>5 DEF G!Next

LEMMA ParagraphIsFormatted == ParagraphOK => TextFormatted
<1> SUFFICES ASSUME ParagraphOK PROVE TextFormatted
  OBVIOUS
<1>1. G!WordsFit => formatting # "bad_alloc"
  BY DEF ParagraphOK
<1>2. ASSUME formatting \in {"loop", "done"} PROVE LinesOK
  BY <1>2 DEF ParagraphOK
<1>3. ASSUME formatting \in {"loop", "done"}
      PROVE  \/ paragraph = (G!OnLines \o lineVector_) \o wordDeque
             \/ formatting = "done" /\ G!OnLines = G!Front(paragraph)
                /\ G!Last(paragraph).size = 0
  BY <1>3 DEF ParagraphOK, FillingOK
<1>4. G!TextKept
  BY <1>2, <1>3 DEF G!TextKept, LinesOK
<1> QED  BY <1>1, <1>4 DEF TextFormatted, G!TextFormatted

\* FormatParagraph keeps each word in its place on lines that are not too long,
\* for texts and widths of any size that the memory holds, though the length of
\* an empty line wraps; and it runs out of memory for no text whose words fit.
THEOREM ParagraphKeepsText ==
    ASSUME TextSizes
    PROVE  G!Spec => []TextFormatted
<1>1. G!Init => ParagraphOK
  BY ParagraphStarts
<1>2. ParagraphOK /\ [G!Next]_(G!vars) => ParagraphOK'
  BY ParagraphSteps
<1>3. ParagraphOK => TextFormatted
  BY ParagraphIsFormatted
<1> QED  BY <1>1, <1>2, <1>3, PTL DEF G!Spec
=============================================================================
