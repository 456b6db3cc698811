------------------------------- MODULE Paths -------------------------------
(***************************************************************************)
(* The functions of jive/path.cpp that ask or change the file system, used *)
(* by several threads or processes while others create and remove files.   *)
(* Each system call is a step.                                             *)
(***************************************************************************)
EXTENDS Naturals, PathNames

CONSTANTS
    Caller,
    SystemName,     \* the names callers use
    MaxSuffix,      \* bound on the suffixes MakeUniqueSystemName comes to
    MaxChanges      \* bound on what others do

VARIABLES
    files,      \* files[name]: what the name stands for
    errno,      \* errno[c]
    call,       \* call[c]: the function c is in, or what the last one told
    seen,       \* history: what each name stood for since c's call began
    changes     \* how much others have done

vars == <<files, errno, call, seen, changes>>

Name == {Candidate(s, i) : s \in SystemName, i \in 0 .. MaxSuffix}
Kind == {"absent", "file", "directory", "fifo"}

Init ==
    /\ files = [n \in Name |-> "absent"]
    /\ errno = [c \in Caller |-> "none"]
    /\ call = [c \in Caller |-> [pc |-> "idle", told |-> "nothing"]]
    /\ seen = [c \in Caller |-> [n \in Name |-> {}]]
    /\ changes = 0

\* Whatever changes the files, calls that are under way may notice it.
Becomes(n, kind) ==
    /\ files' = [files EXCEPT ![n] = kind]
    /\ seen' = [c \in Caller |->
            IF call[c].pc = "idle" THEN seen[c]
            ELSE [seen[c] EXCEPT ![n] = @ \cup {kind}]]

Starts(c, pc, n) ==
    /\ call[c].pc = "idle"
    /\ call' = [call EXCEPT ![c] = [pc |-> pc, name |-> n, suffix |-> 0]]
    /\ seen' = [seen EXCEPT ![c] = [m \in Name |-> {files[m]}]]
    /\ UNCHANGED <<files, errno, changes>>

\* The call returns or throws.
Tells(c, told) ==
    call' = [call EXCEPT ![c] = [pc |-> "idle", told |-> told, was |-> @]]

-----------------------------------------------------------------------------
(* MakeUniqueSystemName: Exists, with one suffix after the other. *)

Trying(c) == Candidate(call[c].name, call[c].suffix)

Exists(name) == files[name] # "absent"

CheckExists(c) ==
    /\ call[c].pc = "unique"
    /\ IF Exists(Trying(c))
       THEN /\ call[c].suffix < MaxSuffix
            /\ call' = [call EXCEPT ![c].suffix = @ + 1]
       ELSE Tells(c, "free")
    /\ UNCHANGED <<files, errno, seen, changes>>

-----------------------------------------------------------------------------
(* MakeDirectory *)

Mkdir(c) ==
    /\ call[c].pc = "mkdir"
    /\ IF ~Exists(call[c].name)
       THEN /\ Becomes(call[c].name, "directory")
            /\ Tells(c, "done")
            /\ UNCHANGED errno
       ELSE /\ errno' = [errno EXCEPT ![c] = "EEXIST"]
            /\ call' = [call EXCEPT ![c].pc = "exists"]
            /\ UNCHANGED <<files, seen>>
    /\ UNCHANGED changes

\* Any other error of mkdir.
MkdirFails(c) ==
    /\ call[c].pc = "mkdir"
    /\ errno' = [errno EXCEPT ![c] = "EACCES"]
    /\ Tells(c, "EACCES")
    /\ UNCHANGED <<files, seen, changes>>

\* Mutant of ExistingTold: an existing item is never an error.
IgnoreExisting(kind, error) == "done"
ExistingTold(kind, error) == IF kind = "directory" THEN "done" ELSE error

\* IsDirectory is a stat, which sets errno when it fails; what is thrown then
\* is whatever errno is by now.
IsDirectory(c) ==
    /\ call[c].pc = "exists"
    /\ LET kind == files[call[c].name] IN
       /\ errno' = [errno EXCEPT ![c] = IF Exists(call[c].name) THEN @ ELSE "ENOENT"]
       /\ Tells(c, ExistingTold(kind, errno'[c]))
    /\ UNCHANGED <<files, seen, changes>>

-----------------------------------------------------------------------------
(* One system call each. *)

MakeFifo(c) ==
    /\ call[c].pc = "mkfifo"
    /\ IF ~Exists(call[c].name)
       THEN Becomes(call[c].name, "fifo") /\ Tells(c, "done") /\ UNCHANGED errno
       ELSE /\ errno' = [errno EXCEPT ![c] = "EEXIST"]
            /\ Tells(c, "EEXIST")
            /\ UNCHANGED <<files, seen>>
    /\ UNCHANGED changes

\* IsFile, IsDirectory and IsFifo; GetCreationTime throws when stat fails.
Stat(c) ==
    /\ call[c].pc = "stat"
    /\ Tells(c, files[call[c].name])
    /\ UNCHANGED <<files, errno, seen, changes>>

-----------------------------------------------------------------------------
Others(n) ==
    /\ changes < MaxChanges
    /\ \E kind \in Kind \ {files[n]} : Becomes(n, kind)
    /\ changes' = changes + 1
    /\ UNCHANGED <<errno, call>>

Next ==
    \/ \E c \in Caller :
        \/ \E n \in SystemName, pc \in {"unique", "mkdir", "mkfifo", "stat"} :
            Starts(c, pc, n)
        \/ CheckExists(c)
        \/ Mkdir(c) \/ MkdirFails(c) \/ IsDirectory(c)
        \/ MakeFifo(c) \/ Stat(c)
    \/ \E n \in Name : Others(n)

Spec == Init /\ [][Next]_vars

-----------------------------------------------------------------------------
\* Whatever others do in the meantime, what a call tells was so at a moment of
\* the call.  The unique name was free, and each name with a smaller index was
\* taken; MakeDirectory returns only when there was a directory, and fails only
\* when there was something else, which its error names unless it had gone.
CallsTellTheTruth ==
    \A c \in Caller :
        call[c].pc = "idle" /\ call[c].told # "nothing" =>
            LET was == call[c].was
                told == call[c].told
                wasSeen(i) == seen[c][Candidate(was.name, i)]
            IN
            CASE was.pc = "unique" ->
                    /\ "absent" \in wasSeen(was.suffix)
                    /\ \A i \in 0 .. was.suffix - 1 : wasSeen(i) # {"absent"}
              [] was.pc \in {"mkdir", "exists"} ->
                    /\ told = "done" => "directory" \in wasSeen(0)
                    /\ told = "ENOENT" => {"absent"} # wasSeen(0)
                    /\ told = "EEXIST" => wasSeen(0) \cap {"file", "fifo"} # {}
              [] was.pc = "mkfifo" ->
                    IF told = "done" THEN {"absent", "fifo"} \subseteq wasSeen(0)
                    ELSE wasSeen(0) # {"absent"}
              [] OTHER -> told \in wasSeen(0)
=============================================================================
