----------------------------- MODULE AtomicWrite -----------------------------
(***************************************************************************)
(* _atomic_json_write (policy_store.py), through which every process that  *)
(* changes a policy file replaces it: the text goes to a temporary file    *)
(* next to it, always of the same name, which is then renamed.  The lock   *)
(* around a write is one of threads: the web server and the cycle, two     *)
(* processes, do not wait for each other.                                  *)
(*                                                                         *)
(* A name refers to a file, and an open file is written whatever name it   *)
(* has by then.  The permissions themselves are left out; that setting     *)
(* them fails when the name is gone is not.                                *)
(***************************************************************************)
EXTENDS Integers

CONSTANTS
    Writers,        \* processes
    Texts,          \* the texts of policies
    MaxWrites,      \* bound: writes that are begun
    MaxWriteFaults  \* bound: processes that die

ASSUME AtomicAssumption ==
    /\ "cut" \notin Texts /\ "mixed" \notin Texts
    /\ MaxWrites \in Nat

VARIABLES
    contents,   \* per file that was created: its text
    tmpName,    \* the file that active.json.tmp names, NoName if none
    activeName, \* the file that active.json names
    writer,     \* per process: the write it is in
    overlapped, \* history: a write has begun while another was under way
    writesBegun, writeFaults

atomicVars == <<contents, tmpName, activeName, writer, overlapped, writesBegun, writeFaults>>

Numbers == 1..(MaxWrites + 1)
NoName == 0

AtomicInit ==
    /\ contents \in {[n \in Numbers |-> t] : t \in Texts}
    /\ tmpName = NoName /\ activeName = 1
    /\ writer = [w \in Writers |-> [pc |-> "idle", text |-> contents[1], handle |-> 1]]
    /\ overlapped = FALSE
    /\ writesBegun = 0 /\ writeFaults = 0

Writing == \E w \in Writers : writer[w].pc # "idle"

\* Mutant of OpenTmp: the file itself is opened and cut.
OpenActive(w, t) ==
    /\ writer[w].pc = "idle" /\ writesBegun < MaxWrites
    /\ writesBegun' = writesBegun + 1 /\ overlapped' = (overlapped \/ Writing)
    /\ contents' = [contents EXCEPT ![activeName] = "cut"]
    /\ tmpName' = activeName
    /\ writer' = [writer EXCEPT ![w] = [pc |-> "write", text |-> t, handle |-> activeName]]
    /\ UNCHANGED <<activeName, writeFaults>>

\* A temporary file that a dead process has left, or another one has just
\* opened, is opened again and cut.
OpenTmp(w, t) ==
    /\ writer[w].pc = "idle" /\ writesBegun < MaxWrites
    /\ writesBegun' = writesBegun + 1 /\ overlapped' = (overlapped \/ Writing)
    /\ tmpName' = IF tmpName = NoName THEN writesBegun + 2 ELSE tmpName
    /\ contents' = [contents EXCEPT ![tmpName'] = "cut"]
    /\ writer' = [writer EXCEPT ![w] = [pc |-> "write", text |-> t, handle |-> tmpName']]
    /\ UNCHANGED <<activeName, writeFaults>>

\* The text is written at once, from the beginning; over a text of another
\* length it may leave a mixture.
WriteText(w) ==
    LET file == writer[w].handle IN
    /\ writer[w].pc = "write"
    /\ \E text \in {writer[w].text} \cup (IF contents[file] = "cut" THEN {} ELSE {"mixed"}) :
          contents' = [contents EXCEPT ![file] = text]
    /\ writer' = [writer EXCEPT ![w].pc = "secure"]
    /\ UNCHANGED <<tmpName, activeName, overlapped, writesBegun, writeFaults>>

\* chmod of the temporary name; it raises if another process has renamed it.
SecureTmp(w) ==
    /\ writer[w].pc = "secure"
    /\ writer' = [writer EXCEPT ![w].pc = IF tmpName = NoName THEN "idle" ELSE "replace"]
    /\ UNCHANGED <<contents, tmpName, activeName, overlapped, writesBegun, writeFaults>>

\* os.replace, likewise.
ReplaceActive(w) ==
    /\ writer[w].pc = "replace"
    /\ writer' = [writer EXCEPT ![w].pc = "idle"]
    /\ activeName' = IF tmpName = NoName THEN activeName ELSE tmpName
    /\ tmpName' = NoName
    /\ UNCHANGED <<contents, overlapped, writesBegun, writeFaults>>

WriterDies(w) ==
    /\ writer[w].pc # "idle" /\ writeFaults < MaxWriteFaults
    /\ writeFaults' = writeFaults + 1
    /\ writer' = [writer EXCEPT ![w].pc = "idle"]
    /\ UNCHANGED <<contents, tmpName, activeName, overlapped, writesBegun>>

AtomicNext ==
    \E w \in Writers :
        \/ \E t \in Texts : OpenTmp(w, t)
        \/ WriteText(w) \/ SecureTmp(w) \/ ReplaceActive(w) \/ WriterDies(w)

AtomicSpec == AtomicInit /\ [][AtomicNext]_atomicVars

-----------------------------------------------------------------------------
AtomicTypeOK ==
    /\ contents \in [Numbers -> Texts \cup {"cut", "mixed"}]
    /\ tmpName \in Numbers \cup {NoName} /\ activeName \in Numbers
    /\ writer \in [Writers -> [pc : {"idle", "write", "secure", "replace"},
                               text : Texts, handle : Numbers]]
    /\ overlapped \in BOOLEAN
    /\ writesBegun \in 0..MaxWrites

\* "Persist Active atomically" (policy_store.py, save): whoever opens active.json,
\* at any moment, reads the whole text of one policy, whichever processes die in
\* their writes and leave their temporary file to the next one.  It takes two
\* writes at the same time, which nothing in the code excludes, to tear the file.
TornOnlyByOverlap == overlapped \/ contents[activeName] \in Texts
=============================================================================
