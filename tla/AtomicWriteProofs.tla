-------------------------- MODULE AtomicWriteProofs --------------------------
(***************************************************************************)
(* A policy file is whole as long as no two writes overlap, for any number *)
(* of processes and writes and wherever the processes die: the file under  *)
(* the temporary name is never the one that is read, and what is renamed   *)
(* has just been written.                                                  *)
(***************************************************************************)
EXTENDS AtomicWrite, TLAPS

\* The names refer to different files, both of which exist.
NamesApart ==
    /\ tmpName # activeName
    /\ tmpName =< writesBegun + 1 /\ activeName =< writesBegun + 1

Alone ==
    \A v, w \in Writers : writer[v].pc # "idle" /\ writer[w].pc # "idle" => v = w

\* What the writer has open is the temporary file, which is cut before the write
\* and holds the writer's text after it.
OwnTmp(w) ==
    /\ writer[w].pc # "idle" => tmpName # NoName
    /\ writer[w].pc = "write" => writer[w].handle = tmpName /\ contents[tmpName] = "cut"
    /\ writer[w].pc \in {"secure", "replace"} => contents[tmpName] = writer[w].text

Orderly ==
    /\ contents[activeName] \in Texts
    /\ Alone
    /\ \A w \in Writers : OwnTmp(w)

AtomicIInv == AtomicTypeOK /\ NamesApart /\ (overlapped \/ Orderly)

-----------------------------------------------------------------------------
\* At first the active file is whole, there is no temporary one, and nobody writes.
LEMMA AtomicInitIInv == AtomicInit => AtomicIInv
<1> SUFFICES ASSUME AtomicInit PROVE AtomicIInv
  OBVIOUS
<1>1. PICK t \in Texts : contents = [n \in Numbers |-> t]
  BY DEF AtomicInit
<1>2. 1 \in Numbers
  BY AtomicAssumption DEF Numbers
<1>3. contents[1] \in Texts
  BY <1>1, <1>2
<1>4. AtomicTypeOK
  <2>1. overlapped \in BOOLEAN
    BY DEF AtomicInit
  <2>2. /\ contents \in [Numbers -> Texts \cup {"cut", "mixed"}]
        /\ tmpName = NoName /\ activeName \in Numbers /\ writesBegun = 0
    BY <1>1, <1>2 DEF AtomicInit
  <2>3. writer = [w \in Writers |-> [pc |-> "idle", text |-> contents[1], handle |-> 1]]
    BY DEF AtomicInit
  <2> QED
    BY <1>2, <1>3, <2>1, <2>2, <2>3, AtomicAssumption DEF AtomicTypeOK
<1>5. NamesApart /\ Orderly
  BY <1>3 DEF AtomicInit, NamesApart, Orderly, Alone, OwnTmp, NoName
<1> QED
  BY <1>4, <1>5 DEF AtomicIInv

\* Opening cuts the temporary file; whoever is in a write already now overlaps.
LEMMA OpenTmpIInv ==
    ASSUME AtomicIInv, NEW w \in Writers, NEW t \in Texts, OpenTmp(w, t)
    PROVE  AtomicIInv'
<1>1. tmpName' \in Numbers /\ tmpName' # activeName /\ tmpName' =< writesBegun' + 1
  BY AtomicAssumption DEF AtomicIInv, AtomicTypeOK, NamesApart, OpenTmp, Numbers, NoName
<1>2. writer' = [writer EXCEPT ![w] = [pc |-> "write", text |-> t, handle |-> tmpName']]
  BY DEF OpenTmp
<1>3. contents' = [contents EXCEPT ![tmpName'] = "cut"] /\ activeName' = activeName
  BY DEF OpenTmp
<1>4. writesBegun' = writesBegun + 1 /\ writesBegun' \in 0..MaxWrites
  BY AtomicAssumption DEF AtomicIInv, AtomicTypeOK, OpenTmp
<1>5. overlapped' = (overlapped \/ Writing)
  BY DEF OpenTmp
<1>6. AtomicTypeOK'
  <2>1. overlapped' \in BOOLEAN
    BY <1>5 DEF AtomicIInv, AtomicTypeOK
  <2> QED
    BY <1>1, <1>2, <1>3, <1>4, <2>1 DEF AtomicIInv, AtomicTypeOK
<1>7. NamesApart'
  BY <1>1, <1>3, <1>4, AtomicAssumption DEF AtomicIInv, AtomicTypeOK, NamesApart, Numbers
<1>8. ASSUME ~ overlapped' PROVE Orderly'
  <2>1. Orderly /\ \A v \in Writers : writer[v].pc = "idle"
    BY <1>5, <1>8 DEF AtomicIInv, Writing
  <2>2. (contents[activeName] \in Texts)'
    BY <1>1, <1>3, <2>1 DEF AtomicIInv, AtomicTypeOK, Orderly
  <2>3. \A v \in Writers : v # w => writer'[v].pc = "idle"
    BY <1>2, <2>1 DEF AtomicIInv, AtomicTypeOK
  <2>4. writer'[w] = [pc |-> "write", text |-> t, handle |-> tmpName']
    BY <1>2 DEF AtomicIInv, AtomicTypeOK
  <2>5. contents'[tmpName'] = "cut"
    BY <1>1, <1>3 DEF AtomicIInv, AtomicTypeOK
  <2>6. Alone'
    BY <2>3 DEF Alone
  <2>7. \A v \in Writers : OwnTmp(v)'
    BY <1>1, <2>3, <2>4, <2>5 DEF OwnTmp, Numbers, NoName
  <2> QED
    BY <2>2, <2>6, <2>7 DEF Orderly
<1> QED
  BY <1>6, <1>7, <1>8 DEF AtomicIInv

\* The text goes into the file that was opened, under whatever name it has by then.
LEMMA WriteTextIInv ==
    ASSUME AtomicIInv, NEW w \in Writers, WriteText(w)
    PROVE  AtomicIInv'
<1>1. PICK text \in {writer[w].text}
                    \cup (IF contents[writer[w].handle] = "cut" THEN {} ELSE {"mixed"}) :
          contents' = [contents EXCEPT ![writer[w].handle] = text]
  BY DEF WriteText
<1>2. writer' = [writer EXCEPT ![w].pc = "secure"]
  BY DEF WriteText
<1>3. UNCHANGED <<tmpName, activeName, overlapped, writesBegun>>
  BY DEF WriteText
<1>4. text \in Texts \cup {"mixed"}
  BY <1>1 DEF AtomicIInv, AtomicTypeOK
<1>5. AtomicTypeOK'
  BY <1>1, <1>2, <1>3, <1>4 DEF AtomicIInv, AtomicTypeOK
<1>6. NamesApart'
  BY <1>3 DEF AtomicIInv, NamesApart
<1>7. ASSUME ~ overlapped' PROVE Orderly'
  <2>1. Orderly
    BY <1>3, <1>7 DEF AtomicIInv
  <2>2. /\ writer[w].pc = "write" /\ writer[w].handle = tmpName
        /\ contents[tmpName] = "cut" /\ tmpName # NoName /\ tmpName # activeName
    BY <2>1 DEF WriteText, Orderly, OwnTmp, AtomicIInv, NamesApart
  <2>3. tmpName \in Numbers
    BY <2>2 DEF AtomicIInv, AtomicTypeOK
  <2>4. contents' = [contents EXCEPT ![tmpName] = writer[w].text]
    BY <1>1, <2>2
  <2>5. (contents[activeName] \in Texts)'
    BY <1>3, <2>1, <2>2, <2>4 DEF AtomicIInv, AtomicTypeOK, Orderly
  <2>6. \A v \in Writers : v # w => writer'[v].pc = "idle"
    BY <1>2, <2>1, <2>2 DEF Orderly, Alone, AtomicIInv, AtomicTypeOK
  <2>7. writer'[w].pc = "secure" /\ writer'[w].text = writer[w].text
    BY <1>2 DEF AtomicIInv, AtomicTypeOK
  <2>8. contents'[tmpName'] = writer'[w].text
    BY <1>3, <2>3, <2>4, <2>7 DEF AtomicIInv, AtomicTypeOK
  <2>9. Alone'
    BY <2>6 DEF Alone
  <2>10. \A v \in Writers : OwnTmp(v)'
    BY <1>3, <2>2, <2>6, <2>7, <2>8 DEF OwnTmp
  <2> QED
    BY <2>5, <2>9, <2>10 DEF Orderly
<1> QED
  BY <1>5, <1>6, <1>7 DEF AtomicIInv

\* The chmod changes nothing but where the process is.
LEMMA SecureTmpIInv ==
    ASSUME AtomicIInv, NEW w \in Writers, SecureTmp(w)
    PROVE  AtomicIInv'
<1>1. writer' = [writer EXCEPT ![w].pc = IF tmpName = NoName THEN "idle" ELSE "replace"]
  BY DEF SecureTmp
<1>2. UNCHANGED <<contents, tmpName, activeName, overlapped, writesBegun>>
  BY DEF SecureTmp
<1>3. AtomicTypeOK'
  BY <1>1, <1>2 DEF AtomicIInv, AtomicTypeOK
<1>4. NamesApart'
  BY <1>2 DEF AtomicIInv, NamesApart
<1>5. ASSUME ~ overlapped' PROVE Orderly'
  <2>1. Orderly
    BY <1>2, <1>5 DEF AtomicIInv
  <2>2. writer[w].pc = "secure" /\ tmpName # NoName /\ contents[tmpName] = writer[w].text
    BY <2>1 DEF SecureTmp, Orderly, OwnTmp
  <2>3. \A v \in Writers : v # w => writer'[v].pc = "idle"
    BY <1>1, <2>1, <2>2 DEF Orderly, Alone, AtomicIInv, AtomicTypeOK
  <2>4. writer'[w].pc = "replace" /\ writer'[w].text = writer[w].text
    BY <1>1, <2>2 DEF AtomicIInv, AtomicTypeOK
  <2>5. Alone'
    BY <2>3 DEF Alone
  <2>6. \A v \in Writers : OwnTmp(v)'
    BY <1>2, <2>2, <2>3, <2>4 DEF OwnTmp
  <2> QED
    BY <1>2, <2>1, <2>5, <2>6 DEF Orderly
<1> QED
  BY <1>3, <1>4, <1>5 DEF AtomicIInv

\* The rename gives the finished file the name of the active one.
LEMMA ReplaceActiveIInv ==
    ASSUME AtomicIInv, NEW w \in Writers, ReplaceActive(w)
    PROVE  AtomicIInv'
<1>1. activeName' = (IF tmpName = NoName THEN activeName ELSE tmpName) /\ tmpName' = NoName
  BY DEF ReplaceActive
<1>2. writer' = [writer EXCEPT ![w].pc = "idle"]
  BY DEF ReplaceActive
<1>3. UNCHANGED <<contents, overlapped, writesBegun>>
  BY DEF ReplaceActive
<1>4. AtomicTypeOK'
  BY <1>1, <1>2, <1>3 DEF AtomicIInv, AtomicTypeOK
<1>5. NamesApart'
  BY <1>1, <1>3 DEF AtomicIInv, AtomicTypeOK, NamesApart, NoName, Numbers
<1>6. ASSUME ~ overlapped' PROVE Orderly'
  <2>1. Orderly
    BY <1>3, <1>6 DEF AtomicIInv
  <2>2. writer[w].pc = "replace" /\ tmpName # NoName /\ contents[tmpName] = writer[w].text
    BY <2>1 DEF ReplaceActive, Orderly, OwnTmp
  <2>3. (contents[activeName] \in Texts)'
    BY <1>1, <1>3, <2>2 DEF AtomicIInv, AtomicTypeOK
  <2>4. \A v \in Writers : writer'[v].pc = "idle"
    BY <1>2, <2>1, <2>2 DEF Orderly, Alone, AtomicIInv, AtomicTypeOK
  <2> QED
    BY <2>3, <2>4 DEF Orderly, Alone, OwnTmp
<1> QED
  BY <1>4, <1>5, <1>6 DEF AtomicIInv

\* A process that dies leaves the temporary file as it is.
LEMMA WriterDiesIInv ==
    ASSUME AtomicIInv, NEW w \in Writers, WriterDies(w)
    PROVE  AtomicIInv'
<1>1. writer' = [writer EXCEPT ![w].pc = "idle"]
  BY DEF WriterDies
<1>2. UNCHANGED <<contents, tmpName, activeName, overlapped, writesBegun>>
  BY DEF WriterDies
<1>3. AtomicTypeOK'
  BY <1>1, <1>2 DEF AtomicIInv, AtomicTypeOK
<1>4. NamesApart'
  BY <1>2 DEF AtomicIInv, NamesApart
<1>5. ASSUME ~ overlapped' PROVE Orderly'
  <2>1. Orderly
    BY <1>2, <1>5 DEF AtomicIInv
  <2>2. \A v \in Writers : writer'[v].pc = "idle"
    BY <1>1, <2>1 DEF WriterDies, Orderly, Alone, AtomicIInv, AtomicTypeOK
  <2> QED
    BY <1>2, <2>1, <2>2 DEF Orderly, Alone, OwnTmp
<1> QED
  BY <1>3, <1>4, <1>5 DEF AtomicIInv

-----------------------------------------------------------------------------
\* The invariant, for any processes.
THEOREM AtomicInductive == AtomicSpec => []AtomicIInv
<1>1. AtomicIInv /\ [AtomicNext]_atomicVars => AtomicIInv'
  <2> SUFFICES ASSUME AtomicIInv, [AtomicNext]_atomicVars PROVE AtomicIInv'
    OBVIOUS
  <2>1. ASSUME NEW w \in Writers, NEW t \in Texts, OpenTmp(w, t) PROVE AtomicIInv'
    BY <2>1, OpenTmpIInv
  <2>2. ASSUME NEW w \in Writers, WriteText(w) PROVE AtomicIInv'
    BY <2>2, WriteTextIInv
  <2>3. ASSUME NEW w \in Writers, SecureTmp(w) PROVE AtomicIInv'
    BY <2>3, SecureTmpIInv
  <2>4. ASSUME NEW w \in Writers, ReplaceActive(w) PROVE AtomicIInv'
    BY <2>4, ReplaceActiveIInv
  <2>5. ASSUME NEW w \in Writers, WriterDies(w) PROVE AtomicIInv'
    BY <2>5, WriterDiesIInv
  <2>6. CASE UNCHANGED atomicVars
    BY <2>6 DEF AtomicIInv, AtomicTypeOK, NamesApart, Orderly, Alone, OwnTmp, atomicVars
  <2> QED
    BY <2>1, <2>2, <2>3, <2>4, <2>5, <2>6 DEF AtomicNext
<1> QED
  BY <1>1, AtomicInitIInv, PTL DEF AtomicSpec

\* Whoever opens active.json reads one policy, whatever dies, as long as no
\* two processes write at a time (policy_store.py, _atomic_json_write).
THEOREM WritesThatDoNotOverlap == AtomicSpec => []TornOnlyByOverlap
<1>1. AtomicIInv => TornOnlyByOverlap
  BY DEF AtomicIInv, Orderly, TornOnlyByOverlap
<1> QED
  BY <1>1, AtomicInductive, PTL

\* Types of the writers, the files they write and the names these have.
THEOREM AtomicTypes == AtomicSpec => []AtomicTypeOK
<1>1. AtomicIInv => AtomicTypeOK
  BY DEF AtomicIInv
<1> QED
  BY <1>1, AtomicInductive, PTL
=============================================================================
