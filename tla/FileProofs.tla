----------------------------- MODULE FileProofs -----------------------------
(***************************************************************************)
(* Proofs about what the program keeps in files over crashes and restarts. *)
(*                                                                         *)
(* RecallJournal, for any rotation size: the journal's files are one chain *)
(* but for the fresh starts after a rotation, what append has acknowledged *)
(* stays readable, and a refusal has a cause.  The inductive invariant     *)
(* adds what recovery and append rely on: files are consecutive, only the  *)
(* last piece can be incomplete and then it is in the current file, and    *)
(* nothing incomplete is acknowledged.                                     *)
(*                                                                         *)
(* CertKeys, for any submissions and number of keys: licences verify,      *)
(* packages carry the server's seal and completed submissions have a       *)
(* cause.  The inductive invariant says that a key once used for a licence *)
(* is the one on file, so that no other is drawn unless a start could not  *)
(* read it.                                                                *)
(*                                                                         *)
(* ChunkedRun, for any calls, number of spins and size of a chunk: a       *)
(* finished run has counted every spin once, and a cancelled one left a    *)
(* checkpoint to go on from.  The inductive invariants say of every call   *)
(* and of the checkpoint that what is counted is exactly what is done.     *)
(***************************************************************************)
EXTENDS RecallJournal, CertKeys, ChunkedRun, TLAPS

(***************************************************************************)
(* RecallJournal                                                           *)
(***************************************************************************)
USE JournalAssumption

-----------------------------------------------------------------------------

\* The pieces of a file are consecutive and the current file is the last.
FilesInOrder ==
  \A i \in 1 .. Len(disk) :
    /\ disk[i].file <= file
    /\ \A j \in 1 .. i : disk[j].file <= disk[i].file

\* Only the last piece can be incomplete.
LastIncomplete ==
  ~hurt =>
    \A i \in 1 .. Len(disk) :
      disk[i].part # "whole" => i = Len(disk) /\ disk[i].file = file /\ mode # "open"

\* Nothing incomplete is acknowledged.
AckedWhole == \A i \in acked : disk[i].part = "whole"

\* The inductive invariant.
JournalInv ==
  /\ JournalTypeOK
  /\ FilesInOrder
  /\ LastIncomplete
  /\ AckedWhole
  /\ FilesChain
  /\ RefusedForCause

\* The invariant implies that what is acknowledged is readable.
LEMMA ReadableFollows == JournalInv => AckedReadable
<1> SUFFICES ASSUME JournalInv, ~hurt, NEW i \in acked
             PROVE  disk[i].part = "whole" /\ (FirstOfFile(i) \/ disk[i - 1].part = "whole")
  BY DEF AckedReadable
<1>1. disk[i].part = "whole"
  BY DEF JournalInv, AckedWhole
<1>2. Len(disk) \in Nat /\ i \in 1 .. Len(disk)
  BY DEF JournalInv, JournalTypeOK
<1>3. i = 1 \/ (i - 1 \in 1 .. Len(disk) /\ i - 1 # Len(disk))
  BY <1>2
<1>4. CASE i = 1
  BY <1>1, <1>4 DEF FirstOfFile
<1>5. CASE i - 1 \in 1 .. Len(disk) /\ i - 1 # Len(disk)
  BY <1>1, <1>5 DEF JournalInv, LastIncomplete
<1> QED
  BY <1>3, <1>4, <1>5

\* If the current file has a piece, it has the last piece written.
LEMMA CurrentHasLast ==
  ASSUME JournalTypeOK, FilesInOrder, Current # {}
  PROVE  Len(disk) \in 1 .. Len(disk) /\ disk[Len(disk)].file = file
<1>1. PICK i \in 1 .. Len(disk) : disk[i].file = file
  BY DEF Current
<1>2. Len(disk) \in Nat /\ Len(disk) \in 1 .. Len(disk) /\ i \in 1 .. Len(disk)
  BY <1>1 DEF JournalTypeOK
<1>3. disk[i].file <= disk[Len(disk)].file /\ disk[Len(disk)].file <= file
  BY <1>2 DEF FilesInOrder
<1>4. disk[Len(disk)] \in Piece
  BY <1>2 DEF JournalTypeOK
<1>5. disk[Len(disk)].file \in Nat /\ file \in Nat
  BY <1>4 DEF JournalTypeOK, Piece
<1> QED
  BY <1>1, <1>2, <1>3, <1>5

\* What a write leaves: the pieces there were, and one more.
LEMMA Written ==
  ASSUME JournalTypeOK, NEW part \in Parts, Write(part)
  PROVE  /\ mode = "open"
         /\ Len(disk) \in Nat /\ Len(disk') = Len(disk) + 1
         /\ disk' \in Seq(Piece) /\ anew' = anew
         /\ \A i \in 1 .. Len(disk) : disk'[i] = disk[i] /\ disk[i] \in Piece
         /\ disk'[Len(disk) + 1].seq = nextSeq
         /\ disk'[Len(disk) + 1].prev = head
         /\ disk'[Len(disk) + 1].part = part
         /\ disk'[Len(disk) + 1].file = file
<1> DEFINE e == [seq |-> nextSeq, prev |-> head, part |-> part, file |-> file]
<1>1. mode = "open" /\ anew' = anew /\ disk' = Append(disk, e)
  BY DEF Write, Parts
<1>2. head \in Nat /\ Len(disk) \in Nat
  BY DEF JournalTypeOK
<1>3. e \in Piece /\ e.seq = nextSeq /\ e.prev = head /\ e.part = part /\ e.file = file
  BY <1>2 DEF Piece, JournalTypeOK
<1> HIDE DEF e
<1>4. disk \in Seq(Piece)
  BY DEF JournalTypeOK
<1>5. /\ Len(disk') = Len(disk) + 1 /\ disk' \in Seq(Piece)
      /\ disk'[Len(disk) + 1] = e
      /\ \A i \in 1 .. Len(disk) : disk'[i] = disk[i] /\ disk[i] \in Piece
  BY <1>1, <1>3, <1>4
<1> QED
  BY <1>1, <1>2, <1>3, <1>5

\* A write, rotated away or not, keeps the files in order.
LEMMA WriteKeepsOrder ==
  ASSUME JournalTypeOK, FilesInOrder, NEW part \in Parts, Write(part), file' \in {file, file + 1}
  PROVE  FilesInOrder'
<1> DEFINE n == Len(disk)
<1>1. /\ n \in Nat /\ Len(disk') = n + 1
      /\ \A i \in 1 .. n : disk'[i] = disk[i] /\ disk[i] \in Piece
      /\ disk'[n + 1].file = file
  BY Written
<1>2. file \in Nat /\ file <= file'
  BY DEF JournalTypeOK
<1>3. \A i \in 1 .. n : disk[i].file \in Nat
  BY <1>1 DEF Piece
<1>4. \A i \in 1 .. n : disk[i].file <= file /\ \A j \in 1 .. i : disk[j].file <= disk[i].file
  BY DEF FilesInOrder
<1> HIDE DEF n
<1>5. ASSUME NEW i \in 1 .. n + 1
      PROVE  disk'[i].file <= file' /\ \A j \in 1 .. i : disk'[j].file <= disk'[i].file
  <2>1. CASE i \in 1 .. n
    <3>1. \A j \in 1 .. i : j \in 1 .. n
      BY <1>1, <2>1
    <3>2. disk'[i].file = disk[i].file /\ \A j \in 1 .. i : disk'[j].file = disk[j].file
      BY <1>1, <2>1, <3>1
    <3>3. disk[i].file <= file'
      BY <1>2, <1>3, <1>4, <2>1
    <3> QED
      BY <1>4, <2>1, <3>2, <3>3
  <2>2. CASE i = n + 1
    <3>1. ASSUME NEW j \in 1 .. i PROVE disk'[j].file <= disk'[i].file
      <4>1. CASE j \in 1 .. n
        BY <1>1, <1>4, <2>2, <4>1
      <4>2. CASE j = n + 1
        BY <1>1, <1>2, <2>2, <4>2
      <4> QED
        BY <1>1, <2>2, <4>1, <4>2
    <3> QED
      BY <1>1, <1>2, <2>2, <3>1
  <2> QED
    BY <1>1, <2>1, <2>2
<1> QED
  BY <1>1, <1>5 DEF FilesInOrder

\* The chain's condition on piece i.
Linked(i) ==
  \/ disk[i].prev = i - 1 /\ disk[i].seq = (IF i = 1 THEN 0 ELSE disk[i - 1].seq + 1)
  \/ i - 1 \in anew /\ FirstOfFile(i) /\ disk[i].prev = 0 /\ disk[i].seq = 0

\* A write by an open, unhurt journal continues the chain.
LEMMA WriteKeepsLinks ==
  ASSUME JournalTypeOK, FilesChain, ~hurt, NEW part \in Parts, Write(part)
  PROVE  \A i \in 1 .. Len(disk') : Linked(i)'
<1>0. PICK n \in Nat : n = Len(disk)
  BY DEF JournalTypeOK
<1>1. /\ mode = "open" /\ Len(disk') = n + 1 /\ anew' = anew
      /\ \A i \in 1 .. n : disk'[i] = disk[i]
      /\ disk'[n + 1].seq = nextSeq /\ disk'[n + 1].prev = head /\ disk'[n + 1].file = file
  BY <1>0, Written
<1>2. \A i \in 1 .. n : Linked(i)
  BY <1>0 DEF FilesChain, Linked
<1>3. \/ head = n /\ nextSeq = (IF head = 0 THEN 0 ELSE disk[head].seq + 1)
      \/ n \in anew /\ Current = {} /\ head = 0 /\ nextSeq = 0
  BY <1>0, <1>1 DEF FilesChain
<1>4. ASSUME NEW i \in 1 .. n PROVE Linked(i)'
  <2>1. disk'[i] = disk[i] /\ (i # 1 => disk'[i - 1] = disk[i - 1])
    BY <1>1
  <2>2. FirstOfFile(i) => FirstOfFile(i)'
    BY <2>1 DEF FirstOfFile
  <2> QED
    BY <1>1, <1>2, <2>1, <2>2 DEF Linked
<1>5. Linked(n + 1)'
  <2>1. CASE head = n /\ nextSeq = (IF head = 0 THEN 0 ELSE disk[head].seq + 1)
    <3>1. n # 0 => disk'[n] = disk[n]
      BY <1>1
    <3>2. disk'[n + 1].prev = (n + 1) - 1
      BY <1>1, <2>1
    <3>3. disk'[n + 1].seq = (IF n + 1 = 1 THEN 0 ELSE disk'[(n + 1) - 1].seq + 1)
      BY <1>1, <2>1, <3>1
    <3> QED
      BY <3>2, <3>3 DEF Linked
  <2>2. CASE n \in anew /\ Current = {} /\ head = 0 /\ nextSeq = 0
    <3>1. n + 1 = 1 \/ disk'[(n + 1) - 1].file # disk'[n + 1].file
      <4>1. CASE n = 0
        BY <4>1
      <4>2. CASE n # 0
        <5>1. n \in 1 .. n /\ disk'[n] = disk[n] /\ (n + 1) - 1 = n
          BY <1>1, <4>2
        <5>2. disk[n].file # file
          BY <1>0, <2>2, <5>1 DEF Current
        <5> QED
          BY <1>1, <5>1, <5>2
      <4> QED
        BY <4>1, <4>2
    <3>2. FirstOfFile(n + 1)'
      BY <3>1 DEF FirstOfFile
    <3> QED
      BY <1>1, <2>2, <3>2 DEF Linked
  <2> QED
    BY <1>3, <2>1, <2>2
<1>6. \A i \in 1 .. n + 1 : i \in 1 .. n \/ i = n + 1
  BY <1>1
<1> QED
  BY <1>1, <1>4, <1>5, <1>6

\* FilesChain in terms of Linked, in the next state.
LEMMA ChainNext ==
  ASSUME ~hurt' => \A i \in 1 .. Len(disk') : Linked(i)',
         ~hurt' /\ mode' = "open" =>
           \/ head' = Len(disk') /\ nextSeq' = (IF head' = 0 THEN 0 ELSE disk'[head'].seq + 1)
           \/ Len(disk') \in anew' /\ Current' = {} /\ head' = 0 /\ nextSeq' = 0
  PROVE  FilesChain'
BY DEF FilesChain, Linked

-----------------------------------------------------------------------------

\* A write into the file keeps the types of the disk, whichever part it leaves.
LEMMA WriteKeepsParts ==
  ASSUME JournalInv, NEW part \in Parts, Write(part), file' \in {file, file + 1},
         hurt' \in BOOLEAN, ~hurt' => ~hurt,
         ~hurt' /\ part # "whole" => file' = file /\ mode' # "open",
         acked' = acked \/ (acked' = acked \cup {Len(disk) + 1} /\ part = "whole")
  PROVE  /\ disk' \in Seq(Piece) /\ file' \in Nat
         /\ acked' \subseteq 1 .. Len(disk') /\ anew' \subseteq 0 .. Len(disk')
         /\ FilesInOrder' /\ LastIncomplete' /\ AckedWhole'
<1>0. PICK n \in Nat : n = Len(disk)
  BY DEF JournalInv, JournalTypeOK
<1>1. /\ JournalTypeOK /\ FilesInOrder
      /\ Len(disk') = n + 1 /\ disk' \in Seq(Piece) /\ mode = "open" /\ anew' = anew
      /\ \A i \in 1 .. n : disk'[i] = disk[i]
      /\ disk'[n + 1].part = part /\ disk'[n + 1].file = file
  BY <1>0, Written DEF JournalInv
<1>2. acked \subseteq 1 .. n /\ file \in Nat /\ anew \subseteq 0 .. n
  BY <1>0, <1>1 DEF JournalTypeOK
<1>3. acked' \subseteq 1 .. n + 1 /\ file' \in Nat /\ anew' \subseteq 0 .. n + 1
  <2>1. acked' = acked \/ acked' = acked \cup {n + 1}
    BY <1>0
  <2>2. acked \subseteq 1 .. n + 1 /\ n + 1 \in 1 .. n + 1
    BY <1>2
  <2>3. file' \in Nat /\ anew' \subseteq 0 .. n + 1
    BY <1>0, <1>1, <1>2
  <2> QED
    BY <2>1, <2>2, <2>3
<1>4. FilesInOrder'
  BY <1>1, WriteKeepsOrder
<1>5. LastIncomplete'
  <2>1. ASSUME ~hurt', NEW i \in 1 .. n + 1, disk'[i].part # "whole"
        PROVE  i = n + 1 /\ disk'[i].file = file' /\ mode' # "open"
    <3>1. CASE i = n + 1
      BY <1>1, <2>1, <3>1
    <3>2. CASE i \in 1 .. n
      <4>1. disk[i].part # "whole" /\ ~hurt
        BY <1>1, <2>1, <3>2
      <4>2. mode # "open"
        BY <1>0, <3>2, <4>1 DEF JournalInv, LastIncomplete
      <4> QED
        BY <1>1, <4>2
    <3> QED
      BY <3>1, <3>2
  <2> QED
    BY <1>1, <2>1 DEF LastIncomplete
<1>6. AckedWhole'
  <2>1. ASSUME NEW i \in acked' PROVE disk'[i].part = "whole"
    <3>1. CASE i \in acked
      <4>1. i \in 1 .. n /\ disk[i].part = "whole"
        BY <1>2, <3>1 DEF JournalInv, AckedWhole
      <4> QED
        BY <1>1, <4>1
    <3>2. CASE i = n + 1 /\ part = "whole"
      BY <1>1, <3>2
    <3> QED
      BY <1>0, <2>1, <3>1, <3>2
  <2> QED
    BY <2>1 DEF AckedWhole
<1> QED
  BY <1>1, <1>3, <1>4, <1>5, <1>6

\* An append that writes the whole line and moves the counters.
LEMMA WholeAppended ==
  ASSUME JournalInv, Write("whole"), Advance, file' \in {file, file + 1},
         UNCHANGED <<mode, hurt>>,
         acked' = acked \/ acked' = acked \cup {Len(disk) + 1}
  PROVE  JournalInv'
<1>0. PICK n \in Nat : n = Len(disk)
  BY DEF JournalInv, JournalTypeOK
<1>1. JournalTypeOK /\ FilesChain /\ "whole" \in Parts
  BY DEF JournalInv, Parts
<1>2. /\ Len(disk') = n + 1 /\ mode = "open"
      /\ disk'[n + 1].seq = nextSeq
  BY <1>0, <1>1, Written
<1>3. /\ disk' \in Seq(Piece) /\ file' \in Nat
      /\ acked' \subseteq 1 .. Len(disk') /\ anew' \subseteq 0 .. Len(disk')
      /\ FilesInOrder' /\ LastIncomplete' /\ AckedWhole'
  <2>1. hurt' \in BOOLEAN /\ (~hurt' => ~hurt)
    BY <1>1 DEF JournalTypeOK
  <2> QED
    BY <1>1, <2>1, WriteKeepsParts
<1>4. head' = n + 1 /\ nextSeq' = nextSeq + 1 /\ nextSeq \in Nat
  BY <1>0, <1>1 DEF Advance, JournalTypeOK
<1>5. JournalTypeOK'
  <2>1. head' \in 0 .. Len(disk') /\ nextSeq' \in Nat
    BY <1>2, <1>4
  <2> QED
    BY <1>1, <1>3, <2>1 DEF JournalTypeOK
<1>6. FilesChain'
  <2>1. ~hurt' => \A i \in 1 .. Len(disk') : Linked(i)'
    BY <1>1, WriteKeepsLinks
  <2>2. head' = Len(disk') /\ nextSeq' = (IF head' = 0 THEN 0 ELSE disk'[head'].seq + 1)
    BY <1>2, <1>4
  <2> QED
    BY <2>1, <2>2, ChainNext
<1>7. RefusedForCause'
  BY <1>2 DEF RefusedForCause
<1> QED
  BY <1>3, <1>5, <1>6, <1>7 DEF JournalInv

\* A step that leaves the disk alone and does not open or refuse.
LEMMA DiskUnchanged ==
  ASSUME JournalInv, UNCHANGED <<disk, file, anew, acked, hurt>>,
         \/ UNCHANGED <<mode, head, nextSeq>>
         \/ mode' = "closed" /\ head' = 0 /\ nextSeq' = 0
  PROVE  JournalInv'
<1>1. JournalTypeOK'
  BY DEF JournalInv, JournalTypeOK
<1>2. FilesInOrder' /\ AckedWhole'
  BY DEF JournalInv, FilesInOrder, AckedWhole
<1>3. LastIncomplete'
  BY DEF JournalInv, LastIncomplete
<1>4. FilesChain' /\ RefusedForCause'
  BY DEF JournalInv, FilesChain, RefusedForCause, Current, FirstOfFile
<1> QED
  BY <1>1, <1>2, <1>3, <1>4 DEF JournalInv

\* Opening: the counters stand at the end of the file, if there is one.
LEMMA OpenStep == ASSUME JournalInv, Open PROVE JournalInv'
<1>1. /\ JournalTypeOK /\ FilesInOrder /\ mode' = "open" /\ UNCHANGED <<disk, file, acked>>
      /\ Current' = Current
      /\ hurt' = (hurt \/ \E i \in Current : disk[i].part = "unended")
      /\ Parses
  BY DEF JournalInv, Open, Current, Recovers
<1>2. hurt' \in BOOLEAN /\ (~hurt' => ~hurt)
  BY <1>1 DEF JournalTypeOK
<1>3. CASE Current = {}
  <2>1. head' = 0 /\ nextSeq' = 0 /\ anew' = anew \cup {Len(disk)}
    BY <1>3 DEF Open
  <2>2. JournalTypeOK'
    <3>1. PICK n \in Nat : n = Len(disk)
      BY <1>1 DEF JournalTypeOK
    <3>2. anew \subseteq 0 .. n /\ n \in 0 .. n
      BY <1>1, <3>1 DEF JournalTypeOK
    <3>3. anew' \subseteq 0 .. Len(disk)
      BY <2>1, <3>1, <3>2
    <3> QED
      BY <1>1, <1>2, <2>1, <3>3 DEF JournalTypeOK
  <2>3. FilesChain'
    BY <1>1, <1>2, <1>3, <2>1 DEF JournalInv, FilesChain, FirstOfFile
  <2>4. LastIncomplete'
    <3>1. ASSUME ~hurt, NEW i \in 1 .. Len(disk), disk[i].part # "whole" PROVE FALSE
      <4>1. disk[i].file = file
        BY <3>1 DEF JournalInv, LastIncomplete
      <4> QED
        BY <1>3, <4>1 DEF Current
    <3> QED
      BY <1>1, <1>2, <3>1 DEF LastIncomplete
  <2>5. FilesInOrder' /\ AckedWhole' /\ RefusedForCause'
    BY <1>1 DEF JournalInv, FilesInOrder, AckedWhole, RefusedForCause
  <2> QED
    BY <2>2, <2>3, <2>4, <2>5 DEF JournalInv
<1>4. CASE Current # {}
  <2>0. PICK n \in Nat : n = Len(disk)
    BY <1>1 DEF JournalTypeOK
  <2>1. n \in 1 .. n /\ disk[n].file = file
    BY <1>1, <1>4, <2>0, CurrentHasLast
  <2>2. head' = n /\ nextSeq' = disk[n].seq + 1 /\ anew' = anew
    BY <1>4, <2>0 DEF Open
  <2>3. disk[n] \in Piece
    BY <1>1, <2>0, <2>1 DEF JournalTypeOK
  <2>4. disk[n].seq \in Nat
    BY <2>3 DEF Piece
  <2>5. JournalTypeOK'
    <3>1. head' \in 0 .. n /\ nextSeq' \in Nat
      BY <2>1, <2>2, <2>4
    <3> QED
      BY <1>1, <1>2, <2>0, <2>2, <3>1 DEF JournalTypeOK
  <2>6. FilesChain'
    <3>1. ~hurt' => \A i \in 1 .. Len(disk') : Linked(i)'
      BY <1>1, <1>2, <2>2 DEF JournalInv, FilesChain, Linked, FirstOfFile
    <3>2. head' = Len(disk') /\ nextSeq' = (IF head' = 0 THEN 0 ELSE disk'[head'].seq + 1)
      BY <1>1, <2>0, <2>1, <2>2
    <3> QED
      BY <3>1, <3>2, ChainNext
  <2>7. LastIncomplete'
    <3>1. ASSUME ~hurt', NEW i \in 1 .. n, disk[i].part # "whole" PROVE FALSE
      <4>1. disk[i].file = file
        BY <1>2, <2>0, <3>1 DEF JournalInv, LastIncomplete
      <4>2. i \in Current
        BY <2>0, <3>1, <4>1 DEF Current
      <4>3. disk[i].part = "unended"
        BY <1>1, <3>1, <4>2 DEF Parses
      <4> QED
        BY <1>1, <3>1, <4>2, <4>3
    <3> QED
      BY <1>1, <2>0, <3>1 DEF LastIncomplete
  <2>8. FilesInOrder' /\ AckedWhole' /\ RefusedForCause'
    BY <1>1 DEF JournalInv, FilesInOrder, AckedWhole, RefusedForCause
  <2> QED
    BY <2>5, <2>6, <2>7, <2>8 DEF JournalInv
<1> QED
  BY <1>3, <1>4

\* A file that is chained, whole but for its last line's newline and starts from
\* ZERO_HASH is recovered: a refusal has one of the causes.
LEMMA RefuseStep == ASSUME JournalInv, Refuse PROVE JournalInv'
<1>1. mode' = "refused" /\ ~Recovers /\ UNCHANGED <<disk, file, head, nextSeq, anew, acked, hurt>>
  BY DEF Refuse
<1>2. RefusedForCause'
  <2>1. SUFFICES ASSUME ~hurt,
                        \A i \in Current : disk[i].part # "torn" /\ (FirstOfFile(i) => disk[i].prev = 0)
                 PROVE  FALSE
    BY <1>1 DEF RefusedForCause, Current, FirstOfFile
  <2>2. ASSUME NEW i \in Current
        PROVE  disk[i].part = "whole" \/ (disk[i].part = "unended" /\ i = Len(disk))
    <3>1. i \in 1 .. Len(disk) /\ disk[i] \in Piece
      BY <2>2 DEF Current, JournalInv, JournalTypeOK
    <3>2. disk[i].part \in {"torn", "unended", "whole"}
      BY <3>1 DEF Piece, Parts
    <3>3. disk[i].part # "whole" => i = Len(disk)
      BY <2>1, <3>1 DEF JournalInv, LastIncomplete
    <3> QED
      BY <2>1, <3>2, <3>3
  <2>3. ASSUME NEW i \in Current
        PROVE  /\ disk[i].prev = IF FirstOfFile(i) THEN 0 ELSE i - 1
               /\ disk[i].seq = IF FirstOfFile(i) THEN 0 ELSE disk[i - 1].seq + 1
    <3>1. i \in 1 .. Len(disk) /\ Len(disk) \in Nat
      BY <2>3 DEF Current, JournalInv, JournalTypeOK
    <3>2. Linked(i)
      BY <2>1, <3>1 DEF JournalInv, FilesChain, Linked
    <3>3. CASE FirstOfFile(i)
      <4>1. disk[i].prev = 0
        BY <2>1, <2>3, <3>3
      <4>2. disk[i].seq = 0
        BY <3>1, <3>2, <4>1 DEF Linked
      <4> QED
        BY <3>3, <4>1, <4>2
    <3>4. CASE ~FirstOfFile(i)
      <4>1. i # 1
        BY <3>4 DEF FirstOfFile
      <4> QED
        BY <3>1, <3>2, <3>4, <4>1 DEF Linked
    <3> QED
      BY <3>3, <3>4
  <2> QED
    BY <1>1, <2>2, <2>3 DEF Recovers, Parses
<1>3. JournalTypeOK' /\ FilesInOrder' /\ LastIncomplete' /\ AckedWhole'
  BY <1>1 DEF JournalInv, JournalTypeOK, FilesInOrder, LastIncomplete, AckedWhole
<1>4. FilesChain'
  BY <1>1 DEF JournalInv, FilesChain, FirstOfFile
<1> QED
  BY <1>2, <1>3, <1>4 DEF JournalInv

\* A write that fails half-way, the process living on.
LEMMA WriteThrowsStep == ASSUME JournalInv, WriteThrows PROVE JournalInv'
<1>1. PICK part \in Parts \cup {"nothing"} :
        /\ Write(part) /\ hurt' = (hurt \/ part # "nothing")
        /\ UNCHANGED <<file, mode, head, nextSeq, acked>>
  BY DEF WriteThrows
<1>2. CASE part = "nothing"
  <2>1. UNCHANGED <<disk, file, anew, acked, hurt, mode, head, nextSeq>>
    BY <1>1, <1>2 DEF Write, JournalInv, JournalTypeOK
  <2> QED
    BY <2>1, DiskUnchanged
<1>3. CASE part # "nothing"
  <2>1. part \in Parts /\ hurt'
    BY <1>1, <1>3
  <2>0. PICK n \in Nat : n = Len(disk)
    BY DEF JournalInv, JournalTypeOK
  <2>2. Len(disk') = n + 1
    BY <1>1, <2>0, <2>1, Written DEF JournalInv
  <2>3. /\ disk' \in Seq(Piece) /\ file' \in Nat
        /\ acked' \subseteq 1 .. Len(disk') /\ anew' \subseteq 0 .. Len(disk')
        /\ FilesInOrder' /\ LastIncomplete' /\ AckedWhole'
    <3>1. hurt' \in BOOLEAN
      BY <1>1 DEF JournalInv, JournalTypeOK
    <3> QED
      BY <1>1, <2>1, <3>1, WriteKeepsParts
  <2>4. JournalTypeOK'
    <3>1. head' \in 0 .. n + 1 /\ nextSeq' \in Nat /\ mode' = mode /\ hurt' \in BOOLEAN
      BY <1>1, <2>0 DEF JournalInv, JournalTypeOK
    <3> QED
      BY <2>2, <2>3, <3>1 DEF JournalInv, JournalTypeOK
  <2>5. FilesChain' /\ RefusedForCause'
    BY <2>1 DEF FilesChain, RefusedForCause
  <2> QED
    BY <2>3, <2>4, <2>5 DEF JournalInv
<1> QED
  BY <1>2, <1>3

\* A crash, maybe inside an append.
LEMMA CrashStep == ASSUME JournalInv, JournalCrash PROVE JournalInv'
<1>1. PICK part \in Parts \cup {"nothing"} :
        /\ Write(part)
        /\ IF part = "whole" THEN MaybeRotate ELSE UNCHANGED file
        /\ mode' = "closed" /\ head' = 0 /\ nextSeq' = 0
        /\ UNCHANGED <<acked, hurt>>
  BY DEF JournalCrash
<1>2. CASE part = "nothing"
  <2>1. UNCHANGED <<disk, file, anew>>
    BY <1>1, <1>2 DEF Write
  <2> QED
    BY <1>1, <2>1, DiskUnchanged
<1>3. CASE part # "nothing"
  <2>1. part \in Parts /\ file' \in {file, file + 1} /\ (part # "whole" => file' = file)
    BY <1>1, <1>3 DEF MaybeRotate
  <2>2. /\ disk' \in Seq(Piece) /\ file' \in Nat
        /\ acked' \subseteq 1 .. Len(disk') /\ anew' \subseteq 0 .. Len(disk')
        /\ FilesInOrder' /\ LastIncomplete' /\ AckedWhole'
    <3>1. hurt' \in BOOLEAN /\ (~hurt' => ~hurt)
      BY <1>1 DEF JournalInv, JournalTypeOK
    <3> QED
      BY <1>1, <2>1, <3>1, WriteKeepsParts
  <2>3. JournalTypeOK'
    <3>1. Len(disk') \in Nat
      BY <2>2
    <3> QED
      BY <1>1, <2>2, <3>1 DEF JournalInv, JournalTypeOK
  <2>4. FilesChain'
    <3>1. ~hurt' => \A i \in 1 .. Len(disk') : Linked(i)'
      BY <1>1, <2>1, WriteKeepsLinks DEF JournalInv
    <3> QED
      BY <1>1, <3>1, ChainNext
  <2>5. RefusedForCause'
    BY <1>1 DEF RefusedForCause
  <2> QED
    BY <2>2, <2>3, <2>4, <2>5 DEF JournalInv
<1> QED
  BY <1>2, <1>3

\* The invariant is inductive.
LEMMA InvStep == JournalInv /\ [JournalNext]_journalVars => JournalInv'
<1> SUFFICES ASSUME JournalInv, [JournalNext]_journalVars PROVE JournalInv'
  OBVIOUS
<1>1. ASSUME AppendEntry PROVE JournalInv'
  BY <1>1, WholeAppended DEF AppendEntry, MaybeRotate
<1>2. ASSUME RenameThrows PROVE JournalInv'
  BY <1>2, WholeAppended DEF RenameThrows
<1>3. ASSUME UNCHANGED journalVars PROVE JournalInv'
  BY <1>3, DiskUnchanged DEF journalVars
<1> QED
  BY <1>1, <1>2, <1>3, OpenStep, RefuseStep, WriteThrowsStep, CrashStep DEF JournalNext

\* It holds at first.
LEMMA InvInit == JournalInit => JournalInv
<1> SUFFICES ASSUME JournalInit PROVE JournalInv
  OBVIOUS
<1>1. disk = <<>> /\ Len(disk) = 0 /\ 1 .. Len(disk) = {}
  BY DEF JournalInit
<1>2. JournalTypeOK
  <2>1. /\ disk \in Seq(Piece) /\ head \in 0 .. Len(disk)
        /\ acked \subseteq 1 .. Len(disk) /\ anew \subseteq 0 .. Len(disk)
    BY <1>1 DEF JournalInit
  <2> QED
    BY <2>1 DEF JournalInit, JournalTypeOK
<1>3. FilesInOrder /\ LastIncomplete /\ AckedWhole /\ FilesChain /\ RefusedForCause
  BY <1>1 DEF JournalInit, FilesInOrder, LastIncomplete, AckedWhole, FilesChain, RefusedForCause
<1> QED
  BY <1>2, <1>3 DEF JournalInv

\* The journal's types hold, and its head was written.
THEOREM JournalTypeCorrect == JournalSpec => []JournalTypeOK
<1>1. JournalInv => JournalTypeOK
  BY DEF JournalInv
<1> QED
  BY <1>1, InvInit, InvStep, PTL DEF JournalSpec

\* Over any number of crashes, recoveries and rotations the files are one chain,
\* but for processes that were started where a rotation had just left no file.
THEOREM ChainHolds == JournalSpec => []FilesChain
<1>1. JournalInv => FilesChain
  BY DEF JournalInv
<1> QED
  BY <1>1, InvInit, InvStep, PTL DEF JournalSpec

\* What append has acknowledged stays readable unless a write failed under a
\* living process or an unended line was taken for whole.
THEOREM AckedStayReadable == JournalSpec => []AckedReadable
BY ReadableFollows, InvInit, InvStep, PTL DEF JournalSpec

\* An unhurt journal is refused only for a torn line or a rotated beginning.
THEOREM RefusalsExplained == JournalSpec => []RefusedForCause
<1>1. JournalInv => RefusedForCause
  BY DEF JournalInv
<1> QED
  BY <1>1, InvInit, InvStep, PTL DEF JournalSpec

HIDE JournalAssumption

(***************************************************************************)
(* CertKeys                                                                *)
(***************************************************************************)
USE CertAssumption

-----------------------------------------------------------------------------

Submission == [status: {"par_generated", "completed", "rejected"},
               pdf: Key \cup {NoKey}, downloadable: BOOLEAN, rendering: BOOLEAN,
               early: BOOLEAN]

\* A server that is ready holds the key on file; a server with a key it drew has
\* not yet put it there.
KeyOnFile ==
  /\ phase \in {"down", "starting", "drawn", "writing", "ready"}
  /\ drawn \in Nat
  /\ phase \in {"drawn", "writing", "ready"} => key \in Key
  /\ phase = "ready" => key = keyFile

\* The key of a licence stays on file: none is drawn in its place.
LicencesOnFile ==
  ~unread /\ licences # {} =>
    /\ licences \subseteq {keyFile}
    /\ keyFile \in Key
    /\ phase \notin {"drawn", "writing"}

\* A package has the seal of the key the server still holds.
Packaged(s) ==
  sub[s] # NoKey =>
    /\ phase = "ready"
    /\ sub[s].downloadable => sub[s].pdf = key
    /\ sub[s].status = "completed" => sub[s].downloadable \/ sub[s].early

CertInv ==
  /\ KeyOnFile
  /\ LicencesOnFile
  /\ sub \in [Submissions -> Submission \cup {NoKey}]
  /\ \A s \in Submissions : Packaged(s)

\* At first there is neither a key nor anything signed.
LEMMA CertStart == CertInit => CertInv
BY DEF CertInit, CertInv, KeyOnFile, LicencesOnFile, NoSubmissions, Packaged

\* What the server does to its key and its file.
LEMMA KeyStep ==
  ASSUME CertInv,
         StartUp \/ ReadKey \/ ReadFails \/ Truncate \/ Persist \/ ServerCrash
  PROVE  CertInv'
<1>1. CASE StartUp
  BY <1>1 DEF StartUp, CertInv, KeyOnFile, LicencesOnFile, Packaged
<1>2. CASE ReadKey
  <2>1. CASE keyFile \in Key
    BY <1>2, <2>1 DEF ReadKey, CertInv, KeyOnFile, LicencesOnFile, Packaged
  <2>2. CASE keyFile \notin Key
    <3>1. Draw /\ UNCHANGED <<keyFile, licences, unread, sub>> /\ phase = "starting"
      BY <1>2, <2>2 DEF ReadKey
    <3>2. key' \in Key
      BY <3>1 DEF Draw, Key, CertInv, KeyOnFile
    <3>3. QED
      BY <2>2, <3>1, <3>2 DEF Draw, CertInv, KeyOnFile, LicencesOnFile, Packaged
  <2>3. QED
    BY <2>1, <2>2
<1>3. CASE ReadFails
  <2>1. key' \in Key
    BY <1>3 DEF ReadFails, Draw, Key, CertInv, KeyOnFile
  <2>2. QED
    BY <1>3, <2>1 DEF ReadFails, Draw, CertInv, KeyOnFile, LicencesOnFile, Packaged
<1>4. CASE Truncate
  BY <1>4 DEF Truncate, CertInv, KeyOnFile, LicencesOnFile, Packaged
<1>5. CASE Persist
  BY <1>5 DEF Persist, CertInv, KeyOnFile, LicencesOnFile, Packaged
<1>6. CASE ServerCrash
  BY <1>6 DEF ServerCrash, CertInv, KeyOnFile, LicencesOnFile, Packaged, NoSubmissions
<1>7. QED
  BY <1>1, <1>2, <1>3, <1>4, <1>5, <1>6

\* What a step does to one submission, when it keeps the keys, is enough.
LEMMA SubmissionStep ==
  ASSUME CertInv, NEW s \in Submissions, NEW v \in Submission,
         sub' = [sub EXCEPT ![s] = v], phase = "ready",
         UNCHANGED <<phase, key, keyFile, drawn, licences, unread>>,
         v.downloadable => v.pdf = key,
         v.status = "completed" => v.downloadable \/ v.early
  PROVE  CertInv'
<1>1. sub' \in [Submissions -> Submission \cup {NoKey}]
  BY DEF CertInv
<1>2. ASSUME NEW r \in Submissions
      PROVE  Packaged(r)'
  BY DEF CertInv, Packaged
<1>3. QED
  BY <1>1, <1>2 DEF CertInv, KeyOnFile, LicencesOnFile

\* A submission that is there is of its type, and the server is ready.
LEMMA SubmissionThere ==
  ASSUME CertInv, NEW s \in Submissions, sub[s] # NoKey
  PROVE  /\ sub[s] \in Submission /\ phase = "ready" /\ key \in Key
         /\ sub[s].downloadable => sub[s].pdf = key
BY DEF CertInv, Packaged, KeyOnFile

\* Every step of the server, its callers and the regulator keeps the invariant.
LEMMA CertStep == CertInv /\ [CertNext]_certVars => CertInv'
<1> SUFFICES ASSUME CertInv, [CertNext]_certVars
             PROVE  CertInv'
  OBVIOUS
<1>1. CASE StartUp \/ ReadKey \/ ReadFails \/ Truncate \/ Persist \/ ServerCrash
  BY <1>1, KeyStep
<1>2. CASE IssueLicence
  BY <1>2 DEF IssueLicence, CertInv, KeyOnFile, LicencesOnFile, Packaged
<1>3. ASSUME NEW s \in Submissions, Submit(s)
      PROVE  CertInv'
  <2> DEFINE v == [status |-> "par_generated", pdf |-> NoKey,
                   downloadable |-> FALSE, rendering |-> TRUE, early |-> FALSE]
  <2>1. v \in Submission /\ v.status = "par_generated" /\ v.downloadable = FALSE
    BY DEF Submission
  <2>2. /\ sub' = [sub EXCEPT ![s] = v] /\ phase = "ready"
        /\ UNCHANGED <<phase, key, keyFile, drawn, licences, unread>>
    BY <1>3 DEF Submit
  <2> HIDE DEF v
  <2>3. QED
    BY <2>1, <2>2, SubmissionStep
<1>4. ASSUME NEW s \in Submissions, Package(s)
      PROVE  CertInv'
  <2> DEFINE v == [sub[s] EXCEPT !.pdf = key, !.downloadable = TRUE,
                                 !.status = "completed", !.rendering = FALSE]
  <2>1. sub[s] # NoKey
    BY <1>4 DEF Package, Rendering
  <2>2. v \in Submission /\ v.pdf = key /\ v.downloadable
    BY <2>1, SubmissionThere DEF Submission
  <2>3. /\ sub' = [sub EXCEPT ![s] = v] /\ phase = "ready"
        /\ UNCHANGED <<phase, key, keyFile, drawn, licences, unread>>
    BY <1>4, <2>1, SubmissionThere DEF Package
  <2> HIDE DEF v
  <2>4. QED
    BY <2>2, <2>3, SubmissionStep
<1>5. ASSUME NEW s \in Submissions, RenderFails(s)
      PROVE  CertInv'
  <2> DEFINE v == [sub[s] EXCEPT !.rendering = FALSE]
  <2>1. sub[s] # NoKey
    BY <1>5 DEF RenderFails, Rendering
  <2>2. /\ v \in Submission /\ v.pdf = sub[s].pdf /\ v.status = sub[s].status
        /\ v.downloadable = sub[s].downloadable /\ v.early = sub[s].early
    BY <2>1, SubmissionThere DEF Submission
  <2>3. /\ sub' = [sub EXCEPT ![s] = v] /\ phase = "ready"
        /\ UNCHANGED <<phase, key, keyFile, drawn, licences, unread>>
    BY <1>5, <2>1, SubmissionThere DEF RenderFails
  <2>4. v.downloadable => v.pdf = key
    BY <2>1, <2>2, SubmissionThere
  <2>5. v.status = "completed" => v.downloadable \/ v.early
    BY <2>1, <2>2 DEF CertInv, Packaged
  <2> HIDE DEF v
  <2>6. QED
    BY <2>2, <2>3, <2>4, <2>5, SubmissionStep
<1>6. ASSUME NEW s \in Submissions, NEW decision \in {"approve", "reject"},
             SetRegulatorDecision(s, decision)
      PROVE  CertInv'
  <2> DEFINE e == sub[s].early \/ (decision = "approve" /\ ~sub[s].downloadable)
             d == StatusOf(decision)
             v == [sub[s] EXCEPT !.status = d, !.early = e]
  <2>1. sub[s] # NoKey
    BY <1>6 DEF SetRegulatorDecision
  <2>2. e \in BOOLEAN /\ d \in {"completed", "rejected"}
    BY <2>1, SubmissionThere DEF Submission, StatusOf
  <2>3. d = "completed" => sub[s].downloadable \/ e
    BY DEF StatusOf
  <2>4. /\ sub' = [sub EXCEPT ![s] = v] /\ phase = "ready"
        /\ UNCHANGED <<phase, key, keyFile, drawn, licences, unread>>
    BY <1>6, <2>1, SubmissionThere DEF SetRegulatorDecision
  <2> HIDE DEF e, d
  <2>5. /\ v \in Submission /\ v.pdf = sub[s].pdf /\ v.downloadable = sub[s].downloadable
        /\ v.status = d /\ (v.early <=> e)
    BY <2>1, <2>2, SubmissionThere DEF Submission
  <2> HIDE DEF v
  <2>6. v.downloadable => v.pdf = key
    BY <2>1, <2>5, SubmissionThere
  <2>7. QED
    BY <2>3, <2>4, <2>5, <2>6, SubmissionStep
<1>7. CASE UNCHANGED certVars
  BY <1>7 DEF certVars, CertInv, KeyOnFile, LicencesOnFile, Packaged
<1>8. QED
  BY <1>1, <1>2, <1>3, <1>4, <1>5, <1>6, <1>7 DEF CertNext

\* Every licence ever issued verifies with the key of the server, wherever in the
\* making of its file it crashed, unless a start could not read the file.
THEOREM LicencesStayValid == CertSpec => []LicencesVerify
<1>1. CertInv => LicencesVerify
  BY DEF CertInv, KeyOnFile, LicencesOnFile, LicencesVerify
<1>2. QED
  BY <1>1, CertStart, CertStep, PTL DEF CertSpec

\* What is packaged is sealed with the key of the server, and what is shown completed
\* is packaged or was approved without a package.
THEOREM CompletionsHaveCause == CertSpec => []CompletedForCause
<1>1. CertInv => CompletedForCause
  BY DEF CertInv, Packaged, CompletedForCause
<1>2. QED
  BY <1>1, CertStart, CertStep, PTL DEF CertSpec

HIDE CertAssumption

(***************************************************************************)
(* ChunkedRun                                                              *)
(***************************************************************************)
USE RunAssumption DEF Spins

-----------------------------------------------------------------------------

Checkpoint == [spinsDone: 0 .. TotalSpins, state: [Spins -> Nat]]

Places == {"idle", "loading", "top", "parked", "unpaused", "working", "saving",
           "clearing", "over"}

\* The types; a call that has answered is over.
RunTypes ==
  /\ pc \in [Runs -> Places]
  /\ spinsDone \in [Runs -> 0 .. TotalSpins]
  /\ state \in [Runs -> [Spins -> Nat]]
  /\ saved \in Checkpoint \cup {None}
  /\ status \in [Runs -> {None, "finished", "cancelled"}]
  /\ cut \in BOOLEAN
  /\ \A r \in Runs : status[r] # None => pc[r] = "over"

\* Where a call stands between two chunks.
Between == {"top", "parked", "unpaused", "working", "clearing"}

\* The checkpoint counts what it says is done, each spin once.
SavedCounts == saved # None => saved.state = UpTo(saved.spinsDone)

\* So does a call between two chunks; after one it is ahead by that chunk.
RunCounts(r) ==
  /\ pc[r] \in Between => state[r] = UpTo(spinsDone[r])
  /\ pc[r] = "saving" => state[r] = UpTo(ChunkEnd(spinsDone[r]))
  /\ status[r] = "finished" => state[r] = UpTo(TotalSpins)

RunInv ==
  /\ RunTypes
  /\ \A r \in Runs : pc[r] = "clearing" => spinsDone[r] = TotalSpins
  /\ ~cut => SavedCounts /\ \A r \in Runs : RunCounts(r)

\* A chunk ends within the run and a checkpoint is not None.
LEMMA ChunkFacts ==
  /\ \A n \in 0 .. TotalSpins : ChunkEnd(n) \in 0 .. TotalSpins /\ n <= ChunkEnd(n)
  /\ Nothing \in [Spins -> Nat] /\ Nothing = UpTo(0)
  /\ None \notin Checkpoint
<1>1. \A n \in 0 .. TotalSpins : ChunkEnd(n) \in 0 .. TotalSpins /\ n <= ChunkEnd(n)
  BY DEF ChunkEnd
<1>2. Nothing \in [Spins -> Nat] /\ Nothing = UpTo(0)
  BY DEF Nothing, UpTo
<1>3. Checkpoint \subseteq [spinsDone: Nat, state: [Spins -> Nat]]
  BY DEF Checkpoint
<1>4. QED
  BY <1>1, <1>2, <1>3

\* No call has started.
LEMMA RunStart == RunInit => RunInv
<1> SUFFICES ASSUME RunInit
             PROVE  RunInv
  OBVIOUS
<1>1. \A r \in Runs : /\ pc[r] = "idle" /\ spinsDone[r] = 0 /\ state[r] = Nothing
                     /\ status[r] = None /\ None # "finished"
  BY DEF RunInit
<1>2. RunTypes
  <2>1. pc \in [Runs -> Places] /\ status \in [Runs -> {None, "finished", "cancelled"}]
    BY DEF RunInit, Places
  <2>2. spinsDone \in [Runs -> 0 .. TotalSpins]
    BY DEF RunInit
  <2>3. state \in [Runs -> [Spins -> Nat]]
    <3> HIDE DEF Nothing
    <3>1. Nothing \in [Spins -> Nat]
      BY ChunkFacts
    <3>2. QED
      BY <3>1 DEF RunInit
  <2>4. QED
    BY <1>1, <2>1, <2>2, <2>3 DEF RunInit, RunTypes
<1>3. \A r \in Runs : RunCounts(r) /\ pc[r] # "clearing"
  BY <1>1 DEF RunCounts, Between
<1>4. SavedCounts
  BY DEF RunInit, SavedCounts
<1>5. QED
  BY <1>2, <1>3, <1>4 DEF RunInv

\* What one call does, when it leaves what it counted in the run it is.
LEMMA MoveStep ==
  ASSUME RunInv, NEW r \in Runs, NEW place \in Places, status[r] = None,
         pc' = [pc EXCEPT ![r] = place],
         UNCHANGED <<spinsDone, state, saved, status, cut>>,
         place = "clearing" => spinsDone[r] = TotalSpins,
         place \in Between => pc[r] \in Between,
         place # "saving"
  PROVE  RunInv'
<1>1. RunTypes'
  BY DEF RunInv, RunTypes
<1>2. ASSUME NEW q \in Runs, ~cut
      PROVE  RunCounts(q)'
  BY <1>2 DEF RunInv, RunTypes, RunCounts
<1>3. \A q \in Runs : pc'[q] = "clearing" => spinsDone'[q] = TotalSpins
  BY DEF RunInv, RunTypes
<1>4. QED
  BY <1>1, <1>2, <1>3 DEF RunInv, SavedCounts

\* The controller's methods wake a parked call.
LEMMA ControlStep ==
  ASSUME RunInv, NEW r \in Runs, Pause(r) \/ Resume(r) \/ Cancel(r) \/ Start(r)
  PROVE  RunInv'
<1>1. CASE Pause(r)
  BY <1>1 DEF Pause, RunInv, RunTypes, SavedCounts, RunCounts
<1>2. CASE Resume(r) \/ Cancel(r)
  <2>1. pc' = [pc EXCEPT ![r] = IF pc[r] = "parked" THEN "top" ELSE pc[r]]
    BY <1>2 DEF Resume, Cancel, Woken
  <2>2. UNCHANGED <<spinsDone, state, saved, status, cut>>
    BY <1>2 DEF Resume, Cancel
  <2>3. CASE pc[r] = "parked"
    <3>1. status[r] = None
      BY <2>3 DEF RunInv, RunTypes
    <3>2. pc' = [pc EXCEPT ![r] = "top"] /\ "top" \in Places
      BY <2>1, <2>3 DEF Places
    <3>3. QED
      BY <2>2, <2>3, <3>1, <3>2, MoveStep DEF Between
  <2>4. CASE pc[r] # "parked"
    <3>1. pc' = pc
      BY <2>1, <2>4 DEF RunInv, RunTypes
    <3>2. QED
      BY <2>2, <3>1 DEF RunInv, RunTypes, SavedCounts, RunCounts
  <2>5. QED
    BY <2>3, <2>4
<1>3. CASE Start(r)
  <2>1. status[r] = None
    BY <1>3 DEF Start, RunInv, RunTypes
  <2>2. pc' = [pc EXCEPT ![r] = "loading"] /\ "loading" \in Places
    BY <1>3 DEF Start, At, Places
  <2>3. UNCHANGED <<spinsDone, state, saved, status, cut>>
    BY <1>3 DEF Start
  <2>4. QED
    BY <2>1, <2>2, <2>3, MoveStep DEF Between
<1>4. QED
  BY <1>1, <1>2, <1>3

\* A call goes on from the checkpoint, or from nothing.
LEMMA LoadKeeps ==
  ASSUME RunInv, NEW r \in Runs, Load(r)
  PROVE  RunInv'
<1> DEFINE from == IF saved = None THEN [spinsDone |-> 0, state |-> Nothing] ELSE saved
<1>1. /\ from \in Checkpoint
      /\ ~cut => from.state = UpTo(from.spinsDone)
  BY ChunkFacts DEF RunInv, RunTypes, SavedCounts, Checkpoint
<1>2. /\ pc[r] = "loading"
      /\ spinsDone' = [spinsDone EXCEPT ![r] = from.spinsDone]
      /\ state' = [state EXCEPT ![r] = from.state]
      /\ pc' = [pc EXCEPT ![r] = LoopPlace(from.spinsDone)]
      /\ UNCHANGED <<saved, status, cut>>
  BY DEF Load, At
<1> HIDE DEF from
<1>3. from.spinsDone \in 0 .. TotalSpins /\ from.state \in [Spins -> Nat]
  BY <1>1 DEF Checkpoint
<1>4. /\ LoopPlace(from.spinsDone) \in {"top", "clearing"}
      /\ LoopPlace(from.spinsDone) = "clearing" => from.spinsDone = TotalSpins
  BY <1>3 DEF LoopPlace
<1>5. status[r] = None
  BY <1>2 DEF RunInv, RunTypes
<1>6. RunTypes'
  BY <1>2, <1>3, <1>4, <1>5 DEF RunInv, RunTypes, Places
<1>7. \A q \in Runs : pc'[q] = "clearing" => spinsDone'[q] = TotalSpins
  BY <1>2, <1>4 DEF RunInv, RunTypes
<1>8. ASSUME ~cut, NEW q \in Runs
      PROVE  RunCounts(q)'
  <2>1. CASE q = r
    BY <1>1, <1>2, <1>3, <1>4, <1>5, <1>8, <2>1 DEF RunInv, RunTypes, RunCounts, Between
  <2>2. CASE q # r
    BY <1>2, <1>8, <2>2 DEF RunInv, RunTypes, RunCounts
  <2>3. QED
    BY <2>1, <2>2
<1>9. QED
  BY <1>2, <1>6, <1>7, <1>8 DEF RunInv, SavedCounts

\* A call waits while it is paused, and looks whether it was cancelled.
LEMMA WaitKeeps ==
  ASSUME RunInv, NEW r \in Runs, Wait(r)
  PROVE  RunInv'
<1>1. PICK place \in {"parked", "unpaused"} : pc' = [pc EXCEPT ![r] = place]
  BY DEF Wait, At
<1>2. pc[r] = "top" /\ UNCHANGED <<spinsDone, state, saved, status, cut>>
  BY DEF Wait
<1>3. status[r] = None
  BY <1>2 DEF RunInv, RunTypes
<1>4. QED
  BY <1>1, <1>2, <1>3, MoveStep DEF Places, Between

\* A cancelled call ends with what it has.
LEMMA CheckKeeps ==
  ASSUME RunInv, NEW r \in Runs, Check(r)
  PROVE  RunInv'
<1>1. pc[r] = "unpaused" /\ UNCHANGED <<spinsDone, state, saved, cut>>
  BY DEF Check
<1>2. CASE controller[r] = "cancelled"
  <2>1. pc' = [pc EXCEPT ![r] = "over"] /\ status' = [status EXCEPT ![r] = "cancelled"]
    BY <1>2 DEF Check, End, At
  <2>2. QED
    BY <1>1, <2>1 DEF RunInv, RunTypes, SavedCounts, RunCounts, Places, Between
<1>3. CASE controller[r] # "cancelled"
  <2>1. pc' = [pc EXCEPT ![r] = "working"] /\ status' = status /\ status[r] = None
    BY <1>1, <1>3 DEF Check, At, RunInv, RunTypes
  <2>2. QED
    BY <1>1, <2>1, MoveStep DEF Places, Between
<1>4. QED
  BY <1>2, <1>3

\* A chunk that is not cut short counts its spins.
LEMMA ChunkKeeps ==
  ASSUME RunInv, NEW r \in Runs, ProcessChunk(r)
  PROVE  RunInv'
<1> DEFINE end == ChunkEnd(spinsDone[r])
<1>1. PICK last \in spinsDone[r] .. end :
        /\ state' = [state EXCEPT ![r] = Counted(r, last)]
        /\ cut' = (cut \/ last # end)
  BY DEF ProcessChunk
<1>2. /\ pc[r] = "working" /\ pc' = [pc EXCEPT ![r] = "saving"]
      /\ UNCHANGED <<spinsDone, saved, status>>
  BY DEF ProcessChunk, At
<1>3. /\ spinsDone[r] \in 0 .. TotalSpins /\ state[r] \in [Spins -> Nat]
      /\ status[r] = None
  BY <1>2 DEF RunInv, RunTypes
<1>4. Counted(r, last) \in [Spins -> Nat]
  BY <1>3 DEF Counted
<1>5. RunTypes'
  BY <1>1, <1>2, <1>3, <1>4 DEF RunInv, RunTypes, Places
<1>6. \A q \in Runs : pc'[q] = "clearing" => spinsDone'[q] = TotalSpins
  BY <1>2 DEF RunInv, RunTypes
<1>7. ASSUME ~cut', NEW q \in Runs
      PROVE  RunCounts(q)'
  <2>1. last = end /\ ~cut
    BY <1>1, <1>7
  <2>2. CASE q = r
    <3>1. state[r] = UpTo(spinsDone[r])
      BY <1>2, <2>1 DEF RunInv, RunCounts, Between
    <3>2. end \in 0 .. TotalSpins /\ spinsDone[r] <= end
      BY <1>3, ChunkFacts
    <3>3. Counted(r, end) = UpTo(end)
      <4>1. \A s \in Spins : Counted(r, end)[s] = UpTo(end)[s]
        BY <1>3, <3>1, <3>2 DEF Counted, UpTo
      <4>2. QED
        BY <4>1 DEF Counted, UpTo
    <3>4. state'[r] = UpTo(end)
      BY <1>1, <2>1, <3>3 DEF RunInv, RunTypes
    <3>5. pc'[r] = "saving" /\ status'[r] = None /\ spinsDone'[r] = spinsDone[r]
      BY <1>2, <1>3 DEF RunInv, RunTypes
    <3>6. QED
      BY <2>2, <3>4, <3>5 DEF RunCounts, Between, ChunkEnd
  <2>3. CASE q # r
    BY <1>1, <1>2, <2>1, <2>3 DEF RunInv, RunTypes, RunCounts, ChunkEnd
  <2>4. QED
    BY <2>2, <2>3
<1>8. ~cut' => SavedCounts'
  BY <1>1, <1>2 DEF RunInv, SavedCounts
<1>9. QED
  BY <1>5, <1>6, <1>7, <1>8 DEF RunInv

\* The checkpoint of a chunk counts the chunk.
LEMMA SnapshotCounts ==
  ASSUME RunInv, NEW r \in Runs, pc[r] = "saving"
  PROVE  /\ Snapshot(r) \in Checkpoint
         /\ ~cut => Snapshot(r).state = UpTo(Snapshot(r).spinsDone)
<1>1. spinsDone[r] \in 0 .. TotalSpins /\ state[r] \in [Spins -> Nat]
  BY DEF RunInv, RunTypes
<1>2. ~cut => state[r] = UpTo(ChunkEnd(spinsDone[r]))
  BY DEF RunInv, RunCounts
<1>3. QED
  BY <1>1, <1>2, ChunkFacts DEF Snapshot, Checkpoint

\* The call goes on where the checkpoint is.
LEMMA SaveKeeps ==
  ASSUME RunInv, NEW r \in Runs, Save(r)
  PROVE  RunInv'
<1> DEFINE done == ChunkEnd(spinsDone[r])
<1>1. /\ pc[r] = "saving"
      /\ spinsDone' = [spinsDone EXCEPT ![r] = done]
      /\ saved' = Snapshot(r)
      /\ pc' = [pc EXCEPT ![r] = LoopPlace(done)]
      /\ UNCHANGED <<state, status, cut>>
  BY DEF Save, At
<1>2. done \in 0 .. TotalSpins /\ status[r] = None
  BY <1>1, ChunkFacts DEF RunInv, RunTypes
<1>3. ~cut => state[r] = UpTo(done)
  BY <1>1 DEF RunInv, RunCounts
<1>4. /\ saved' \in Checkpoint
      /\ ~cut => SavedCounts'
  BY <1>1, SnapshotCounts DEF SavedCounts
<1> HIDE DEF done
<1>5. /\ LoopPlace(done) \in {"top", "clearing"}
      /\ LoopPlace(done) = "clearing" => done = TotalSpins
  BY <1>2 DEF LoopPlace
<1>6. RunTypes'
  BY <1>1, <1>2, <1>4, <1>5 DEF RunInv, RunTypes, Places
<1>7. \A q \in Runs : pc'[q] = "clearing" => spinsDone'[q] = TotalSpins
  BY <1>1, <1>5 DEF RunInv, RunTypes
<1>8. ASSUME ~cut, NEW q \in Runs
      PROVE  RunCounts(q)'
  <2>1. CASE q = r
    BY <1>1, <1>2, <1>3, <1>5, <1>8, <2>1 DEF RunInv, RunTypes, RunCounts, Between
  <2>2. CASE q # r
    BY <1>1, <1>8, <2>2 DEF RunInv, RunTypes, RunCounts, ChunkEnd
  <2>3. QED
    BY <2>1, <2>2
<1>9. QED
  BY <1>1, <1>4, <1>6, <1>7, <1>8 DEF RunInv

\* A run that is through has counted every spin.
LEMMA ClearKeeps ==
  ASSUME RunInv, NEW r \in Runs, Clear(r)
  PROVE  RunInv'
<1>1. /\ pc[r] = "clearing" /\ saved' = None
      /\ pc' = [pc EXCEPT ![r] = "over"] /\ status' = [status EXCEPT ![r] = "finished"]
      /\ UNCHANGED <<spinsDone, state, cut>>
  BY DEF Clear, End, At
<1>2. ~cut => state[r] = UpTo(TotalSpins)
  BY <1>1 DEF RunInv, RunCounts, Between
<1>3. RunTypes'
  BY <1>1 DEF RunInv, RunTypes, Places
<1>4. \A q \in Runs : pc'[q] = "clearing" => spinsDone'[q] = TotalSpins
  BY <1>1 DEF RunInv, RunTypes
<1>5. ASSUME ~cut, NEW q \in Runs
      PROVE  RunCounts(q)'
  BY <1>1, <1>2, <1>5 DEF RunInv, RunTypes, RunCounts, Between, ChunkEnd
<1>6. QED
  BY <1>1, <1>3, <1>4, <1>5 DEF RunInv, SavedCounts

\* Calls that end without an answer, and take nothing with them but what they had.
LEMMA DropKeeps ==
  ASSUME RunInv, NEW S \in SUBSET Runs, \A r \in S : status[r] = None,
         pc' = [r \in Runs |-> IF r \in S THEN "over" ELSE pc[r]],
         spinsDone' = Dropped(spinsDone, S, 0),
         state' = Dropped(state, S, Nothing),
         status' = status, cut' = cut,
         saved' \in Checkpoint \cup {None}, ~cut => SavedCounts'
  PROVE  RunInv'
<1>1. RunTypes'
  BY ChunkFacts DEF RunInv, RunTypes, Places, Dropped
<1>2. \A q \in Runs : pc'[q] = "clearing" => spinsDone'[q] = TotalSpins
  BY DEF RunInv, RunTypes, Dropped
<1>3. ASSUME ~cut, NEW q \in Runs
      PROVE  RunCounts(q)'
  BY <1>3 DEF RunInv, RunTypes, RunCounts, Dropped, Between, ChunkEnd
<1>4. QED
  BY <1>1, <1>2, <1>3 DEF RunInv

\* A failure leaves the checkpoint as it was or as it was asked to make it.
LEMMA ThrowsKeeps ==
  ASSUME RunInv, NEW r \in Runs, Throws(r)
  PROVE  RunInv'
<1>1. pc[r] \in {"loading", "working", "saving", "clearing"} /\ status[r] = None
  BY DEF Throws, RunInv, RunTypes
<1>2. pc' = [q \in Runs |-> IF q \in {r} THEN "over" ELSE pc[q]]
  BY DEF Throws, End, At, RunInv, RunTypes
<1>3. status' = status
  BY <1>1 DEF Throws, End, RunInv, RunTypes
<1>4. saved' \in {saved, None} \/ (pc[r] = "saving" /\ saved' = Snapshot(r))
  BY DEF Throws
<1>5. saved' \in Checkpoint \cup {None} /\ (~cut => SavedCounts')
  <2>1. CASE saved' \in {saved, None}
    BY <2>1 DEF RunInv, RunTypes, SavedCounts
  <2>2. CASE pc[r] = "saving" /\ saved' = Snapshot(r)
    BY <2>2, SnapshotCounts DEF SavedCounts
  <2>3. QED
    BY <1>4, <2>1, <2>2
<1>6. /\ spinsDone' = Dropped(spinsDone, {r}, 0) /\ state' = Dropped(state, {r}, Nothing)
      /\ cut' = cut /\ {r} \in SUBSET Runs
  BY DEF Throws
<1>7. QED
  BY <1>1, <1>2, <1>3, <1>5, <1>6, DropKeeps

\* A crash leaves the checkpoint alone.
LEMMA CrashKeeps ==
  ASSUME RunInv, RunnerCrash
  PROVE  RunInv'
<1> DEFINE died == {r \in Runs : Active(r)}
<1>1. died \in SUBSET Runs /\ \A r \in died : status[r] = None
  BY DEF Active, RunInv, RunTypes
<1>2. /\ pc' = [r \in Runs |-> IF r \in died THEN "over" ELSE pc[r]]
      /\ spinsDone' = Dropped(spinsDone, died, 0)
      /\ state' = Dropped(state, died, Nothing)
      /\ UNCHANGED <<saved, status, cut>>
  BY DEF RunnerCrash, Dropped
<1>3. saved' \in Checkpoint \cup {None} /\ (~cut => SavedCounts')
  BY <1>2 DEF RunInv, RunTypes, SavedCounts
<1> HIDE DEF died
<1>4. QED
  BY <1>1, <1>2, <1>3, DropKeeps

\* Every step of any call, of its controller and of the process.
LEMMA RunStep == RunInv /\ [RunNext]_runVars => RunInv'
<1> SUFFICES ASSUME RunInv, [RunNext]_runVars
             PROVE  RunInv'
  OBVIOUS
<1>1. ASSUME NEW r \in Runs, Pause(r) \/ Resume(r) \/ Cancel(r) \/ Start(r)
      PROVE  RunInv'
  BY <1>1, ControlStep
<1>2. ASSUME NEW r \in Runs, Step(r)
      PROVE  RunInv'
  BY <1>2, LoadKeeps, WaitKeeps, CheckKeeps, ChunkKeeps, SaveKeeps, ClearKeeps DEF Step
<1>3. ASSUME NEW r \in Runs, Throws(r)
      PROVE  RunInv'
  BY <1>3, ThrowsKeeps
<1>4. CASE RunnerCrash
  BY <1>4, CrashKeeps
<1>5. CASE UNCHANGED runVars
  BY <1>5 DEF runVars, RunInv, RunTypes, SavedCounts, RunCounts
<1>6. QED
  BY <1>1, <1>2, <1>3, <1>4, <1>5 DEF RunNext

\* The invariant holds of every behaviour.
LEMMA RunInvHolds == RunSpec => []RunInv
BY RunStart, RunStep, PTL DEF RunSpec

\* The result of a finished run counts every spin once, over any chain of
\* cancelled, failed, crashed and resumed calls for the job and beside any others,
\* as long as no chunk was cut short.
THEOREM FinishedCounted == RunSpec => []FinishedCountsAll
<1>1. RunInv => FinishedCountsAll
  BY DEF RunInv, RunCounts, FinishedCountsAll
<1>2. QED
  BY <1>1, RunInvHolds, PTL

\* As long as no two calls overlapped, there is one under way at most, and
\* between two chunks it stands where the checkpoint does.
Apart ==
  ~overlapped =>
    /\ \A p, q \in Runs : Active(p) /\ Active(q) => p = q
    /\ \A r \in Runs : pc[r] \in Between => Checkpointed(r)

\* What the one call under way does, if it is at its checkpoint between chunks.
LEMMA OwnStep ==
  ASSUME RunInv, Apart, NEW r \in Runs, Active(r), NEW place,
         pc' = [pc EXCEPT ![r] = place], overlapped' = overlapped,
         ~overlapped => (place \in Between => Checkpointed(r)')
  PROVE  Apart'
<1> SUFFICES ASSUME ~overlapped
             PROVE  Apart'
  BY DEF Apart
<1>1. \A q \in Runs : q # r => ~Active(q) /\ pc'[q] = pc[q]
  BY DEF Apart, RunInv, RunTypes
<1>2. \A q \in Runs : q # r => ~Active(q)' /\ pc'[q] \notin Between
  BY <1>1 DEF Active, Between
<1>3. pc'[r] = place
  BY DEF RunInv, RunTypes
<1>4. QED
  BY <1>2, <1>3 DEF Apart

\* Nothing moves but a controller.
LEMMA StillApart ==
  ASSUME Apart, UNCHANGED <<pc, spinsDone, state, saved, overlapped>>
  PROVE  Apart'
BY DEF Apart, Active, Checkpointed

\* Every step keeps a call that is alone at its checkpoint.
LEMMA ApartStep ==
  ASSUME RunInv, Apart, [RunNext]_runVars
  PROVE  Apart'
<1>1. ASSUME NEW r \in Runs, Pause(r)
      PROVE  Apart'
  BY <1>1, StillApart DEF Pause
<1>2. ASSUME NEW r \in Runs, Resume(r) \/ Cancel(r)
      PROVE  Apart'
  <2>1. /\ pc' = [pc EXCEPT ![r] = IF pc[r] = "parked" THEN "top" ELSE pc[r]]
        /\ UNCHANGED <<spinsDone, state, saved, overlapped>>
    BY <1>2 DEF Resume, Cancel, Woken
  <2>2. CASE pc[r] = "parked"
    <3>1. Active(r) /\ pc' = [pc EXCEPT ![r] = "top"]
      BY <2>1, <2>2 DEF Active
    <3>2. ~overlapped => Checkpointed(r)'
      BY <2>1, <2>2 DEF Apart, Between, Checkpointed
    <3>3. QED
      BY <2>1, <3>1, <3>2, OwnStep
  <2>3. CASE pc[r] # "parked"
    <3>1. pc' = pc
      BY <2>1, <2>3 DEF RunInv, RunTypes
    <3>2. QED
      BY <2>1, <3>1, StillApart
  <2>4. QED
    BY <2>2, <2>3
<1>3. ASSUME NEW r \in Runs, Start(r)
      PROVE  Apart'
  <2>1. /\ pc' = [pc EXCEPT ![r] = "loading"] /\ pc[r] = "idle"
        /\ overlapped' = (overlapped \/ \E q \in Runs : Active(q))
    BY <1>3 DEF Start, At
  <2>2. SUFFICES ASSUME ~overlapped'
                 PROVE  Apart'
    BY DEF Apart
  <2>3. ~overlapped /\ \A q \in Runs : ~Active(q)
    BY <2>1, <2>2
  <2>4. ASSUME NEW q \in Runs, q # r
        PROVE  pc'[q] \in {"idle", "over"}
    BY <2>1, <2>3, <2>4 DEF Active, RunInv, RunTypes
  <2>5. pc'[r] = "loading"
    BY <1>3, <2>1 DEF RunInv, RunTypes
  <2>6. \A q \in Runs : pc'[q] \notin Between
    BY <2>4, <2>5 DEF Between
  <2>7. \A q \in Runs : Active(q)' => q = r
    BY <2>4 DEF Active
  <2>8. QED
    BY <2>6, <2>7 DEF Apart
<1>4. ASSUME NEW r \in Runs, Load(r)
      PROVE  Apart'
  <2> DEFINE from == IF saved = None THEN [spinsDone |-> 0, state |-> Nothing] ELSE saved
  <2>1. /\ Active(r) /\ UNCHANGED <<saved, overlapped>>
        /\ spinsDone' = [spinsDone EXCEPT ![r] = from.spinsDone]
        /\ state' = [state EXCEPT ![r] = from.state]
        /\ pc' = [pc EXCEPT ![r] = LoopPlace(from.spinsDone)]
    BY <1>4 DEF Load, At, Active
  <2>2. spinsDone'[r] = from.spinsDone /\ state'[r] = from.state
    BY <2>1 DEF RunInv, RunTypes
  <2>3. saved # None => saved = [spinsDone |-> saved.spinsDone, state |-> saved.state]
    BY DEF RunInv, RunTypes, Checkpoint
  <2>4. Checkpointed(r)'
    BY <2>1, <2>2, <2>3 DEF Checkpointed
  <2> HIDE DEF from
  <2>5. QED
    BY <2>1, <2>4, OwnStep
<1>5. ASSUME NEW r \in Runs, Wait(r) \/ Check(r)
      PROVE  Apart'
  <2>1. PICK place : pc' = [pc EXCEPT ![r] = place]
    BY <1>5 DEF Wait, Check, End, At
  <2>2. /\ pc[r] \in {"top", "unpaused"} /\ Active(r)
        /\ UNCHANGED <<spinsDone, state, saved, overlapped>>
    BY <1>5 DEF Wait, Check, Active
  <2>3. ~overlapped => Checkpointed(r)'
    BY <2>2 DEF Apart, Between, Checkpointed
  <2>4. QED
    BY <2>1, <2>2, <2>3, OwnStep
<1>6. ASSUME NEW r \in Runs, ProcessChunk(r)
      PROVE  Apart'
  BY <1>6, OwnStep DEF ProcessChunk, At, Active, Between
<1>7. ASSUME NEW r \in Runs, Save(r)
      PROVE  Apart'
  <2>1. /\ Active(r) /\ UNCHANGED <<state, overlapped>>
        /\ pc' = [pc EXCEPT ![r] = LoopPlace(ChunkEnd(spinsDone[r]))]
        /\ spinsDone'[r] = ChunkEnd(spinsDone[r])
        /\ saved' = [spinsDone |-> ChunkEnd(spinsDone[r]), state |-> state[r]]
        /\ pc[r] = "saving"
    BY <1>7 DEF Save, At, Active, RunInv, RunTypes, Snapshot
  <2>2. saved' # None
    BY <2>1, SnapshotCounts, ChunkFacts DEF Snapshot
  <2>3. Checkpointed(r)'
    BY <2>1, <2>2 DEF Checkpointed
  <2>4. QED
    BY <2>1, <2>3, OwnStep
<1>8. ASSUME NEW r \in Runs, Clear(r) \/ Throws(r)
      PROVE  Apart'
  <2>1. Active(r) /\ pc' = [pc EXCEPT ![r] = "over"] /\ overlapped' = overlapped
    BY <1>8 DEF Clear, Throws, End, At, Active
  <2>2. QED
    BY <2>1, OwnStep DEF Between
<1>9. CASE RunnerCrash
  <2>1. \A q \in Runs : pc'[q] \in {"idle", "over"}
    BY <1>9 DEF RunnerCrash, Dropped, Active
  <2>2. QED
    BY <2>1 DEF Apart, Active, Between
<1>10. CASE UNCHANGED runVars
  BY <1>10, StillApart DEF runVars
<1>11. QED
  BY <1>1, <1>2, <1>3, <1>4, <1>5, <1>6, <1>7, <1>8, <1>9, <1>10 DEF RunNext, Step

\* A step that answers "cancelled" is the check of a call at its checkpoint.
LEMMA CancelledAtCheckpoint ==
  ASSUME RunInv, Apart, [RunNext]_runVars, NEW r \in Runs,
         status'[r] # status[r], status'[r] = "cancelled", ~overlapped
  PROVE  Checkpointed(r)' /\ saved' = saved
<1>1. ASSUME NEW q \in Runs, Check(q)
      PROVE  Checkpointed(r)' /\ saved' = saved
  <2>1. /\ pc[q] = "unpaused" /\ UNCHANGED <<spinsDone, state, saved>>
        /\ status' = [status EXCEPT ![q] = "cancelled"] \/ status' = status
    BY <1>1 DEF Check, End
  <2>2. q = r
    BY <2>1 DEF RunInv, RunTypes
  <2>3. QED
    BY <2>1, <2>2 DEF Apart, Between, Checkpointed
<1>2. ASSUME NEW q \in Runs,
             status' = [status EXCEPT ![q] = "finished"]
               \/ status' = [status EXCEPT ![q] = None]
      PROVE  FALSE
  BY <1>2 DEF RunInv, RunTypes
<1>3. ASSUME NEW q \in Runs, Clear(q) \/ Throws(q)
      PROVE  FALSE
  BY <1>2, <1>3 DEF Clear, Throws, End
<1>4. ASSUME NEW q \in Runs,
             \/ Start(q) \/ Load(q) \/ Wait(q) \/ ProcessChunk(q) \/ Save(q)
             \/ Pause(q) \/ Resume(q) \/ Cancel(q)
      PROVE  FALSE
  BY <1>4 DEF Start, Load, Wait, ProcessChunk, Save, Pause, Resume, Cancel
<1>5. ~RunnerCrash /\ ~UNCHANGED runVars
  BY DEF RunnerCrash, runVars
<1>6. QED
  BY <1>1, <1>3, <1>4, <1>5 DEF RunNext, Step

\* A call that answers "cancelled" had no other beside it and leaves the
\* checkpoint exactly where it stopped, after any calls, failures and crashes.
THEOREM CancelledResumes == RunSpec => CancelledIsResumable
<1>1. RunInit => Apart
  BY DEF RunInit, Apart, Active, Between
<1>2. RunInv /\ Apart /\ [RunNext]_runVars => Apart'
  BY ApartStep
<1>3. RunInv /\ Apart /\ [RunNext]_runVars
        => [\A r \in Runs :
              status'[r] # status[r] /\ status'[r] = "cancelled" /\ ~overlapped
                => Checkpointed(r)' /\ saved' = saved]_runVars
  BY CancelledAtCheckpoint
<1>4. QED
  BY <1>1, <1>2, <1>3, RunStart, RunStep, PTL DEF RunSpec, CancelledIsResumable

HIDE RunAssumption DEF Spins

=============================================================================
