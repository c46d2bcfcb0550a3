--------------------------- MODULE RecallJournal ----------------------------
(***************************************************************************)
(* The file journal of the game recall, src/recall/journal.ts: appends,    *)
(* rotation, crashes between and inside system calls, and recovery.        *)
(*                                                                         *)
(* Abstractions.  disk is what append has written, one piece per call, in  *)
(* order; a piece's file says where it is.  A piece's position stands for  *)
(* its entry_hash, 0 for ZERO_HASH.  The size that makes a file rotate is  *)
(* a number of pieces.  A crash ends the process and loses nothing that    *)
(* was written; two rotations get different names.                         *)
(***************************************************************************)
EXTENDS Integers, Sequences

CONSTANTS
  RotateAt,    \* rotationMaxBytes, in pieces
  MaxPieces    \* bound: pieces written

ASSUME JournalAssumption ==
  /\ RotateAt \in Nat \ {0}
  /\ MaxPieces \in Nat

\* How much of its line a piece holds: a part of the entry, the entry without
\* the newline, or all.
Parts == {"torn", "unended", "whole"}

Piece == [seq: Nat, prev: Nat, part: Parts, file: Nat]

VARIABLES
  disk,
  file,     \* the number of the current file: the rotated ones before it
  mode,     \* "closed", "open" or "refused"
  head,     \* headHash
  nextSeq,
  anew,     \* how much was written whenever a process found no file to go on from (history)
  acked,    \* the pieces whose append returned (history)
  hurt      \* a failed write was followed by another, or an unended line was taken
            \* for whole (history)

journalVars == <<disk, file, mode, head, nextSeq, anew, acked, hurt>>

JournalInit ==
  /\ disk = <<>>
  /\ file = 0
  /\ mode = "closed"
  /\ head = 0
  /\ nextSeq = 0
  /\ anew = {}
  /\ acked = {}
  /\ hurt = FALSE

-----------------------------------------------------------------------------

Current == {i \in 1 .. Len(disk) : disk[i].file = file}

FirstOfFile(i) == i = 1 \/ disk[i - 1].file # disk[i].file

\* Slip: an incomplete last line is passed over.
ParsesAllButLast == \A i \in Current : disk[i].part = "whole" \/ i = Len(disk)

\* JSON.parse accepts every line: an entry, and nothing glued to it.
Parses == \A i \in Current : disk[i].part = "whole" \/ (disk[i].part = "unended" /\ i = Len(disk))

\* Slip: the numbers of a file start at one.
RecoversFromOne ==
  /\ Parses
  /\ \A i \in Current :
       /\ disk[i].prev = IF FirstOfFile(i) THEN 0 ELSE i - 1
       /\ disk[i].seq = IF FirstOfFile(i) THEN 1 ELSE disk[i - 1].seq + 1

\* recover's checks: every line follows the one before it in this file, the first
\* one ZERO_HASH and number 0.
Recovers ==
  /\ Parses
  /\ \A i \in Current :
       /\ disk[i].prev = IF FirstOfFile(i) THEN 0 ELSE i - 1
       /\ disk[i].seq = IF FirstOfFile(i) THEN 0 ELSE disk[i - 1].seq + 1

\* The constructor, when recover throws and when it does not.
Refuse ==
  /\ mode = "closed"
  /\ ~Recovers
  /\ mode' = "refused"
  /\ UNCHANGED <<disk, file, head, nextSeq, anew, acked, hurt>>

Open ==
  /\ mode = "closed"
  /\ Recovers
  /\ mode' = "open"
  /\ head' = IF Current = {} THEN 0 ELSE Len(disk)
  /\ nextSeq' = IF Current = {} THEN 0 ELSE disk[Len(disk)].seq + 1
  /\ anew' = IF Current = {} THEN anew \cup {Len(disk)} ELSE anew
  /\ hurt' = (hurt \/ \E i \in Current : disk[i].part = "unended")
  /\ UNCHANGED <<disk, file, acked>>

\* appendFileSync, as far as it gets.
Write(part) ==
  /\ mode = "open"
  /\ UNCHANGED anew
  /\ Len(disk) < MaxPieces
  /\ IF part = "nothing" THEN UNCHANGED disk
     ELSE disk' = Append(disk, [seq |-> nextSeq, prev |-> head, part |-> part, file |-> file])

Advance ==
  /\ head' = Len(disk) + 1
  /\ nextSeq' = nextSeq + 1

\* The current file has reached the size: pieces of a file are consecutive.
Filled(d) == Len(d) >= RotateAt /\ d[Len(d) - RotateAt + 1].file = file

\* maybeRotate after a write; a stat that fails leaves the file as it is.
MaybeRotate ==
  \/ UNCHANGED file
  \/ Filled(disk') /\ file' = file + 1

\* Slip: a rotation starts the chain and the numbers over.
AppendStartsOver ==
  /\ Write("whole")
  /\ MaybeRotate
  /\ IF file' = file THEN Advance ELSE head' = 0 /\ nextSeq' = 0
  /\ acked' = acked \cup {Len(disk) + 1}
  /\ UNCHANGED <<mode, hurt>>

\* append
AppendEntry ==
  /\ Write("whole")
  /\ Advance
  /\ MaybeRotate
  /\ acked' = acked \cup {Len(disk) + 1}
  /\ UNCHANGED <<mode, hurt>>

\* append throws out of renameSync; the entry is in.
RenameThrows ==
  /\ Write("whole")
  /\ Filled(disk')
  /\ Advance
  /\ UNCHANGED <<file, mode, acked, hurt>>

\* append throws out of appendFileSync, which may have written some of the line.
WriteThrows ==
  \E part \in Parts \cup {"nothing"} :
    /\ Write(part)
    /\ hurt' = (hurt \/ part # "nothing")
    /\ UNCHANGED <<file, mode, head, nextSeq, acked>>

\* The process ends, maybe inside an append; its counters go with it.
JournalCrash ==
  \E part \in Parts \cup {"nothing"} :
    /\ Write(part)
    /\ IF part = "whole" THEN MaybeRotate ELSE UNCHANGED file
    /\ mode' = "closed"
    /\ head' = 0
    /\ nextSeq' = 0
    /\ UNCHANGED <<acked, hurt>>

JournalNext == Open \/ Refuse \/ AppendEntry \/ RenameThrows \/ WriteThrows \/ JournalCrash

JournalSpec == JournalInit /\ [][JournalNext]_journalVars

-----------------------------------------------------------------------------

\* The types; and the head is something that was written.
JournalTypeOK ==
  /\ disk \in Seq(Piece)
  /\ file \in Nat
  /\ mode \in {"closed", "open", "refused"}
  /\ head \in 0 .. Len(disk)
  /\ nextSeq \in Nat
  /\ anew \subseteq 0 .. Len(disk)
  /\ acked \subseteq 1 .. Len(disk)
  /\ hurt \in BOOLEAN

\* The files together are one chain with one sequence of numbers, crash after
\* crash and rotation after rotation, and an open journal stands at its end: a
\* process goes on from the tail of the file it rotates away (journal.ts: "the chain
\* stays unbroken across rotations").  The exception is a process that was started
\* right there, after a rotation: it found no file and starts a chain of its own,
\* from ZERO_HASH and number 0.
FilesChain ==
  ~hurt =>
    /\ \A i \in 1 .. Len(disk) :
         \/ disk[i].prev = i - 1 /\ disk[i].seq = (IF i = 1 THEN 0 ELSE disk[i - 1].seq + 1)
         \/ i - 1 \in anew /\ FirstOfFile(i) /\ disk[i].prev = 0 /\ disk[i].seq = 0
    /\ mode = "open" =>
         \/ head = Len(disk) /\ nextSeq = (IF head = 0 THEN 0 ELSE disk[head].seq + 1)
         \/ Len(disk) \in anew /\ Current = {} /\ head = 0 /\ nextSeq = 0

\* An entry whose append returned stays readable: its line is whole and nothing is
\* glued to it.  Two ways to lose it: a write that fails while the process lives
\* on, and a last line that recovery takes for whole without its newline.
AckedReadable ==
  ~hurt =>
    \A i \in acked :
      disk[i].part = "whole" /\ (FirstOfFile(i) \/ disk[i - 1].part = "whole")

\* A journal is refused for cause: a line of its file is torn, or its file
\* continues a rotated one, which recovery does not know how to accept.
RefusedForCause ==
  mode = "refused" /\ ~hurt =>
    \E i \in Current : disk[i].part = "torn" \/ (FirstOfFile(i) /\ disk[i].prev # 0)

=============================================================================
