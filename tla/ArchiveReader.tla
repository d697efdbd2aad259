----------------------------- MODULE ArchiveReader -----------------------------
(***************************************************************************)
(* Reading an archive back: ArchiveReader over the files ArchiveStorage    *)
(* leaves on disk, at any time after their description exists, while they  *)
(* are still written, after they were closed, or after a crash.  A file is *)
(* opened when it is first read, and what its header said then is kept.    *)
(***************************************************************************)
EXTENDS ArchiveStorage

VARIABLES
  open,      (* m_open                                                     *)
  reading,   (* per file: whether it is open, its header, its stream       *)
  answer     (* history: the last call of readFrame and what it returned   *)

readerVars == <<open, reading, answer>>
vars == <<storageVars, readerVars>>

NotFound == -1

NotRead == [isOpen |-> FALSE, count |-> 0, next |-> 0, failed |-> FALSE]
FileReaders == [isOpen : BOOLEAN, count : Nat, next : Nat, failed : BOOLEAN]

NoAnswer == [asked |-> 0, got |-> NotFound, owed |-> FALSE, spent |-> FALSE]
AnswersToReads ==
  [asked : Nat, got : Nat \cup {NotFound}, owed : BOOLEAN, spent : BOOLEAN]

-----------------------------------------------------------------------------
\* ensureOpen(): the reader of f, opened if it was not.
Opened(f) ==
  IF reading[f].isOpen THEN reading[f]
  ELSE [isOpen |-> TRUE, count |-> header[f], next |-> 0, failed |-> FALSE]

\* fileSize() in records: a stream that has failed is told to have no size.
Size(f, r) == IF r.failed THEN 0 ELSE flushed[f]

\* Where readFrame() looks for the record of frame n.
RecordIndex_Next(f, n) == n \div Period[f] + 1
RecordIndex(f, n) == n \div Period[f]

\* readFrame() returns a record only if it is the one of the frame asked for.
IsTheFrame(n, record) == record = n

\* seek() to a record and read(): the stream after it, cleared of what failed.
AfterSeek(r, i) == [r EXCEPT !.next = i + 1, !.failed = FALSE]

\* The archive was closed without a failure or a gap before f was opened, and
\* frame n is one of those it was recorded from.
Owed(f, r, n) ==
  /\ phase = "closed" /\ clean /\ r.count = header[f]
  /\ n % Period[f] = 0 /\ n < frame

-----------------------------------------------------------------------------
ReaderInit ==
  /\ open = FALSE
  /\ reading = [f \in Files |-> NotRead]
  /\ answer = NoAnswer

\* open() finds the description.
OpenArchive ==
  /\ ~open /\ described
  /\ open' = TRUE /\ reading' = [f \in Files |-> NotRead]
  /\ UNCHANGED <<answer, storageVars>>

CloseArchive ==
  /\ open
  /\ open' = FALSE /\ reading' = [f \in Files |-> NotRead]
  /\ UNCHANGED <<answer, storageVars>>

\* read(): the next record, or the end of what is on disk, which leaves the
\* stream failed.
Read(f) ==
  LET r == Opened(f)
  IN /\ open /\ header[f] # NoHeader
     /\ reading' = [reading EXCEPT ![f] =
          IF ~r.failed /\ r.next < flushed[f] THEN [r EXCEPT !.next = @ + 1]
          ELSE [r EXCEPT !.failed = TRUE]]
     /\ UNCHANGED <<open, answer, storageVars>>

\* readFrame().
ReadFrame(f, n) ==
  LET r == Opened(f)
      i == RecordIndex(f, n)
      call == [asked |-> n, got |-> NotFound, owed |-> Owed(f, r, n), spent |-> r.failed]
  IN /\ open /\ header[f] # NoHeader
     /\ IF n % Period[f] = 0 /\ i < r.count /\ i < Size(f, r)
        THEN /\ reading' = [reading EXCEPT ![f] = AfterSeek(r, i)]
             /\ answer' = [call EXCEPT !.got = IF IsTheFrame(n, accepted[f][i + 1])
                                               THEN accepted[f][i + 1] ELSE NotFound]
        ELSE reading' = [reading EXCEPT ![f] = r] /\ answer' = call
     /\ UNCHANGED <<open, storageVars>>

-----------------------------------------------------------------------------
Init == StorageInit /\ ReaderInit

Next ==
  \/ StorageNext /\ UNCHANGED readerVars
  \/ OpenArchive \/ CloseArchive
  \/ \E f \in Files : Read(f)
  \/ \E f \in Files, n \in 0..MaxFrame : ReadFrame(f, n)

Spec == Init /\ [][Next]_vars

-----------------------------------------------------------------------------
\* Every variable stays in its type.
TypeOK ==
  /\ StorageTypeOK
  /\ open \in BOOLEAN
  /\ reading \in [Files -> FileReaders]
  /\ answer \in AnswersToReads

\* Every frame that was recorded is found in an archive that was closed without a
\* failure and opened afterwards, whatever was asked before, unless the reader
\* had run into the end of that file.
ClosedArchiveIsReadable == answer.owed /\ ~answer.spent => answer.got = answer.asked

\* Such a frame is found whatever was read before: seek() clears the stream of
\* what failed in earlier operations.
ReadingRecovers == answer.owed => answer.got = answer.asked
==============================================================================
