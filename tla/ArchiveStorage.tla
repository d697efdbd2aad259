---------------------------- MODULE ArchiveStorage ----------------------------
(***************************************************************************)
(* The archive of one session on disk: ArchiveManager, one ArchiveWriter   *)
(* and ArchiveFile per frequency, and the description written beside them. *)
(* The main thread creates and closes the files, the worker writes to them *)
(* in between; the program may die at any moment.                          *)
(*                                                                         *)
(* A file is a std::fstream: what it accepted reaches the disk later, some *)
(* prefix of it at a time, and one that has failed accepts nothing more.   *)
(* A record is the number of its frame.  The part of a record that a       *)
(* failed write may leave at the end of a file is not counted as one: no   *)
(* reader can take it for a record.                                        *)
(***************************************************************************)
EXTENDS Integers, Sequences

CONSTANTS
  FileCount,    (* files of the archive, in the order they are written     *)
  Period,       (* ArchiveTarget::periodFrames of each                     *)
  MaxFrame      (* bound: the last frame number                            *)

Files == 1..FileCount

ASSUME ArchiveAssumption ==
  /\ FileCount \in Nat \ {0}
  /\ Period \in [Files -> Nat \ {0}]
  /\ MaxFrame \in Nat

VARIABLES
  \* ServerController::initializeArchive, ArchiveManager
  phase,      (* what is being done to the archive                         *)
  cursor,     (* the target the loop of that has reached                   *)
  frame,      (* number of the frame being written, or to be written next  *)
  \* one ArchiveFile per target
  stream,     (* m_stream: "closed", "good" or "failed"                    *)
  count,      (* m_header.recordCount                                      *)
  accepted,   (* the records the stream has accepted                       *)
  \* the disk
  flushed,    (* how many of them are on disk                              *)
  header,     (* recordCount of the header on disk, or NoHeader            *)
  described,  (* description.json is on disk                               *)
  \* history
  clean       (* no frame was skipped and no operation failed so far       *)

managerVars == <<phase, cursor, frame>>
fileVars    == <<stream, count, accepted>>
diskVars    == <<flushed, header, described>>
storageVars == <<managerVars, fileVars, diskVars, clean>>

NoHeader == -1

Phases == {"none", "creating", "describing", "open", "writing", "closing", "closed", "dead"}
StreamStates == {"closed", "good", "failed"}

-----------------------------------------------------------------------------
\* ArchiveFile::create flushes the header it has written.
HeaderAfterCreate_Buffered(f) == header[f]
HeaderAfterCreate(f) == 0

\* write() gives a frame to the targets whose period divides its number.
Due_Shifted(f, n) == (n + 1) % Period[f] = 0
Due(f, n) == n % Period[f] = 0

\* The loops over the targets end with the last of them.
LastTarget_Beyond == cursor > FileCount
LastTarget == cursor = FileCount

\* saveHeader() writes nothing to a stream that has failed.
SavesHeader(f) == stream[f] = "good"

\* A header is saved only behind the records: moving to it flushes them.
FlushedBeforeHeader_Unmoved(f) == flushed[f]
FlushedBeforeHeader(f) == IF stream[f] = "good" THEN Len(accepted[f]) ELSE flushed[f]

-----------------------------------------------------------------------------
StorageInit ==
  /\ phase = "none" /\ cursor = 1 /\ frame = 0
  /\ stream = [f \in Files |-> "closed"]
  /\ count = [f \in Files |-> 0]
  /\ accepted = [f \in Files |-> <<>>]
  /\ flushed = [f \in Files |-> 0]
  /\ header = [f \in Files |-> NoHeader]
  /\ described = FALSE /\ clean = TRUE

\* initializeArchive() of a new directory, up to ArchiveManager::initialize.
BeginArchive ==
  /\ phase = "none"
  /\ phase' = "creating"
  /\ UNCHANGED <<cursor, frame, fileVars, diskVars, clean>>

\* ArchiveWriter::open of one target; when one cannot be created, or is not
\* valid, those before it are closed.
CreateFile ==
  /\ phase = "creating"
  /\ \/ /\ stream' = [stream EXCEPT ![cursor] = "good"]
        /\ header' = [header EXCEPT ![cursor] = HeaderAfterCreate(cursor)]
        /\ IF LastTarget
           THEN phase' = "describing" /\ cursor' = 1
           ELSE phase' = phase /\ cursor' = cursor + 1
        /\ UNCHANGED clean
     \/ /\ phase' = "closing" /\ cursor' = 1 /\ clean' = FALSE
        /\ UNCHANGED <<stream, header>>
  /\ UNCHANGED <<frame, count, accepted, flushed, described>>

\* ArchiveDescriptionWriter::write.  What it counts as written is buffered, so
\* that a failure may also go unseen.
WriteDescription ==
  /\ phase = "describing"
  /\ \/ described' = TRUE /\ phase' = "open" /\ UNCHANGED clean
     \/ described' = FALSE /\ phase' \in {"open", "closing"} /\ clean' = FALSE
  /\ UNCHANGED <<cursor, frame, fileVars, flushed, header>>

-----------------------------------------------------------------------------
(* The worker. *)

\* A frame whose calculation failed has used up its number.
SkipFrame ==
  /\ phase = "open" /\ frame < MaxFrame
  /\ frame' = frame + 1 /\ clean' = FALSE
  /\ UNCHANGED <<phase, cursor, fileVars, diskVars>>

\* ArchiveManager::write is called for the next frame.
BeginFrame ==
  /\ phase = "open" /\ frame < MaxFrame
  /\ phase' = "writing" /\ cursor' = 1
  /\ UNCHANGED <<frame, fileVars, diskVars, clean>>

FrameDone == phase' = "open" /\ cursor' = 1 /\ frame' = frame + 1

NextTarget ==
  IF LastTarget THEN FrameDone
  ELSE cursor' = cursor + 1 /\ UNCHANGED <<phase, frame>>

\* One pass of the loop of write(): ArchiveWriter::write of a target that is
\* due.  The frame is given up at the first target that fails.
WriteTarget ==
  /\ phase = "writing"
  /\ \/ /\ ~Due(cursor, frame)
        /\ NextTarget /\ UNCHANGED <<fileVars, clean>>
     \/ /\ Due(cursor, frame) /\ stream[cursor] = "good"
        /\ accepted' = [accepted EXCEPT ![cursor] = Append(@, frame)]
        /\ count' = [count EXCEPT ![cursor] = @ + 1]
        /\ NextTarget /\ UNCHANGED <<stream, clean>>
     \/ /\ Due(cursor, frame)
        /\ stream' = [stream EXCEPT ![cursor] = "failed"] /\ clean' = FALSE
        /\ FrameDone /\ UNCHANGED <<count, accepted>>
  /\ UNCHANGED diskVars

\* The stream writes out some of what it has accepted.
Spill(f) ==
  /\ stream[f] = "good"
  /\ \E n \in (flushed[f] + 1)..Len(accepted[f]) : flushed' = [flushed EXCEPT ![f] = n]
  /\ UNCHANGED <<managerVars, fileVars, header, described, clean>>

-----------------------------------------------------------------------------
(* The end. *)

\* ArchiveManager::close(), once the worker has been joined.
BeginClose ==
  /\ phase = "open"
  /\ phase' = "closing" /\ cursor' = 1
  /\ UNCHANGED <<frame, fileVars, diskVars, clean>>

\* ArchiveFile::close of one target: saveHeader, which first moves behind the
\* records, then the stream is closed.  Either may fail: some of the records are
\* lost then, or the header; and a stream that has failed may still put out some
\* of what it had accepted.
CloseFile ==
  /\ phase = "closing"
  /\ stream' = [stream EXCEPT ![cursor] = "closed"]
  /\ \/ /\ flushed' = [flushed EXCEPT ![cursor] = FlushedBeforeHeader(cursor)]
        /\ header' = IF stream[cursor] # "closed" /\ SavesHeader(cursor)
                     THEN [header EXCEPT ![cursor] = count[cursor]] ELSE header
        /\ UNCHANGED clean
     \/ /\ stream[cursor] # "closed"
        /\ \E n \in flushed[cursor]..Len(accepted[cursor]) :
             flushed' = [flushed EXCEPT ![cursor] = n]
        /\ clean' = FALSE /\ UNCHANGED header
  /\ IF LastTarget THEN phase' = "closed" /\ cursor' = 1
     ELSE phase' = phase /\ cursor' = cursor + 1
  /\ UNCHANGED <<frame, count, accepted, described>>

\* The program dies: what the streams have not written out is lost.
Crash ==
  /\ phase \notin {"none", "closed", "dead"}
  /\ phase' = "dead" /\ cursor' = 1 /\ clean' = FALSE
  /\ stream' = [f \in Files |-> "closed"]
  /\ UNCHANGED <<frame, count, accepted, diskVars>>

StorageNext ==
  \/ BeginArchive \/ CreateFile \/ WriteDescription
  \/ SkipFrame \/ BeginFrame \/ WriteTarget
  \/ \E f \in Files : Spill(f)
  \/ BeginClose \/ CloseFile \/ Crash

StorageSpec == StorageInit /\ [][StorageNext]_storageVars

-----------------------------------------------------------------------------
StorageTypeOK ==
  /\ phase \in Phases /\ cursor \in Files /\ frame \in Nat
  /\ stream \in [Files -> StreamStates]
  /\ count \in [Files -> Nat]
  /\ accepted \in [Files -> Seq(Nat)]
  /\ flushed \in [Files -> Nat]
  /\ header \in [Files -> Nat \cup {NoHeader}]
  /\ described \in BOOLEAN /\ clean \in BOOLEAN

\* An archive that a reader can open, because its description is there, has all
\* its files with their headers, even if the program died right after writing
\* the description.
DescribedFilesExist == described => \A f \in Files : header[f] # NoHeader

\* A header never counts records that are not on disk, whichever write failed
\* and whenever the program died.
HeaderCountsRecords ==
  \A f \in Files : header[f] # NoHeader => header[f] <= flushed[f]

\* An archive that was closed without a failure and without a gap holds every
\* frame of every file's frequency, where a reader looks for it.
CleanArchiveIsComplete ==
  phase = "closed" /\ clean =>
    \A f \in Files : \A n \in 0..(frame - 1) :
      n % Period[f] = 0 => /\ n \div Period[f] < header[f]
                           /\ accepted[f][n \div Period[f] + 1] = n
==============================================================================
