-------------------------- MODULE ArchiveReader_proofs --------------------------
(***************************************************************************)
(* For any number of files and any periods: headers never count records    *)
(* that are not on disk, a described archive has all its files, and an      *)
(* archive closed without a failure is read back frame by frame.            *)
(***************************************************************************)
EXTENDS ArchiveReader, TLAPS

-----------------------------------------------------------------------------
(* The inductive invariant. *)

\* What a file has on disk is part of what it accepted, and its header counts
\* no more than that.
DiskBehindStream ==
  \A f \in Files :
    /\ count[f] = Len(accepted[f])
    /\ flushed[f] <= Len(accepted[f])
    /\ header[f] # NoHeader => header[f] <= flushed[f]

\* Files are created in order, and all of them before the description.
CreatedInOrder ==
  /\ phase = "none" => cursor = 1
  /\ phase = "creating" => \A f \in Files : f < cursor => header[f] # NoHeader
  /\ phase \in {"describing", "open", "writing"} =>
       \A f \in Files : header[f] # NoHeader
  /\ described => \A f \in Files : header[f] # NoHeader

\* A file has the records of its frames below m, and no others.
RecordsUpTo(f, m) ==
  /\ \A i \in 1..Len(accepted[f]) : accepted[f][i] = (i - 1) * Period[f]
  /\ (Len(accepted[f]) - 1) * Period[f] < m
  /\ m <= Len(accepted[f]) * Period[f]

\* The number below which a file has its records: the loop over the targets
\* has given the files before the cursor the frame being written.
Reached(f) == IF phase = "writing" /\ f < cursor THEN frame + 1 ELSE frame

\* While nothing failed and no frame was skipped, no record is missing.
CleanRecords == clean => \A f \in Files : RecordsUpTo(f, Reached(f))

\* While nothing failed, every file that is to be closed is good, and every file
\* that has been closed has all its records in its header.
CleanStreams ==
  clean =>
    /\ phase = "creating" => \A f \in Files : f < cursor => stream[f] = "good"
    /\ phase \in {"describing", "open", "writing"} =>
         \A f \in Files : stream[f] = "good"
    /\ phase = "closing" => \A f \in Files :
         IF f < cursor THEN header[f] = Len(accepted[f]) ELSE stream[f] = "good"
    /\ phase = "closed" => \A f \in Files : header[f] = Len(accepted[f])

IInv ==
  /\ TypeOK
  /\ DiskBehindStream
  /\ CreatedInOrder
  /\ CleanRecords
  /\ CleanStreams
  /\ ClosedArchiveIsReadable

-----------------------------------------------------------------------------
(* Arithmetic of the grid. *)

\* Multiples of a period are in the order of their factors.
LEMMA MultiplesInOrder ==
  ASSUME NEW p \in Nat \ {0}, NEW a \in Int, NEW b \in Int
  PROVE  /\ a * p < b * p => a < b
         /\ a * p <= b * p => a <= b
  BY SMT

\* A multiple of the period has a factor.
LEMMA FactorOf ==
  ASSUME NEW p \in Nat \ {0}, NEW n \in Nat, n % p = 0
  PROVE  /\ n \div p \in Nat
         /\ n = (n \div p) * p
  BY SMT

\* A product has no remainder.
LEMMA NoRemainder ==
  ASSUME NEW p \in Nat \ {0}, NEW k \in Nat
  PROVE  (k * p) % p = 0
  BY SMT

\* A multiple of the period that the records have reached, and no more, is the
\* frame of the next record.
LEMMA NextOnGrid ==
  ASSUME NEW p \in Nat \ {0}, NEW m \in Nat, NEW k \in Nat,
         m % p = 0, (k - 1) * p < m, m <= k * p
  PROVE  m = k * p
<1>1. PICK q \in Nat : m = q * p
  BY FactorOf
<1>2. (k - 1) * p < q * p => k - 1 < q
  BY MultiplesInOrder
<1>3. q * p <= k * p => q <= k
  BY MultiplesInOrder
<1>4. k - 1 < q /\ q <= k
  BY <1>1, <1>2, <1>3
<1> QED
  BY <1>1, <1>4

\* The file numbers, as the prover needs them.
LEMMA Constants ==
  /\ 1 \in Files /\ MaxFrame \in Nat
  /\ \A f \in Files : f \in Nat /\ 1 <= f /\ f <= FileCount /\ Period[f] \in Nat \ {0}
  /\ \A f \in Files : f # FileCount => f + 1 \in Files
BY ArchiveAssumption DEF Files

-----------------------------------------------------------------------------
(* A step keeps every part. *)

\* The writer's step keeps the types.
LEMMA StorageTypesKept ==
  ASSUME StorageTypeOK, StorageNext
  PROVE  StorageTypeOK'
<1>a. /\ phase \in Phases /\ cursor \in Files /\ frame \in Nat
      /\ stream \in [Files -> StreamStates] /\ count \in [Files -> Nat]
      /\ accepted \in [Files -> Seq(Nat)] /\ flushed \in [Files -> Nat]
      /\ header \in [Files -> Nat \cup {NoHeader}]
      /\ described \in BOOLEAN /\ clean \in BOOLEAN
  BY DEF StorageTypeOK
<1>b. /\ frame + 1 \in Nat /\ 1 \in Files
      /\ cursor # FileCount => cursor + 1 \in Files
  BY <1>a, Constants
<1>1. CASE BeginArchive
  BY <1>1, <1>a DEF BeginArchive, StorageTypeOK, fileVars, diskVars, Phases
<1>2. CASE SkipFrame
  BY <1>2, <1>a, <1>b DEF SkipFrame, StorageTypeOK, fileVars, diskVars
<1>3. CASE BeginFrame \/ BeginClose
  BY <1>3, <1>a, <1>b DEF BeginFrame, BeginClose, StorageTypeOK, fileVars, diskVars, Phases
<1>4. CASE CreateFile
  <2>1. phase' \in Phases /\ cursor' \in Files /\ clean' \in BOOLEAN
    BY <1>4, <1>a, <1>b DEF CreateFile, LastTarget, Phases
  <2>2. stream' \in [Files -> StreamStates] /\ header' \in [Files -> Nat \cup {NoHeader}]
    <3>1. CASE UNCHANGED <<stream, header>>
      BY <3>1, <1>a
    <3>2. CASE /\ stream' = [stream EXCEPT ![cursor] = "good"]
               /\ header' = [header EXCEPT ![cursor] = 0]
      <4>1. stream' \in [Files -> StreamStates]
        BY <3>2, <1>a DEF StreamStates
      <4>2. header' \in [Files -> Nat \cup {NoHeader}]
        BY <3>2, <1>a
      <4> QED
        BY <4>1, <4>2
    <3> QED
      BY <1>4, <3>1, <3>2 DEF CreateFile, HeaderAfterCreate
  <2> QED
    BY <1>4, <1>a, <2>1, <2>2 DEF CreateFile, StorageTypeOK
<1>5. CASE WriteDescription
  BY <1>5, <1>a DEF WriteDescription, StorageTypeOK, fileVars, Phases
<1>6. CASE WriteTarget
  <2>1. cursor' \in Files /\ phase' \in Phases /\ frame' \in Nat /\ clean' \in BOOLEAN
    BY <1>6, <1>a, <1>b DEF WriteTarget, NextTarget, FrameDone, LastTarget, Phases
  <2>2. stream' \in [Files -> StreamStates]
    BY <1>6, <1>a DEF WriteTarget, fileVars, StreamStates
  <2>3. count' \in [Files -> Nat]
    BY <1>6, <1>a DEF WriteTarget, fileVars
  <2>4. accepted' \in [Files -> Seq(Nat)]
    <3>1. Append(accepted[cursor], frame) \in Seq(Nat)
      BY <1>a
    <3> QED
      BY <1>6, <1>a, <3>1 DEF WriteTarget, fileVars
  <2> QED
    BY <1>6, <1>a, <2>1, <2>2, <2>3, <2>4 DEF WriteTarget, StorageTypeOK, diskVars
<1>7. CASE \E f \in Files : Spill(f)
  <2>1. PICK f \in Files : Spill(f)
    BY <1>7
  <2>2. PICK n \in (flushed[f] + 1)..Len(accepted[f]) : flushed' = [flushed EXCEPT ![f] = n]
    BY <2>1 DEF Spill
  <2>3. n \in Nat
    BY <1>a, <2>2
  <2>4. flushed' \in [Files -> Nat]
    BY <1>a, <2>2, <2>3
  <2> QED
    BY <2>1, <2>4, <1>a DEF Spill, StorageTypeOK, managerVars, fileVars
<1>8. CASE CloseFile
  <2>1. cursor' \in Files /\ phase' \in Phases /\ clean' \in BOOLEAN
    BY <1>8, <1>a, <1>b DEF CloseFile, LastTarget, Phases
  <2>2. stream' \in [Files -> StreamStates]
    BY <1>8, <1>a DEF CloseFile, StreamStates
  <2>3. Len(accepted[cursor]) \in Nat /\ flushed[cursor] \in Nat /\ count[cursor] \in Nat
    BY <1>a
  <2>4. flushed' \in [Files -> Nat]
    <3>1. PICK n \in Nat : flushed' = [flushed EXCEPT ![cursor] = n]
      BY <1>8, <2>3 DEF CloseFile, FlushedBeforeHeader
    <3> QED
      BY <1>a, <3>1
  <2>5. header' \in [Files -> Nat \cup {NoHeader}]
    <3>1. header' = header \/ header' = [header EXCEPT ![cursor] = count[cursor]]
      BY <1>8 DEF CloseFile
    <3> QED
      BY <1>a, <2>3, <3>1
  <2> QED
    BY <1>8, <1>a, <2>1, <2>2, <2>4, <2>5 DEF CloseFile, StorageTypeOK
<1>9. CASE Crash
  BY <1>9, <1>a, <1>b DEF Crash, StorageTypeOK, diskVars, Phases, StreamStates
<1> QED
  BY <1>1, <1>2, <1>3, <1>4, <1>5, <1>6, <1>7, <1>8, <1>9 DEF StorageNext

\* The stream and the disk stay in step: records reach the disk in their order,
\* a header only behind them.
LEMMA DiskKept ==
  ASSUME StorageTypeOK, DiskBehindStream, StorageNext
  PROVE  DiskBehindStream'
<1>a. /\ cursor \in Files
      /\ count \in [Files -> Nat]
      /\ accepted \in [Files -> Seq(Nat)] /\ flushed \in [Files -> Nat]
      /\ header \in [Files -> Nat \cup {NoHeader}]
      /\ \A f \in Files : Len(accepted[f]) \in Nat
  BY DEF StorageTypeOK
<1>1. CASE UNCHANGED <<count, accepted, flushed, header>>
  BY <1>1 DEF DiskBehindStream
<1>2. CASE CreateFile
  BY <1>2, <1>a DEF CreateFile, HeaderAfterCreate, DiskBehindStream, fileVars, diskVars
<1>3. CASE WriteTarget
  <2>1. CASE UNCHANGED <<count, accepted>>
    BY <1>3, <2>1 DEF WriteTarget, diskVars, DiskBehindStream
  <2>2. CASE /\ accepted' = [accepted EXCEPT ![cursor] = Append(@, frame)]
             /\ count' = [count EXCEPT ![cursor] = @ + 1]
    <3>1. Len(Append(accepted[cursor], frame)) = Len(accepted[cursor]) + 1
      BY <1>a
    <3>2. /\ accepted'[cursor] = Append(accepted[cursor], frame)
          /\ count'[cursor] = count[cursor] + 1
          /\ \A f \in Files \ {cursor} : accepted'[f] = accepted[f] /\ count'[f] = count[f]
      BY <1>a, <2>2
    <3>3. flushed' = flushed /\ header' = header
      BY <1>3 DEF WriteTarget, diskVars
    <3>4. /\ count[cursor] = Len(accepted[cursor])
          /\ flushed[cursor] <= Len(accepted[cursor])
          /\ header[cursor] # NoHeader => header[cursor] <= flushed[cursor]
      BY <1>a DEF DiskBehindStream
    <3>5. /\ count'[cursor] = Len(accepted'[cursor])
          /\ flushed'[cursor] <= Len(accepted'[cursor])
          /\ header'[cursor] # NoHeader => header'[cursor] <= flushed'[cursor]
      <4>1. Len(accepted[cursor]) \in Nat /\ flushed[cursor] \in Nat
        BY <1>a
      <4> QED
        BY <3>1, <3>2, <3>3, <3>4, <4>1
    <3>6. \A f \in Files \ {cursor} :
             /\ count'[f] = Len(accepted'[f])
             /\ flushed'[f] <= Len(accepted'[f])
             /\ header'[f] # NoHeader => header'[f] <= flushed'[f]
      BY <3>2, <3>3 DEF DiskBehindStream
    <3> QED
      BY <3>5, <3>6 DEF DiskBehindStream
  <2> QED
    BY <1>3, <2>1, <2>2 DEF WriteTarget, fileVars
<1>4. CASE \E f \in Files : Spill(f)
  <2>1. PICK f \in Files : Spill(f)
    BY <1>4
  <2>2. PICK n \in (flushed[f] + 1)..Len(accepted[f]) : flushed' = [flushed EXCEPT ![f] = n]
    BY <2>1 DEF Spill
  <2> QED
    BY <2>1, <2>2, <1>a DEF Spill, DiskBehindStream, fileVars, NoHeader
<1>5. CASE CloseFile
  <2>1. PICK n \in flushed[cursor]..Len(accepted[cursor]) :
          /\ flushed' = [flushed EXCEPT ![cursor] = n]
          /\ \/ header' = header
             \/ /\ n = Len(accepted[cursor])
                /\ header' = [header EXCEPT ![cursor] = count[cursor]]
    <3>1. /\ FlushedBeforeHeader(cursor) \in flushed[cursor]..Len(accepted[cursor])
          /\ SavesHeader(cursor) => FlushedBeforeHeader(cursor) = Len(accepted[cursor])
      BY <1>a DEF FlushedBeforeHeader, SavesHeader, DiskBehindStream
    <3> QED
      BY <1>5, <3>1 DEF CloseFile
  <2>2. count' = count /\ accepted' = accepted
    BY <1>5 DEF CloseFile
  <2> QED
    BY <1>a, <2>1, <2>2 DEF DiskBehindStream, NoHeader
<1> QED
  BY <1>1, <1>2, <1>3, <1>4, <1>5
  DEF StorageNext, BeginArchive, WriteDescription, SkipFrame, BeginFrame, BeginClose, Crash,
      fileVars, diskVars

\* A file once created keeps a header, and the description comes last.
LEMMA CreatedKept ==
  ASSUME StorageTypeOK, CreatedInOrder, StorageNext
  PROVE  CreatedInOrder'
<1>a. /\ cursor \in Files /\ count \in [Files -> Nat]
      /\ header \in [Files -> Nat \cup {NoHeader}]
  BY DEF StorageTypeOK
<1>1. \A f \in Files : header[f] # NoHeader => header'[f] # NoHeader
  <2>1. CASE header' = header
    BY <2>1
  <2>2. CASE CreateFile
    BY <2>2, <1>a DEF CreateFile, HeaderAfterCreate, NoHeader
  <2>3. CASE CloseFile
    BY <2>3, <1>a DEF CloseFile, NoHeader
  <2> QED
    BY <2>1, <2>2, <2>3
    DEF StorageNext, BeginArchive, WriteDescription, SkipFrame, BeginFrame, WriteTarget, Spill,
        BeginClose, Crash, diskVars
<1>2. described' /\ ~described => phase = "describing"
  BY DEF StorageNext, BeginArchive, CreateFile, WriteDescription, SkipFrame, BeginFrame,
         WriteTarget, Spill, BeginClose, CloseFile, Crash, diskVars
<1>3. described' => \A f \in Files : header'[f] # NoHeader
  BY <1>1, <1>2 DEF CreatedInOrder
<1>4. CASE BeginArchive
  <2>1. \A f \in Files : ~(f < cursor')
    BY <1>4, Constants DEF BeginArchive, CreatedInOrder
  <2> QED
    BY <1>4, <1>3, <2>1 DEF BeginArchive, CreatedInOrder
<1>5. CASE CreateFile
  <2>1. CASE phase' = "closing"
    BY <2>1, <1>3 DEF CreatedInOrder
  <2>2. CASE header' = [header EXCEPT ![cursor] = 0]
    <3>1. header'[cursor] # NoHeader
      BY <2>2, <1>a DEF NoHeader
    <3>2. \A f \in Files : f < cursor => header'[f] # NoHeader
      BY <1>5, <1>1 DEF CreateFile, CreatedInOrder
    <3>3. \A f \in Files : f < cursor + 1 => header'[f] # NoHeader
      BY <3>1, <3>2, <1>a, Constants
    <3>4. LastTarget => \A f \in Files : header'[f] # NoHeader
      BY <3>3, <1>a, Constants DEF LastTarget
    <3> QED
      BY <1>5, <1>3, <3>3, <3>4 DEF CreateFile, CreatedInOrder
  <2> QED
    BY <1>5, <2>1, <2>2 DEF CreateFile, HeaderAfterCreate
<1>6. CASE phase \in {"describing", "open", "writing"} /\ phase' \notin {"none", "creating"}
  BY <1>6, <1>1, <1>3 DEF CreatedInOrder
<1>7. CASE phase' \notin {"none", "creating", "describing", "open", "writing"}
  BY <1>7, <1>3 DEF CreatedInOrder
<1>8. CASE \E f \in Files : Spill(f)
  BY <1>8, <1>1, <1>3 DEF Spill, CreatedInOrder, managerVars
<1> QED
  BY <1>4, <1>5, <1>6, <1>7, <1>8
  DEF StorageNext, WriteDescription, SkipFrame, BeginFrame, WriteTarget, NextTarget, FrameDone,
      BeginClose, CloseFile, Crash

\* A file that gets its frame, or is not due one, has its records one further.
LEMMA NextFrameRecorded ==
  ASSUME NEW f \in Files, NEW s \in Seq(Nat), NEW p \in Nat \ {0}, NEW m \in Nat,
         \A i \in 1..Len(s) : s[i] = (i - 1) * p,
         (Len(s) - 1) * p < m, m <= Len(s) * p
  PROVE  /\ m % p # 0 => m + 1 <= Len(s) * p
         /\ m % p = 0 => /\ m = Len(s) * p
                         /\ \A i \in 1..Len(Append(s, m)) : Append(s, m)[i] = (i - 1) * p
                         /\ (Len(Append(s, m)) - 1) * p < m + 1
                         /\ m + 1 <= Len(Append(s, m)) * p
<1>a. /\ Len(s) \in Nat /\ Len(s) - 1 \in Int
      /\ Len(Append(s, m)) = Len(s) + 1
      /\ Append(s, m)[Len(s) + 1] = m
      /\ \A i \in 1..Len(s) : Append(s, m)[i] = s[i]
  OBVIOUS
<1>b. Len(s) * p \in Nat /\ (Len(s) + 1) * p = Len(s) * p + p
  BY <1>a
<1>1. ASSUME m % p # 0 PROVE m # Len(s) * p
  <2>1. (Len(s) * p) % p = 0
    BY <1>a, NoRemainder
  <2> QED
    BY <1>1, <2>1
<1>2. ASSUME m % p = 0 PROVE m = Len(s) * p
  BY <1>a, <1>2, NextOnGrid
<1>3. ASSUME m % p = 0
      PROVE  /\ \A i \in 1..Len(Append(s, m)) : Append(s, m)[i] = (i - 1) * p
             /\ (Len(Append(s, m)) - 1) * p < m + 1
             /\ m + 1 <= Len(Append(s, m)) * p
  <2>1. m = Len(s) * p
    BY <1>2, <1>3
  <2>2. ASSUME NEW i \in 1..(Len(s) + 1) PROVE Append(s, m)[i] = (i - 1) * p
    <3>1. CASE i \in 1..Len(s)
      BY <3>1, <1>a
    <3>2. CASE i = Len(s) + 1
      <4>1. i - 1 = Len(s)
        BY <3>2, <1>a
      <4> QED
        BY <3>2, <4>1, <1>a, <2>1
    <3> QED
      BY <3>1, <3>2, <1>a
  <2>3. Len(s) * p < m + 1 /\ m + 1 <= (Len(s) + 1) * p
    BY <1>b, <2>1
  <2>4. Len(Append(s, m)) - 1 = Len(s)
    BY <1>a
  <2> QED
    BY <1>a, <2>2, <2>3, <2>4
<1> QED
  BY <1>1, <1>2, <1>3, <1>b

\* Nothing becomes clean again.
LEMMA CleanBefore ==
  ASSUME StorageNext, clean'
  PROVE  clean
BY DEF StorageNext, BeginArchive, CreateFile, WriteDescription, SkipFrame, BeginFrame,
       WriteTarget, Spill, BeginClose, CloseFile, Crash

\* A frame that is written goes to every file that is due.
LEMMA CleanRecordsKept ==
  ASSUME StorageTypeOK, CleanRecords, StorageNext
  PROVE  CleanRecords'
<1> SUFFICES ASSUME clean', NEW f \in Files
             PROVE  RecordsUpTo(f, Reached(f))'
  BY DEF CleanRecords
<1>a. /\ cursor \in Files /\ frame \in Nat /\ clean \in BOOLEAN
      /\ accepted \in [Files -> Seq(Nat)]
      /\ f \in Nat /\ cursor \in Nat /\ f <= FileCount /\ 1 <= f
      /\ Period[f] \in Nat \ {0}
  BY Constants DEF StorageTypeOK
<1>b. clean /\ RecordsUpTo(f, Reached(f))
  BY CleanBefore DEF CleanRecords
<1>1. CASE accepted' = accepted /\ Reached(f)' = Reached(f)
  BY <1>1, <1>b DEF RecordsUpTo
<1>2. CASE WriteTarget
  <2>1. \/ ~Due(cursor, frame) /\ accepted' = accepted
        \/ Due(cursor, frame) /\ accepted' = [accepted EXCEPT ![cursor] = Append(@, frame)]
    BY <1>2 DEF WriteTarget, fileVars
  <2>2. \/ phase' = "open" /\ frame' = frame + 1 /\ cursor = FileCount
        \/ phase' = "writing" /\ frame' = frame /\ cursor' = cursor + 1
    BY <1>2 DEF WriteTarget, NextTarget, FrameDone, LastTarget
  <2>3. CASE f # cursor
    <3>1. Reached(f)' = Reached(f)
      BY <1>2, <1>a, <2>2, <2>3 DEF WriteTarget, Reached
    <3>2. accepted'[f] = accepted[f]
      BY <1>a, <2>1, <2>3
    <3> QED
      BY <1>b, <3>1, <3>2 DEF RecordsUpTo
  <2>4. CASE f = cursor
    <3>1. Reached(f) = frame /\ Reached(f)' = frame + 1
      BY <1>2, <1>a, <2>2, <2>4 DEF WriteTarget, Reached
    <3>2. /\ \A i \in 1..Len(accepted[f]) : accepted[f][i] = (i - 1) * Period[f]
          /\ (Len(accepted[f]) - 1) * Period[f] < frame
          /\ frame <= Len(accepted[f]) * Period[f]
      BY <1>b, <3>1 DEF RecordsUpTo
    <3>3. accepted[f] \in Seq(Nat)
      BY <1>a
    <3>4. CASE ~Due(cursor, frame) /\ accepted' = accepted
      <4>1. frame + 1 <= Len(accepted[f]) * Period[f]
        BY <1>a, <2>4, <3>2, <3>3, <3>4, NextFrameRecorded DEF Due
      <4>2. (Len(accepted[f]) - 1) * Period[f] < frame + 1
        <5>1. (Len(accepted[f]) - 1) * Period[f] \in Int
          BY <1>a, <3>3
        <5> QED
          BY <5>1, <1>a, <3>2
      <4> QED
        BY <3>1, <3>2, <3>4, <4>1, <4>2 DEF RecordsUpTo
    <3>5. CASE Due(cursor, frame) /\ accepted' = [accepted EXCEPT ![cursor] = Append(@, frame)]
      <4>1. accepted'[f] = Append(accepted[f], frame)
        BY <1>a, <2>4, <3>5
      <4>2. /\ \A i \in 1..Len(Append(accepted[f], frame)) :
                  Append(accepted[f], frame)[i] = (i - 1) * Period[f]
            /\ (Len(Append(accepted[f], frame)) - 1) * Period[f] < frame + 1
            /\ frame + 1 <= Len(Append(accepted[f], frame)) * Period[f]
        <5>1. frame % Period[f] = 0 /\ frame \in Nat /\ Period[f] \in Nat \ {0}
          BY <1>a, <2>4, <3>5 DEF Due
        <5> DEFINE s == accepted[f]
                   p == Period[f]
        <5>2. /\ s \in Seq(Nat) /\ p \in Nat \ {0} /\ frame % p = 0
              /\ \A i \in 1..Len(s) : s[i] = (i - 1) * p
              /\ (Len(s) - 1) * p < frame /\ frame <= Len(s) * p
          BY <3>2, <3>3, <5>1
        <5> HIDE DEF s, p
        <5>3. /\ \A i \in 1..Len(Append(s, frame)) : Append(s, frame)[i] = (i - 1) * p
              /\ (Len(Append(s, frame)) - 1) * p < frame + 1
              /\ frame + 1 <= Len(Append(s, frame)) * p
          BY <5>1, <5>2, NextFrameRecorded
        <5> QED
          BY <5>3 DEF s, p
      <4> QED
        BY <3>1, <4>1, <4>2 DEF RecordsUpTo
    <3> QED
      BY <2>1, <3>4, <3>5
  <2> QED
    BY <2>3, <2>4
<1>3. CASE \E g \in Files : Spill(g)
  BY <1>1, <1>3 DEF Spill, managerVars, fileVars, Reached
<1>4. CASE BeginArchive \/ BeginClose
  BY <1>1, <1>4 DEF BeginArchive, BeginClose, fileVars, Reached
<1>6. CASE BeginFrame
  <2>1. phase = "open" /\ cursor' = 1 /\ frame' = frame /\ accepted' = accepted
    BY <1>6 DEF BeginFrame, fileVars
  <2>2. ~(f < cursor')
    BY <1>a, <2>1
  <2> QED
    BY <1>1, <2>1, <2>2 DEF Reached
<1>5. CASE CreateFile \/ WriteDescription \/ CloseFile
  BY <1>1, <1>5 DEF CreateFile, WriteDescription, CloseFile, fileVars, Reached
<1> QED
  BY <1>2, <1>3, <1>4, <1>5, <1>6 DEF StorageNext, SkipFrame, Crash

\* A clean archive is closed file by file with all its records in the headers.
LEMMA CleanStreamsKept ==
  ASSUME StorageTypeOK, DiskBehindStream, CreatedInOrder, CleanStreams, StorageNext
  PROVE  CleanStreams'
<1> SUFFICES ASSUME clean' PROVE CleanStreams'
  BY DEF CleanStreams
<1>a. /\ cursor \in Files /\ stream \in [Files -> StreamStates]
      /\ header \in [Files -> Nat \cup {NoHeader}]
      /\ \A f \in Files : f \in Nat /\ 1 <= f /\ f <= FileCount
  BY Constants DEF StorageTypeOK
<1>b. clean
  BY CleanBefore
<1>1. CASE BeginArchive
  <2>1. cursor' = 1 /\ phase' = "creating"
    BY <1>1 DEF BeginArchive, CreatedInOrder
  <2> QED
    BY <1>a, <2>1 DEF CleanStreams
<1>2. CASE CreateFile
  <2>1. stream' = [stream EXCEPT ![cursor] = "good"]
    BY <1>2 DEF CreateFile
  <2>2. \A f \in Files : f < cursor => stream[f] = "good"
    BY <1>2, <1>b DEF CreateFile, CleanStreams
  <2>3. \A f \in Files : f < cursor + 1 => stream'[f] = "good"
    BY <1>a, <2>1, <2>2
  <2>4. LastTarget => \A f \in Files : stream'[f] = "good"
    BY <1>a, <2>3 DEF LastTarget
  <2>5. \/ phase' = "describing" /\ LastTarget
        \/ phase' = "creating" /\ cursor' = cursor + 1
    BY <1>2 DEF CreateFile
  <2> QED
    BY <2>3, <2>4, <2>5 DEF CleanStreams
<1>3. CASE WriteDescription \/ BeginFrame \/ WriteTarget
  <2>1. stream' = stream /\ phase \in {"describing", "open", "writing"} /\ phase' \in {"open", "writing"}
    BY <1>3 DEF WriteDescription, BeginFrame, WriteTarget, NextTarget, FrameDone, fileVars
  <2> QED
    BY <1>b, <2>1 DEF CleanStreams
<1>4. CASE \E f \in Files : Spill(f)
  BY <1>4, <1>b DEF Spill, CleanStreams, managerVars, fileVars
<1>5. CASE BeginClose
  <2>1. /\ \A f \in Files : stream'[f] = "good" /\ ~(f < cursor')
        /\ phase' = "closing"
    BY <1>5, <1>a, <1>b DEF BeginClose, CleanStreams, fileVars
  <2> QED
    BY <2>1 DEF CleanStreams
<1>6. CASE CloseFile
  <2>1. /\ \A f \in Files : IF f < cursor THEN header[f] = Len(accepted[f]) ELSE stream[f] = "good"
        /\ count[cursor] = Len(accepted[cursor])
    BY <1>6, <1>a, <1>b DEF CloseFile, CleanStreams, DiskBehindStream
  <2>2. stream[cursor] = "good"
    BY <1>a, <2>1
  <2>3. header' = [header EXCEPT ![cursor] = count[cursor]]
    BY <1>6, <2>2 DEF CloseFile, SavesHeader
  <2>4. stream' = [stream EXCEPT ![cursor] = "closed"] /\ accepted' = accepted
    BY <1>6 DEF CloseFile
  <2>5. \A f \in Files :
           IF f < cursor + 1 THEN header'[f] = Len(accepted'[f]) ELSE stream'[f] = "good"
    BY <1>a, <2>1, <2>3, <2>4
  <2>6. LastTarget => \A f \in Files : header'[f] = Len(accepted'[f])
    BY <1>a, <2>5 DEF LastTarget
  <2>7. \/ phase' = "closed" /\ LastTarget
        \/ phase' = "closing" /\ cursor' = cursor + 1
    BY <1>6 DEF CloseFile
  <2> QED
    BY <2>5, <2>6, <2>7 DEF CleanStreams
<1> QED
  BY <1>1, <1>2, <1>3, <1>4, <1>5, <1>6 DEF StorageNext, SkipFrame, Crash

\* A clean archive is complete: the records of a file are the multiples of its
\* period, so that one below the last frame is found at its quotient.
LEMMA CleanComplete ==
  ASSUME IInv
  PROVE  CleanArchiveIsComplete
<1> SUFFICES ASSUME phase = "closed", clean, NEW f \in Files, NEW n \in 0..(frame - 1),
                    n % Period[f] = 0
             PROVE  n \div Period[f] < header[f] /\ accepted[f][n \div Period[f] + 1] = n
  BY DEF CleanArchiveIsComplete
<1> DEFINE q == n \div Period[f]
<1>1. /\ Period[f] \in Nat \ {0} /\ frame \in Nat /\ accepted[f] \in Seq(Nat) /\ n \in Nat
      /\ Len(accepted[f]) \in Nat
  BY Constants DEF IInv, TypeOK, StorageTypeOK
<1>2. q \in Nat /\ n = q * Period[f]
  BY <1>1, FactorOf
<1>3. /\ header[f] = Len(accepted[f])
      /\ \A i \in 1..Len(accepted[f]) : accepted[f][i] = (i - 1) * Period[f]
      /\ frame <= Len(accepted[f]) * Period[f]
  BY DEF IInv, CleanStreams, CleanRecords, RecordsUpTo, Reached
<1> HIDE DEF q
<1>4. q * Period[f] < Len(accepted[f]) * Period[f]
  <2>1. Len(accepted[f]) * Period[f] \in Nat
    BY <1>1
  <2> QED
    BY <1>1, <1>2, <1>3, <2>1
<1>5. q < Len(accepted[f])
  BY <1>1, <1>2, <1>4, MultiplesInOrder
<1>6. accepted[f][q + 1] = n
  <2>1. q + 1 \in 1..Len(accepted[f]) /\ (q + 1) - 1 = q
    BY <1>1, <1>2, <1>5
  <2> QED
    BY <1>2, <1>3, <2>1
<1> QED
  BY <1>3, <1>5, <1>6 DEF q

\* Where readFrame() looks for a frame that is owed, it is.
LEMMA OwedIsThere ==
  ASSUME IInv, NEW f \in Files, NEW n \in 0..MaxFrame, NEW r, Owed(f, r, n)
  PROVE  /\ RecordIndex(f, n) < r.count /\ RecordIndex(f, n) < flushed[f]
         /\ accepted[f][RecordIndex(f, n) + 1] = n
<1>1. /\ Period[f] \in Nat \ {0} /\ frame \in Nat /\ n \in Nat /\ flushed[f] \in Nat
      /\ header[f] \in Nat \cup {NoHeader}
  BY Constants DEF IInv, TypeOK, StorageTypeOK
<1>2. /\ phase = "closed" /\ clean /\ r.count = header[f] /\ n % Period[f] = 0 /\ n < frame
  BY DEF Owed
<1>3. n \in 0..(frame - 1)
  BY <1>1, <1>2
<1>4. n \div Period[f] < header[f] /\ accepted[f][n \div Period[f] + 1] = n
  BY <1>2, <1>3, CleanComplete DEF CleanArchiveIsComplete
<1>5. n \div Period[f] \in Nat
  BY <1>1, <1>2, FactorOf
<1>6. header[f] # NoHeader
  BY <1>4, <1>5 DEF NoHeader
<1>7. header[f] <= flushed[f]
  BY <1>6 DEF IInv, DiskBehindStream
<1> QED
  BY <1>1, <1>2, <1>4, <1>5, <1>6, <1>7 DEF RecordIndex

\* A file that the reader opens has a header.
LEMMA OpenedIsReader ==
  ASSUME TypeOK, NEW f \in Files, header[f] # NoHeader
  PROVE  Opened(f) \in FileReaders
BY DEF TypeOK, StorageTypeOK, Opened, FileReaders

\* So it is after read(), whether or not there was a record.
LEMMA AfterReadIsReader ==
  ASSUME NEW r \in FileReaders
  PROVE  /\ [r EXCEPT !.next = @ + 1] \in FileReaders
         /\ [r EXCEPT !.failed = TRUE] \in FileReaders
<1>1. r.next + 1 \in Nat
  BY DEF FileReaders
<1>2. [r EXCEPT !.next = @ + 1] \in FileReaders
  BY <1>1 DEF FileReaders
<1>3. [r EXCEPT !.failed = TRUE] \in FileReaders
  BY DEF FileReaders
<1> QED
  BY <1>2, <1>3

\* So it is after a seek.
LEMMA AfterSeekIsReader ==
  ASSUME NEW r \in FileReaders, NEW i \in Nat
  PROVE  AfterSeek(r, i) \in FileReaders
<1>1. [r EXCEPT !.next = i + 1] \in FileReaders
  BY DEF FileReaders
<1> QED
  BY <1>1 DEF FileReaders, AfterSeek

\* What readFrame() answers.
LEMMA ReadFrameKeeps ==
  ASSUME IInv, NEW f \in Files, NEW n \in 0..MaxFrame, ReadFrame(f, n)
  PROVE  /\ reading' \in [Files -> FileReaders]
         /\ answer' \in AnswersToReads
         /\ ClosedArchiveIsReadable'
<1> DEFINE r == Opened(f)
           i == RecordIndex(f, n)
           found == n % Period[f] = 0 /\ i < r.count /\ i < Size(f, r)
<1>1. r \in FileReaders
  BY OpenedIsReader DEF IInv, ReadFrame
<1>2. /\ Period[f] \in Nat \ {0} /\ n \in Nat /\ clean \in BOOLEAN
      /\ accepted[f] \in Seq(Nat) /\ flushed[f] \in Nat
      /\ reading \in [Files -> FileReaders]
  BY Constants DEF IInv, TypeOK, StorageTypeOK
<1>3. reading' \in [Files -> FileReaders]
  <2>1. AfterSeek(r, i) \in FileReaders \/ ~found
    <3>1. found => i \in Nat
      BY <1>2, FactorOf DEF RecordIndex
    <3> QED
      BY <1>1, <3>1, AfterSeekIsReader
  <2>2. \/ found /\ reading' = [reading EXCEPT ![f] = AfterSeek(r, i)]
        \/ reading' = [reading EXCEPT ![f] = r]
    BY DEF ReadFrame
  <2> QED
    BY <1>1, <1>2, <2>1, <2>2
<1>4. PICK got : /\ answer' = [asked |-> n, got |-> got, owed |-> Owed(f, r, n), spent |-> r.failed]
                 /\ got \in {n, NotFound}
                 /\ found /\ accepted[f][i + 1] = n => got = n
  BY DEF ReadFrame, IsTheFrame
<1>5. Owed(f, r, n) \in BOOLEAN /\ r.failed \in BOOLEAN
  BY <1>1 DEF Owed, FileReaders
<1>6. answer' \in AnswersToReads
  BY <1>2, <1>4, <1>5 DEF AnswersToReads
<1>7. Owed(f, r, n) /\ ~r.failed => found /\ accepted[f][i + 1] = n
  BY OwedIsThere DEF Size, Owed
<1>8. ClosedArchiveIsReadable'
  BY <1>4, <1>7 DEF ClosedArchiveIsReadable
<1> QED
  BY <1>3, <1>6, <1>8

\* A step of the reader keeps the types and answers rightly.
LEMMA ReaderKeeps ==
  ASSUME IInv, Next, UNCHANGED storageVars
  PROVE  TypeOK' /\ ClosedArchiveIsReadable'
<1>1. StorageTypeOK'
  BY DEF IInv, TypeOK, StorageTypeOK, storageVars, managerVars, fileVars, diskVars
<1>a. /\ open \in BOOLEAN /\ reading \in [Files -> FileReaders] /\ answer \in AnswersToReads
      /\ ClosedArchiveIsReadable /\ flushed \in [Files -> Nat]
  BY DEF IInv, TypeOK, StorageTypeOK
<1>2. CASE UNCHANGED readerVars
  BY <1>1, <1>2, <1>a DEF readerVars, TypeOK, ClosedArchiveIsReadable
<1>3. CASE OpenArchive \/ CloseArchive
  <2>1. NotRead \in FileReaders
    BY DEF NotRead, FileReaders
  <2>2. open' \in BOOLEAN /\ reading' \in [Files -> FileReaders] /\ answer' = answer
    BY <1>3, <2>1 DEF OpenArchive, CloseArchive
  <2> QED
    BY <1>1, <1>a, <2>2 DEF TypeOK, ClosedArchiveIsReadable
<1>4. CASE \E f \in Files : Read(f)
  <2>1. PICK f \in Files : Read(f)
    BY <1>4
  <2>2. Opened(f) \in FileReaders
    BY <2>1, OpenedIsReader DEF IInv, Read
  <2>3. /\ [Opened(f) EXCEPT !.next = @ + 1] \in FileReaders
        /\ [Opened(f) EXCEPT !.failed = TRUE] \in FileReaders
    BY <2>2, AfterReadIsReader
  <2>4. reading' \in [Files -> FileReaders] /\ open' = open /\ answer' = answer
    BY <1>a, <2>1, <2>3 DEF Read
  <2> QED
    BY <1>1, <1>a, <2>4 DEF TypeOK, ClosedArchiveIsReadable
<1>5. CASE \E f \in Files, n \in 0..MaxFrame : ReadFrame(f, n)
  <2>1. PICK f \in Files, n \in 0..MaxFrame : ReadFrame(f, n)
    BY <1>5
  <2>2. reading' \in [Files -> FileReaders] /\ answer' \in AnswersToReads /\ ClosedArchiveIsReadable'
    BY <2>1, ReadFrameKeeps
  <2> QED
    BY <1>1, <1>a, <2>1, <2>2 DEF TypeOK, ReadFrame
<1> QED
  BY <1>2, <1>3, <1>4, <1>5 DEF Next

-----------------------------------------------------------------------------
\* An archive that does not exist yet has all it claims.
LEMMA InitHolds == Init => IInv
<1> SUFFICES ASSUME Init PROVE IInv
  OBVIOUS
<1> USE DEF Init, StorageInit, ReaderInit
<1>1. TypeOK
  <2>1. StorageTypeOK
    <3>1. /\ phase \in Phases /\ cursor \in Files /\ frame \in Nat
          /\ described \in BOOLEAN /\ clean \in BOOLEAN
      BY Constants DEF Phases
    <3>2. stream \in [Files -> StreamStates]
      BY DEF StreamStates
    <3>3. <<>> \in Seq(Nat)
      OBVIOUS
    <3> QED
      BY <3>1, <3>2, <3>3 DEF StorageTypeOK
  <2>2. NotRead \in FileReaders /\ NoAnswer \in AnswersToReads
    BY DEF NotRead, FileReaders, NoAnswer, AnswersToReads
  <2> QED
    BY <2>1, <2>2 DEF TypeOK
<1>2. DiskBehindStream
  BY DEF DiskBehindStream
<1>3. CreatedInOrder
  BY DEF CreatedInOrder
<1>4. CleanRecords
  <2>1. \A f \in Files : Reached(f) = 0 /\ Len(accepted[f]) = 0 /\ Period[f] \in Nat \ {0}
    BY Constants DEF Reached
  <2> QED
    BY <2>1 DEF CleanRecords, RecordsUpTo
<1>5. CleanStreams
  BY DEF CleanStreams
<1>6. ClosedArchiveIsReadable
  BY DEF ClosedArchiveIsReadable, NoAnswer
<1> QED
  BY <1>1, <1>2, <1>3, <1>4, <1>5, <1>6 DEF IInv

\* Every step keeps the invariant.
LEMMA NextHolds == IInv /\ [Next]_vars => IInv'
<1> SUFFICES ASSUME IInv, [Next]_vars PROVE IInv'
  OBVIOUS
<1>1. CASE StorageNext /\ UNCHANGED readerVars
  <2>1. /\ StorageTypeOK /\ DiskBehindStream /\ CreatedInOrder /\ CleanRecords /\ CleanStreams
    BY DEF IInv, TypeOK
  <2>2. /\ StorageTypeOK' /\ DiskBehindStream' /\ CreatedInOrder'
        /\ CleanRecords' /\ CleanStreams'
    BY <1>1, <2>1, StorageTypesKept, DiskKept, CreatedKept, CleanRecordsKept, CleanStreamsKept
  <2>3. open' = open /\ reading' = reading /\ answer' = answer
    BY <1>1 DEF readerVars
  <2>4. TypeOK' /\ ClosedArchiveIsReadable'
    BY <2>2, <2>3 DEF IInv, TypeOK, ClosedArchiveIsReadable
  <2> QED
    BY <2>2, <2>4 DEF IInv
<1>2. CASE UNCHANGED storageVars /\ [Next]_vars
  <2>1. TypeOK' /\ ClosedArchiveIsReadable'
    <3>1. CASE UNCHANGED vars
      BY <3>1 DEF vars, storageVars, readerVars, managerVars, fileVars, diskVars, IInv, TypeOK,
                  StorageTypeOK, ClosedArchiveIsReadable
    <3> QED
      BY <1>2, <3>1, ReaderKeeps
  <2>2. DiskBehindStream' /\ CreatedInOrder' /\ CleanStreams'
    BY <1>2 DEF IInv, storageVars, managerVars, fileVars, diskVars, DiskBehindStream, CreatedInOrder, CleanStreams
  <2>3. CleanRecords'
    BY <1>2 DEF IInv, storageVars, managerVars, fileVars, CleanRecords, RecordsUpTo, Reached
  <2> QED
    BY <2>1, <2>2, <2>3 DEF IInv
<1> QED
  BY <1>1, <1>2 DEF Next, OpenArchive, CloseArchive, Read, ReadFrame, vars

\* The invariant of the archive and its reader.
THEOREM IInvHolds == Spec => []IInv
  BY InitHolds, NextHolds, PTL DEF Spec

\* Every variable stays in its type: files, disk, and what is read.
THEOREM ArchiveTypes == Spec => []TypeOK
  BY IInvHolds, PTL DEF IInv

\* An archive with a description has all its files and their headers.
THEOREM DescribedIsThere == Spec => []DescribedFilesExist
<1>1. IInv => DescribedFilesExist
  BY DEF IInv, CreatedInOrder, DescribedFilesExist
<1> QED
  BY <1>1, IInvHolds, PTL

\* No header counts a record that is not on disk, after whatever crash or failure.
THEOREM HeadersCountRecords == Spec => []HeaderCountsRecords
<1>1. IInv => HeaderCountsRecords
  BY DEF IInv, DiskBehindStream, HeaderCountsRecords
<1> QED
  BY <1>1, IInvHolds, PTL

\* An archive closed without failures and gaps has every record at its place.
THEOREM CleanIsComplete == Spec => []CleanArchiveIsComplete
  BY CleanComplete, IInvHolds, PTL

\* A clean archive is read back whole, as long as no file was read to its end.
THEOREM ReadBackWhole == Spec => []ClosedArchiveIsReadable
<1>1. IInv => ClosedArchiveIsReadable
  BY DEF IInv
<1> QED
  BY <1>1, IInvHolds, PTL

================================================================================
