--------------------------- MODULE EvidenceProofs ---------------------------
(***************************************************************************)
(* What the evidence of a run keeps and what the audit makes of it, for    *)
(* any number of endpoints, records, runs and failures.  First the log: a  *)
(* divergence whose Write returned is on it and is found by every reader   *)
(* that reads the log at all, and any other record that such a reader      *)
(* misses is paid for by a malformed line.  Then the audit of what is read *)
(* back: the percentiles are of nearest rank, the incidents are the        *)
(* maximal runs of breaches, the tables and the findings agree, and the    *)
(* generated upstreams fit the samples.  The specifications of the two     *)
(* share no variable, and no theorem is about both.                        *)
(***************************************************************************)
EXTENDS EvidenceLog, Audit, SequenceTheorems, FiniteSetTheorems, TLAPS

\* Ids are of records handed to the log.
IdsHanded == \A i \in 1 .. Len(file) : file[i].id <= handed

\* The line of record id is whole, alone on its line, and piece i.
WholeLine(i, id) ==
  /\ file[i].id = id /\ file[i].form = "line"
  /\ i > 1 => file[i - 1].form = "line"

\* A divergence that is written is among the pieces that are synced.
DivergencesSynced ==
  \A r \in written : r.type = "divergence" => \E i \in 1 .. synced : WholeLine(i, r.id)

\* A writer that has written, and has not failed, is at the start of a line;
\* one that syncs has just written the line of a divergence.
WriterInv ==
  /\ writer = "open" /\ ~fresh /\ ~broken /\ Len(file) > 0
       => file[Len(file)].form = "line"
  /\ writer = "syncing" =>
       Len(file) > 0 /\ ~fresh /\ ~broken /\ handed > 0 /\ WholeLine(Len(file), handed)

\* The inductive invariant of the file.
LogFileInv == TypeOK /\ IdsHanded /\ DivergencesSynced /\ WriterInv

-----------------------------------------------------------------------------
\* What is synced stays, wherever it is, whatever becomes of the rest.
LEMMA SyncedStays ==
  ASSUME TypeOK, DivergencesSynced, UNCHANGED written, synced' \in Nat, synced <= synced',
         \A i \in 1 .. synced : file'[i] = file[i]
  PROVE  DivergencesSynced'
<1> SUFFICES ASSUME NEW r \in written, r.type = "divergence"
             PROVE  \E i \in 1 .. synced' : WholeLine(i, r.id)'
  BY DEF DivergencesSynced
<1>1. PICK i \in 1 .. synced : WholeLine(i, r.id)
  BY DEF DivergencesSynced
<1>2. synced \in Nat /\ i \in 1 .. synced' /\ file'[i] = file[i]
  BY DEF TypeOK
<1>3. i > 1 => file'[i - 1] = file[i - 1]
  BY <1>2
<1> QED BY <1>1, <1>2, <1>3 DEF WholeLine

\* Ids are positive.
LEMMA PieceIds == ASSUME NEW p \in Piece PROVE p.id \in Nat /\ 1 <= p.id
BY LogAssumption DEF Piece

\* One piece more on the file.
LEMMA PieceAppended ==
  ASSUME TypeOK, NEW p \in Piece
  PROVE  /\ Append(file, p) \in Seq(Piece) /\ Len(Append(file, p)) = Len(file) + 1
         /\ Append(file, p)[Len(file) + 1] = p
         /\ \A i \in 1 .. Len(file) : Append(file, p)[i] = file[i]
         /\ Len(file) \in Nat /\ synced \in Nat /\ synced <= Len(file)
BY AppendProperties DEF TypeOK

\* The record at hand is one more.
LEMMA HandTyped ==
  ASSUME TypeOK, NEW type \in Type, Hand(type)
  PROVE  /\ handed' = handed + 1 /\ handed' \in 1 .. MaxRecords /\ handed \in Nat
         /\ \A form \in Form, long \in BOOLEAN :
              /\ Written(type, form, long) \in Piece
              /\ Written(type, form, long).id = handed'
              /\ Written(type, form, long).form = form
         /\ Current(type) \in Record
<1>1. handed' = handed + 1 /\ handed' \in 1 .. MaxRecords /\ handed \in Nat
  BY LogAssumption DEF TypeOK, Hand
<1> QED BY <1>1 DEF Piece, Record, Current, Written

\* What a write leaves is the file, or the file and one piece of the record.
LEMMA FileAfterWrite ==
  ASSUME NEW type \in Type, file' \in Torn(type) \cup Extended(type, {"line"})
  PROVE  \E form \in Form, long \in BOOLEAN :
           file' = file \/ file' = Append(file, Written(type, form, long))
<1>1. CASE file' = file
  BY <1>1 DEF Form
<1>2. ASSUME NEW forms \in SUBSET Form, file' \in Extended(type, forms)
      PROVE  \E form \in Form, long \in BOOLEAN : file' = Append(file, Written(type, form, long))
  <2>1. PICK form \in forms, long \in BOOLEAN : file' = Append(file, Written(type, form, long))
    BY <1>2 DEF Extended
  <2> QED BY <2>1
<1>3. {"bare", "cut"} \in SUBSET Form /\ {"line"} \in SUBSET Form
  BY DEF Form
<1> QED BY <1>1, <1>2, <1>3 DEF Torn

\* What vanished stays among the records that were handed over.
LEMMA VanishedWasHanded ==
  ASSUME TypeOK, vanished' = vanished, handed' \in Nat, handed <= handed'
  PROVE  vanished' \subseteq 1 .. handed'
<1>1. handed \in Nat /\ \A i \in vanished : i \in 1 .. handed
  BY LogAssumption DEF TypeOK
<1> QED BY <1>1

(***************************************************************************)
(* A write leaves the file as it was or with one piece more, and what was  *)
(* synced is where it was.                                                 *)
(***************************************************************************)
LEMMA FileGrows ==
  ASSUME LogFileInv, NEW type \in Type, Hand(type),
         NEW form \in Form, NEW long \in BOOLEAN,
         file' = file \/ file' = Append(file, Written(type, form, long))
  PROVE  /\ file' \in Seq(Piece) /\ IdsHanded'
         /\ synced \in 0 .. Len(file')
         /\ \A i \in 1 .. synced : file'[i] = file[i]
<1>1. /\ handed' = handed + 1 /\ handed' \in 1 .. MaxRecords /\ handed \in Nat
      /\ file \in Seq(Piece) /\ IdsHanded /\ TypeOK
  BY HandTyped DEF LogFileInv, TypeOK
<1> DEFINE p == Written(type, form, long)
<1>2. p \in Piece /\ p.id = handed'
  BY HandTyped DEF LogFileInv
<1>3. \A i \in 1 .. Len(file) : file[i].id \in Nat /\ file[i].id <= handed
  <2>1. \A i \in 1 .. Len(file) : file[i] \in Piece
    BY <1>1
  <2> QED BY <1>1, <2>1, PieceIds DEF IdsHanded
<1>4. CASE file' = file
  <2>1. IdsHanded'
    BY <1>1, <1>3, <1>4 DEF IdsHanded
  <2>2. synced \in 0 .. Len(file')
    BY <1>1, <1>4 DEF TypeOK
  <2> QED BY <1>1, <1>4, <2>1, <2>2
<1>5. CASE file' = Append(file, p)
  <2> HIDE DEF p
  <2>1. /\ file' \in Seq(Piece) /\ Len(file') = Len(file) + 1 /\ file'[Len(file) + 1] = p
        /\ \A i \in 1 .. Len(file) : file'[i] = file[i]
        /\ Len(file) \in Nat /\ synced \in Nat /\ synced <= Len(file)
    BY <1>1, <1>2, <1>5, PieceAppended
  <2>2. IdsHanded'
    BY <1>1, <1>2, <1>3, <2>1 DEF IdsHanded
  <2> QED BY <2>1, <2>2
<1> QED BY <1>4, <1>5

-----------------------------------------------------------------------------
(* Every action preserves the invariant.                                   *)

\* The log begins empty.
LEMMA LogInitInv == Init => LogFileInv
<1> SUFFICES ASSUME Init PROVE LogFileInv
  OBVIOUS
<1>1. file = <<>> /\ Len(file) = 0 /\ file \in Seq(Piece)
  BY DEF Init
<1>2. TypeOK
  <2>1. /\ synced \in 0 .. Len(file) /\ handed \in 0 .. MaxRecords
        /\ failures \in 0 .. MaxFailures
    BY <1>1, LogAssumption DEF Init
  <2> QED BY <1>1, <2>1 DEF Init, TypeOK
<1> QED BY <1>1, <1>2 DEF Init, LogFileInv, IdsHanded, DivergencesSynced, WriterInv

\* A record is written whole.
LEMMA WriteKeepsInv ==
  ASSUME LogFileInv, NEW type \in Type, Write(type) PROVE LogFileInv'
<1>0. PICK long \in BOOLEAN : file' = Append(file, Written(type, "line", long))
  BY DEF Write, Extended
<1> DEFINE p == Written(type, "line", long)
<1>1. /\ Hand(type) /\ ~broken /\ file' = Append(file, p) /\ broken' = broken /\ fresh' = FALSE
      /\ UNCHANGED <<synced, vanished, failures>> /\ writer = "open"
      /\ fresh => type # "divergence"
  BY <1>0 DEF Write, Hand
<1>2. /\ handed' = handed + 1 /\ handed' \in 1 .. MaxRecords /\ handed \in Nat
      /\ p \in Piece /\ Current(type) \in Record
  BY <1>1, HandTyped DEF LogFileInv, Form
<1>3. /\ file' \in Seq(Piece) /\ IdsHanded' /\ synced \in 0 .. Len(file')
      /\ \A i \in 1 .. synced : file'[i] = file[i]
  BY <1>1, FileGrows DEF Form
<1>4. /\ Len(file') = Len(file) + 1 /\ Len(file) \in Nat /\ file'[Len(file) + 1] = p
      /\ \A i \in 1 .. Len(file) : file'[i] = file[i]
  BY <1>1, <1>2, PieceAppended DEF LogFileInv
<1>5. p.id = handed' /\ p.form = "line"
  BY DEF Written
<1> HIDE DEF p
<1>6. vanished' \subseteq 1 .. handed' /\ handed' \in 0 .. MaxRecords
  BY <1>1, <1>2, VanishedWasHanded DEF LogFileInv
<1>7. CASE type = "divergence"
  <2>1. writer' = "syncing" /\ written' = written
    BY <1>7 DEF Write
  <2>2. Len(file) > 0 => file[Len(file)].form = "line"
    BY <1>1, <1>7 DEF LogFileInv, WriterInv
  <2>3. WholeLine(Len(file), handed)'
    <3>1. Len(file) > 0 => file'[Len(file)] = file[Len(file)]
      BY <1>4
    <3> QED BY <1>4, <1>5, <2>2, <3>1 DEF WholeLine
  <2>4. WriterInv'
    BY <1>1, <1>2, <1>4, <2>1, <2>3 DEF WriterInv
  <2>5. TypeOK'
    BY <1>1, <1>2, <1>3, <1>6, <2>1 DEF LogFileInv, TypeOK
  <2>6. DivergencesSynced'
    <3>1. synced' \in Nat /\ synced <= synced'
      BY <1>1 DEF LogFileInv, TypeOK
    <3> QED BY <1>3, <2>1, <3>1, SyncedStays DEF LogFileInv
  <2> QED BY <1>3, <2>4, <2>5, <2>6 DEF LogFileInv
<1>8. CASE type # "divergence"
  <2>1. writer' = "open" /\ written' = written \cup {Current(type)}
    BY <1>1, <1>8 DEF Write
  <2>2. WriterInv'
    BY <1>4, <1>5, <2>1 DEF WriterInv
  <2>3. TypeOK'
    BY <1>1, <1>2, <1>3, <1>6, <2>1 DEF LogFileInv, TypeOK
  <2>4. DivergencesSynced'
    <3>1. Current(type).type # "divergence"
      BY <1>8 DEF Current
    <3> SUFFICES ASSUME NEW r \in written, r.type = "divergence"
                 PROVE  \E i \in 1 .. synced : WholeLine(i, r.id)'
      BY <1>1, <2>1, <3>1 DEF DivergencesSynced
    <3>2. PICK i \in 1 .. synced : WholeLine(i, r.id)
      BY DEF LogFileInv, DivergencesSynced
    <3>3. file'[i] = file[i] /\ (i > 1 => file'[i - 1] = file[i - 1])
      BY <1>3 DEF LogFileInv, TypeOK
    <3> QED BY <3>2, <3>3 DEF WholeLine
  <2> QED BY <1>3, <2>2, <2>3, <2>4 DEF LogFileInv
<1> QED BY <1>7, <1>8

\* A divergence counts as written once its line is synced.
LEMMA SyncKeepsInv == ASSUME LogFileInv, Sync PROVE LogFileInv'
<1>1. /\ writer = "syncing" /\ writer' = "open" /\ synced' = Len(file)
      /\ written' = written \cup {[id |-> handed, type |-> "divergence"]}
      /\ UNCHANGED <<file, broken, fresh, handed, vanished, failures>>
  BY DEF Sync
<1>2. Len(file) \in Nat /\ synced \in 0 .. Len(file) /\ Len(file) > 0 /\ handed > 0
      /\ WholeLine(Len(file), handed) /\ file[Len(file)].form = "line"
  BY <1>1 DEF LogFileInv, WriterInv, TypeOK, WholeLine
<1>3. [id |-> handed, type |-> "divergence"] \in Record
  BY <1>2, LogAssumption DEF LogFileInv, TypeOK, Record, Type
<1>4. TypeOK'
  BY <1>1, <1>2, <1>3 DEF LogFileInv, TypeOK
<1>5. DivergencesSynced'
  BY <1>1, <1>2 DEF LogFileInv, DivergencesSynced, WholeLine
<1>6. WriterInv' /\ IdsHanded'
  BY <1>1, <1>2 DEF LogFileInv, WriterInv, IdsHanded
<1> QED BY <1>4, <1>5, <1>6 DEF LogFileInv

\* A write that fails breaks the encoder; a refused one leaves the file alone.
LEMMA FailedWriteKeepsInv ==
  ASSUME LogFileInv, NEW type \in Type, WriteFails(type) \/ WriteRefused(type)
  PROVE  LogFileInv'
<1>1. /\ Hand(type) /\ broken' = TRUE /\ writer' = writer /\ writer = "open" /\ fresh' = FALSE
      /\ UNCHANGED <<synced, written, vanished>>
      /\ failures' \in 0 .. MaxFailures
  BY LogAssumption DEF WriteFails, WriteRefused, Hand, Fail, LogFileInv, TypeOK
<1>2. PICK form \in Form, long \in BOOLEAN :
        file' = file \/ file' = Append(file, Written(type, form, long))
  <2>1. CASE WriteFails(type)
    BY <2>1, FileAfterWrite DEF WriteFails
  <2>2. CASE WriteRefused(type)
    BY <2>2 DEF WriteRefused, Form
  <2> QED BY <2>1, <2>2
<1>3. /\ file' \in Seq(Piece) /\ IdsHanded' /\ synced \in 0 .. Len(file')
      /\ \A i \in 1 .. synced : file'[i] = file[i]
  BY <1>1, <1>2, FileGrows
<1>4. handed' = handed + 1 /\ handed' \in 1 .. MaxRecords /\ handed \in Nat
  BY <1>1, HandTyped DEF LogFileInv
<1>5. TypeOK'
  <2>1. vanished' \subseteq 1 .. handed' /\ handed' \in 0 .. MaxRecords
    BY <1>1, <1>4, VanishedWasHanded DEF LogFileInv
  <2> QED BY <1>1, <1>3, <2>1 DEF LogFileInv, TypeOK
<1>6. DivergencesSynced'
  <2>1. synced' \in Nat /\ synced <= synced'
    BY <1>1 DEF LogFileInv, TypeOK
  <2> QED BY <1>1, <1>3, <2>1, SyncedStays DEF LogFileInv
<1>7. WriterInv'
  BY <1>1 DEF WriterInv
<1> QED BY <1>3, <1>5, <1>6, <1>7 DEF LogFileInv

\* The steps that leave the file as it is.
LEMMA FileStepsKeepInv ==
  ASSUME LogFileInv, Open \/ SyncFails \/ Close PROVE LogFileInv'
<1>1. UNCHANGED <<file, handed, written, vanished>>
  BY DEF Open, SyncFails, Close
<1>2. /\ synced \in Nat /\ Len(file) \in Nat /\ synced <= Len(file)
      /\ synced' \in {synced, Len(file)}
  BY DEF Open, SyncFails, Close, LogFileInv, TypeOK
<1>3. TypeOK'
  <2>1. writer' \in {"closed", "open"} /\ broken' \in BOOLEAN /\ fresh' \in BOOLEAN
    BY DEF Open, SyncFails, Close, LogFileInv, TypeOK
  <2>2. failures' \in 0 .. MaxFailures
    BY LogAssumption DEF Open, SyncFails, Close, Fail, LogFileInv, TypeOK
  <2>3. synced' \in 0 .. Len(file')
    BY <1>1, <1>2
  <2> QED BY <1>1, <2>1, <2>2, <2>3 DEF LogFileInv, TypeOK
<1>4. DivergencesSynced'
  BY <1>1, <1>2, SyncedStays DEF LogFileInv
<1>5. WriterInv'
  BY DEF Open, SyncFails, Close, LogFileInv, WriterInv, WholeLine
<1>6. IdsHanded'
  BY <1>1 DEF LogFileInv, IdsHanded
<1> QED BY <1>3, <1>4, <1>5, <1>6 DEF LogFileInv

\* A kill leaves a write whole, torn or undone.
LEMMA KillKeepsInv == ASSUME LogFileInv, Kill PROVE LogFileInv'
<1>1. /\ writer' = "closed" /\ UNCHANGED <<synced, broken, written, vanished>>
      /\ failures' \in 0 .. MaxFailures
  BY LogAssumption DEF Kill, Fail, LogFileInv, TypeOK
<1>2. WriterInv'
  BY <1>1 DEF WriterInv
<1>3. CASE UNCHANGED <<file, fresh, handed>>
  <2>1. TypeOK' /\ IdsHanded'
    BY <1>1, <1>3 DEF LogFileInv, TypeOK, IdsHanded
  <2>2. DivergencesSynced'
    BY <1>1, <1>3, SyncedStays DEF LogFileInv, TypeOK
  <2> QED BY <1>2, <2>1, <2>2 DEF LogFileInv
<1>4. ASSUME NEW type \in Type, Hand(type), file' \in Torn(type) \cup Extended(type, {"line"})
      PROVE  LogFileInv'
  <2>1. PICK form \in Form, long \in BOOLEAN :
          file' = file \/ file' = Append(file, Written(type, form, long))
    BY <1>4, FileAfterWrite
  <2>2. /\ file' \in Seq(Piece) /\ IdsHanded' /\ synced \in 0 .. Len(file')
        /\ \A i \in 1 .. synced : file'[i] = file[i]
    BY <1>4, <2>1, FileGrows
  <2>3. /\ handed' = handed + 1 /\ handed' \in 1 .. MaxRecords /\ handed \in Nat
        /\ fresh' = FALSE
    BY <1>4, HandTyped DEF LogFileInv, Hand
  <2>4. TypeOK'
    <3>1. vanished' \subseteq 1 .. handed' /\ handed' \in 0 .. MaxRecords
      BY <1>1, <2>3, VanishedWasHanded DEF LogFileInv
    <3> QED BY <1>1, <2>2, <2>3, <3>1 DEF LogFileInv, TypeOK
  <2>5. DivergencesSynced'
    <3>1. synced' \in Nat /\ synced <= synced'
      BY <1>1 DEF LogFileInv, TypeOK
    <3> QED BY <1>1, <2>2, <3>1, SyncedStays DEF LogFileInv
  <2> QED BY <1>2, <2>2, <2>4, <2>5 DEF LogFileInv
<1> QED BY <1>3, <1>4 DEF Kill

\* What is left of a piece is of the same record.
LEMMA RemainsTyped ==
  ASSUME NEW piece \in Piece, NEW p \in Remains(piece) PROVE p \in Piece /\ p.id = piece.id
BY DEF Remains

\* A power loss takes nothing that was synced.
LEMMA PowerLossKeepsInv == ASSUME LogFileInv, PowerLoss PROVE LogFileInv'
<1>1. PICK n \in synced .. Len(file) :
        /\ \/ file' = SubSeq(file, 1, n)
           \/ /\ n < Len(file)
              /\ file' \in {Append(SubSeq(file, 1, n), p) : p \in Remains(file[n + 1])}
        /\ vanished' = vanished \cup {file[i].id : i \in n + 1 .. Len(file)}
  BY DEF PowerLoss
<1>2. /\ writer' = "closed" /\ synced' = Len(file')
      /\ UNCHANGED <<broken, fresh, handed, written>> /\ failures' \in 0 .. MaxFailures
  BY LogAssumption DEF PowerLoss, Fail, LogFileInv, TypeOK
<1>3. /\ file \in Seq(Piece) /\ synced \in Nat /\ Len(file) \in Nat
      /\ n \in Nat /\ synced <= n /\ n <= Len(file) /\ handed \in Nat
  BY LogAssumption DEF LogFileInv, TypeOK
<1>4. \A i \in 1 .. Len(file) : file[i] \in Piece /\ file[i].id \in 1 .. handed
  <2>1. \A i \in 1 .. Len(file) : file[i] \in Piece /\ file[i].id <= handed
    BY <1>3 DEF LogFileInv, IdsHanded
  <2>2. \A i \in 1 .. Len(file) : file[i].id \in Nat /\ 1 <= file[i].id
    BY <2>1, PieceIds
  <2> QED BY <1>3, <2>1, <2>2
<1> DEFINE s == SubSeq(file, 1, n)
<1>5. /\ s \in Seq(Piece) /\ Len(s) = n
      /\ \A i \in 1 .. n : s[i] = file[i]
  BY <1>3
<1> HIDE DEF s
<1>6. /\ file' \in Seq(Piece) /\ n <= Len(file') /\ Len(file') \in Nat
      /\ \A i \in 1 .. n : file'[i] = file[i]
      /\ \A i \in 1 .. Len(file') : file'[i].id \in 1 .. handed
  <2>1. CASE file' = s
    BY <1>3, <1>4, <1>5, <2>1
  <2>2. ASSUME n < Len(file), NEW p \in Remains(file[n + 1]), file' = Append(s, p)
        PROVE  /\ file' \in Seq(Piece) /\ n <= Len(file') /\ Len(file') \in Nat
               /\ \A i \in 1 .. n : file'[i] = file[i]
               /\ \A i \in 1 .. Len(file') : file'[i].id \in 1 .. handed
    <3>1. p \in Piece /\ p.id = file[n + 1].id /\ file[n + 1].id \in 1 .. handed
      <4>1. file[n + 1] \in Piece /\ file[n + 1].id \in 1 .. handed
        BY <1>3, <1>4, <2>2
      <4> QED BY <2>2, <4>1, RemainsTyped
    <3>2. /\ file' \in Seq(Piece) /\ Len(file') = n + 1 /\ file'[n + 1] = p
          /\ \A i \in 1 .. n : file'[i] = s[i]
      BY <1>3, <1>5, <2>2, <3>1, AppendProperties
    <3>3. \A i \in 1 .. n : file'[i] = file[i] /\ file'[i].id \in 1 .. handed
      BY <1>3, <1>4, <1>5, <3>2
    <3>4. file'[n + 1].id \in 1 .. handed
      BY <3>1, <3>2
    <3>5. \A i \in 1 .. n + 1 : i \in 1 .. n \/ i = n + 1
      BY <1>3
    <3> QED BY <1>3, <3>2, <3>3, <3>4, <3>5
  <2> QED BY <1>1, <2>1, <2>2 DEF s
<1>7. IdsHanded'
  BY <1>2, <1>3, <1>6 DEF IdsHanded
<1>8. TypeOK'
  <2>1. vanished' \subseteq 1 .. handed
    <3>1. \A i \in n + 1 .. Len(file) : i \in 1 .. Len(file)
      BY <1>3
    <3>2. {file[i].id : i \in n + 1 .. Len(file)} \subseteq 1 .. handed
      BY <1>4, <3>1
    <3>3. vanished \subseteq 1 .. handed
      BY DEF LogFileInv, TypeOK
    <3> QED BY <1>1, <3>2, <3>3
  <2>2. synced' \in 0 .. Len(file')
    BY <1>2, <1>6
  <2> QED BY <1>2, <1>6, <2>1, <2>2 DEF LogFileInv, TypeOK
<1>9. DivergencesSynced'
  <2>1. \A i \in 1 .. synced : file'[i] = file[i]
    BY <1>3, <1>6
  <2>2. synced' \in Nat /\ synced <= synced'
    BY <1>2, <1>3, <1>6
  <2> QED BY <1>2, <2>1, <2>2, SyncedStays DEF LogFileInv
<1>10. WriterInv'
  BY <1>2 DEF WriterInv
<1> QED BY <1>7, <1>8, <1>9, <1>10 DEF LogFileInv

\* Every step keeps it.
LEMMA LogFileInvariance == Spec => []LogFileInv
<1>1. LogFileInv /\ [Next]_vars => LogFileInv'
  <2> SUFFICES ASSUME LogFileInv, [Next]_vars PROVE LogFileInv'
    OBVIOUS
  <2>1. CASE UNCHANGED vars
    BY <2>1 DEF vars, LogFileInv, TypeOK, IdsHanded, DivergencesSynced, WholeLine, WriterInv
  <2>2. CASE Next
    BY <2>2, WriteKeepsInv, SyncKeepsInv, FailedWriteKeepsInv, FileStepsKeepInv, KillKeepsInv,
       PowerLossKeepsInv DEF Next
  <2> QED BY <2>1, <2>2
<1> QED BY <1>1, LogInitInv, PTL DEF Spec

-----------------------------------------------------------------------------
(***************************************************************************)
(* The file, the writer and the records in it are well typed.              *)
(***************************************************************************)
THEOREM TypeCorrect == Spec => []TypeOK
BY LogFileInvariance, PTL DEF LogFileInv

(***************************************************************************)
(* Once Write has returned, a divergence stands on the file and decodes,   *)
(* through any failures of the disk, the probe and the machine; a reader   *)
(* misses it only if Parse returns an error for a line that is too long.   *)
(***************************************************************************)
THEOREM WrittenDivergencesSurvive == Spec => []DivergencesSurvive
<1>1. LogFileInv => DivergencesSurvive
  <2> SUFFICES ASSUME LogFileInv, NEW r \in written, r.type = "divergence"
               PROVE  r.id \in Decoded
    BY DEF DivergencesSurvive, Parsed
  <2>1. PICK i \in 1 .. synced : WholeLine(i, r.id)
    BY DEF LogFileInv, DivergencesSynced
  <2>2. i \in DOMAIN file
    BY DEF LogFileInv, TypeOK
  <2> QED BY <2>1, <2>2 DEF WholeLine, Decoded, LineStart, Decodes
<1> QED BY <1>1, LogFileInvariance, PTL

-----------------------------------------------------------------------------
(* What is missing is paid for by malformed lines.                         *)

\* What was written whole is on the file still, or was lost with the machine.
WrittenKept ==
  \A r \in written :
    r.id \in vanished \/ \E i \in 1 .. Len(file) : file[i].id = r.id /\ file[i].form = "line"

\* Pieces that stay keep what was written.
LEMMA KeptStays ==
  ASSUME TypeOK, WrittenKept, UNCHANGED <<written, vanished>>, Len(file') \in Nat,
         Len(file) <= Len(file'), \A i \in 1 .. Len(file) : file'[i] = file[i]
  PROVE  WrittenKept'
<1>1. Len(file) \in Nat
  BY DEF TypeOK
<1>2. \A i \in 1 .. Len(file) : i \in 1 .. Len(file') /\ file'[i] = file[i]
  BY <1>1
<1> QED BY <1>2 DEF WrittenKept

\* A write, whole or torn, moves nothing.
LEMMA ExtendedKeeps ==
  ASSUME TypeOK, NEW type \in Type, Hand(type),
         NEW form \in Form, NEW long \in BOOLEAN,
         file' = file \/ file' = Append(file, Written(type, form, long))
  PROVE  /\ Len(file') \in Nat /\ Len(file) <= Len(file')
         /\ \A i \in 1 .. Len(file) : file'[i] = file[i]
<1>1. Len(file) \in Nat
  BY DEF TypeOK
<1>2. CASE file' = file
  BY <1>1, <1>2
<1>3. CASE file' = Append(file, Written(type, form, long))
  <2>1. Written(type, form, long) \in Piece
    BY HandTyped
  <2> QED BY <1>1, <1>3, <2>1, PieceAppended
<1> QED BY <1>2, <1>3

\* A record that is written is at the end of the file, whole or counted.
LEMMA WriteKeepsWritten ==
  ASSUME LogFileInv, WrittenKept, NEW type \in Type, Write(type) PROVE WrittenKept'
<1>0. PICK long \in BOOLEAN : file' = Append(file, Written(type, "line", long))
  BY DEF Write, Extended
<1> DEFINE p == Written(type, "line", long)
<1>1. Hand(type) /\ file' = Append(file, p) /\ vanished' = vanished
  BY <1>0 DEF Write
<1>2. p \in Piece /\ p.id = handed' /\ p.form = "line"
  BY <1>1, HandTyped DEF LogFileInv, Form
<1> HIDE DEF p
<1>3. /\ Len(file') = Len(file) + 1 /\ file'[Len(file) + 1] = p /\ Len(file) \in Nat
      /\ \A i \in 1 .. Len(file) : file'[i] = file[i]
  BY <1>1, <1>2, PieceAppended DEF LogFileInv
<1>4. written' \subseteq written \cup {Current(type)}
  BY DEF Write
<1>5. ASSUME NEW r \in written, r.id \notin vanished
      PROVE  \E i \in 1 .. Len(file') : file'[i].id = r.id /\ file'[i].form = "line"
  <2>1. PICK i \in 1 .. Len(file) : file[i].id = r.id /\ file[i].form = "line"
    BY <1>5 DEF WrittenKept
  <2> QED BY <1>3, <2>1
<1>6. \E i \in 1 .. Len(file') :
        file'[i].id = Current(type).id /\ file'[i].form = "line"
  <2>1. Current(type).id = handed'
    BY DEF Current
  <2>2. Len(file) + 1 \in 1 .. Len(file')
    BY <1>3
  <2> QED BY <1>2, <1>3, <2>1, <2>2
<1> QED BY <1>1, <1>4, <1>5, <1>6 DEF WrittenKept

\* A sync changes nothing of the file.
LEMMA SyncKeepsWritten == ASSUME LogFileInv, WrittenKept, Sync PROVE WrittenKept'
<1>1. /\ UNCHANGED <<file, vanished>>
      /\ written' = written \cup {[id |-> handed, type |-> "divergence"]}
      /\ WholeLine(Len(file), handed) /\ Len(file) \in Nat /\ Len(file) > 0
  BY DEF Sync, LogFileInv, WriterInv, TypeOK
<1>2. Len(file) \in 1 .. Len(file) /\ file[Len(file)].id = handed
      /\ file[Len(file)].form = "line"
  BY <1>1 DEF WholeLine
<1> QED BY <1>1, <1>2 DEF WrittenKept

\* A failed write leaves at most part of a line.
LEMMA FailureKeepsWritten ==
  ASSUME LogFileInv, WrittenKept, NEW type \in Type, WriteFails(type) \/ WriteRefused(type)
  PROVE  WrittenKept'
<1>1. Hand(type) /\ UNCHANGED <<written, vanished>>
  BY DEF WriteFails, WriteRefused
<1>2. PICK form \in Form, long \in BOOLEAN :
        file' = file \/ file' = Append(file, Written(type, form, long))
  <2>1. CASE WriteFails(type)
    BY <2>1, FileAfterWrite DEF WriteFails
  <2>2. CASE WriteRefused(type)
    BY <2>2 DEF WriteRefused, Form
  <2> QED BY <2>1, <2>2
<1> QED BY <1>1, <1>2, ExtendedKeeps, KeptStays DEF LogFileInv

\* A kill leaves at most part of a line.
LEMMA KillKeepsWritten == ASSUME LogFileInv, WrittenKept, Kill PROVE WrittenKept'
<1>1. UNCHANGED <<written, vanished>> /\ Len(file) \in Nat
  BY DEF Kill, LogFileInv, TypeOK
<1>2. CASE UNCHANGED file
  BY <1>1, <1>2, KeptStays DEF LogFileInv
<1>3. ASSUME NEW type \in Type, Hand(type), file' \in Torn(type) \cup Extended(type, {"line"})
      PROVE  WrittenKept'
  <2>1. PICK form \in Form, long \in BOOLEAN :
          file' = file \/ file' = Append(file, Written(type, form, long))
    BY <1>3, FileAfterWrite
  <2> QED BY <1>1, <1>3, <2>1, ExtendedKeeps, KeptStays DEF LogFileInv
<1> QED BY <1>2, <1>3 DEF Kill

\* What a power loss takes, or tears, has vanished.
LEMMA PowerLossKeepsWritten == ASSUME LogFileInv, WrittenKept, PowerLoss PROVE WrittenKept'
<1>1. PICK n \in synced .. Len(file) :
        /\ \/ file' = SubSeq(file, 1, n)
           \/ /\ n < Len(file)
              /\ file' \in {Append(SubSeq(file, 1, n), p) : p \in Remains(file[n + 1])}
        /\ vanished' = vanished \cup {file[i].id : i \in n + 1 .. Len(file)}
  BY DEF PowerLoss
<1>2. /\ file \in Seq(Piece) /\ Len(file) \in Nat /\ n \in Nat /\ n <= Len(file)
      /\ written' = written
  BY DEF PowerLoss, LogFileInv, TypeOK
<1> DEFINE s == SubSeq(file, 1, n)
<1>3. s \in Seq(Piece) /\ Len(s) = n /\ \A i \in 1 .. n : s[i] = file[i]
  BY <1>2
<1> HIDE DEF s
<1>4. Len(file') \in Nat /\ n <= Len(file') /\ \A i \in 1 .. n : file'[i] = file[i]
  <2>1. CASE file' = s
    BY <1>2, <1>3, <2>1
  <2>2. ASSUME n < Len(file), NEW p \in Remains(file[n + 1]), file' = Append(s, p)
        PROVE  Len(file') \in Nat /\ n <= Len(file') /\ \A i \in 1 .. n : file'[i] = file[i]
    <3>1. p \in Piece
      <4>1. file[n + 1] \in Piece
        BY <1>2, <2>2
      <4> QED BY <2>2, <4>1, RemainsTyped
    <3>2. /\ Len(file') = n + 1
          /\ \A i \in 1 .. n : file'[i] = s[i]
      BY <1>2, <1>3, <2>2, <3>1, AppendProperties
    <3> QED BY <1>2, <1>3, <3>2
  <2> QED BY <1>1, <2>1, <2>2 DEF s
<1>5. ASSUME NEW r \in written, r.id \notin vanished'
      PROVE  \E i \in 1 .. Len(file') : file'[i].id = r.id /\ file'[i].form = "line"
  <2>1. r.id \notin vanished
    BY <1>1, <1>5
  <2>2. PICK i \in 1 .. Len(file) : file[i].id = r.id /\ file[i].form = "line"
    BY <2>1 DEF WrittenKept
  <2>3. i \notin n + 1 .. Len(file)
    BY <1>1, <1>5, <2>2
  <2>4. i \in 1 .. n /\ i \in 1 .. Len(file')
    BY <1>2, <1>4, <2>3
  <2> QED BY <1>4, <2>2, <2>4
<1> QED BY <1>2, <1>5 DEF WrittenKept

\* So it holds of every log that never lost power.
LEMMA WrittenKeptInvariance == Spec => []WrittenKept
<1>1. Init => WrittenKept
  BY DEF Init, WrittenKept
<1>2. LogFileInv /\ WrittenKept /\ [Next]_vars => WrittenKept'
  <2> SUFFICES ASSUME LogFileInv, WrittenKept, [Next]_vars PROVE WrittenKept'
    OBVIOUS
  <2>1. CASE UNCHANGED vars
    BY <2>1 DEF vars, WrittenKept
  <2>2. CASE Open \/ SyncFails \/ Close
    BY <2>2 DEF Open, SyncFails, Close, WrittenKept
  <2>3. CASE Next
    BY <2>2, <2>3, WriteKeepsWritten, SyncKeepsWritten, FailureKeepsWritten, KillKeepsWritten,
       PowerLossKeepsWritten DEF Next
  <2> QED BY <2>1, <2>3
<1> QED BY <1>1, <1>2, LogFileInvariance, PTL DEF Spec

\* A set of numbers that is not empty has a least one.
LEMMA LeastNatural ==
  ASSUME NEW S \in SUBSET Nat, S # {}
  PROVE  \E n \in S : \A m \in S : n <= m
<1>1. PICK n \in S : \A m \in S : <<m, n>> \notin OpToRel(<, Nat)
  BY WFMin, NatLessThanWellFounded
<1>2. \A m \in S : ~(m < n)
  BY <1>1 DEF OpToRel
<1> QED BY <1>2

\* Piece i ends the line that begins with piece j.
Line(j, i) ==
  /\ j \in LineStart /\ i \in 1 .. Len(file) /\ j <= i
  /\ file[i].form = "line"
  /\ \A m \in j .. i - 1 : file[m].form # "line"

\* Every whole piece ends a line.
LEMMA LineOfPiece ==
  ASSUME TypeOK, NEW i \in 1 .. Len(file), file[i].form = "line"
  PROVE  \E j \in 1 .. i : Line(j, i)
<1> DEFINE S == {n \in Nat : n < i /\ i - n \in LineStart}
<1>1. Len(file) \in Nat /\ DOMAIN file = 1 .. Len(file)
  BY DEF TypeOK
<1>2. 1 \in LineStart
  BY <1>1 DEF LineStart
<1>3. i - 1 \in S
  BY <1>1, <1>2
<1>4. PICK n \in S : \A m \in S : n <= m
  BY <1>3, LeastNatural
<1> DEFINE j == i - n
<1>5. j \in 1 .. i /\ j \in LineStart /\ i = j + n
  BY <1>4
<1>6. ASSUME NEW m \in j .. i - 1 PROVE file[m].form # "line"
  <2>1. m + 1 \in 1 .. Len(file) /\ i - (m + 1) \in Nat /\ i - (m + 1) < n
        /\ i - (i - (m + 1)) = m + 1
    BY <1>1, <1>5
  <2>2. m + 1 \notin LineStart
    BY <1>1, <1>4, <2>1
  <2>3. m + 1 > 1 /\ (m + 1) - 1 = m
    BY <1>5
  <2> QED BY <1>1, <2>1, <2>2, <2>3 DEF LineStart
<1> HIDE DEF j, S
<1> QED BY <1>5, <1>6 DEF Line

(***************************************************************************)
(* The line on which a missing record ended is malformed, and no other     *)
(* record ended on it.                                                     *)
(***************************************************************************)
LEMMA LossMalformsItsLine ==
  ASSUME TypeOK, NEW j, NEW i, Line(j, i), file[i].id \notin Decoded
  PROVE  j \in LineStart /\ ~Decodes(j)
<1>1. Len(file) \in Nat /\ DOMAIN file = 1 .. Len(file) /\ i \in 1 .. Len(file)
      /\ j \in LineStart /\ j \in 1 .. Len(file) /\ j <= i /\ file[i].form = "line"
  BY DEF TypeOK, Line, LineStart
<1>2. i \notin LineStart
  <2> SUFFICES ASSUME i \in LineStart PROVE FALSE
    OBVIOUS
  <2>1. Decodes(i)
    BY <1>1 DEF Decodes
  <2> QED BY <2>1 DEF Decoded
<1>3. i \in Nat /\ j \in Nat /\ Len(file) \in Nat /\ j # i /\ j <= i /\ i <= Len(file)
  BY <1>1, <1>2
<1>4. j <= i - 1 /\ j # Len(file)
  BY ONLY <1>3
<1>5. j \in j .. i - 1
  BY ONLY <1>3, <1>4
<1> QED BY <1>1, <1>4, <1>5 DEF Line, Decodes

\* Two losses never share a malformed line.
LEMMA OneRecordPerLine ==
  ASSUME TypeOK, NEW j, NEW i, NEW k, Line(j, i), Line(j, k)
  PROVE  i = k
<1>1. /\ j \in Nat /\ i \in Nat /\ k \in Nat /\ j <= i /\ j <= k
      /\ file[i].form = "line" /\ file[k].form = "line"
  BY DEF TypeOK, Line, LineStart
<1>2. ~(i < k)
  BY <1>1 DEF Line
<1>3. ~(k < i)
  BY <1>1 DEF Line
<1> QED BY <1>1, <1>2, <1>3

(***************************************************************************)
(* Short of a power loss, and unless Parse returns an error for the whole  *)
(* log, every record that was written and cannot be read back is paid for  *)
(* by a malformed line of its own: the lines the losses ended on are an    *)
(* injection of what is missing into what is reported.                     *)
(***************************************************************************)
THEOREM LossesAreAccountedFor == Spec => []LossesAreReported
<1>1. TypeOK /\ WrittenKept => LossesAreReported
  <2> SUFFICES ASSUME TypeOK, WrittenKept, ~ParseFails PROVE LossesAreReported
    BY DEF LossesAreReported
  <2> DEFINE Lost == {r.id : r \in written} \ (Decoded \cup vanished)
             Bad == {i \in LineStart : ~Decodes(i)}
             EndsOn(id, j) == \E i \in 1 .. Len(file) : Line(j, i) /\ file[i].id = id
             f == [id \in Lost |-> CHOOSE j \in Bad : EndsOn(id, j)]
  <2>1. ASSUME NEW id \in Lost PROVE \E j \in Bad : EndsOn(id, j)
    <3>1. PICK i \in 1 .. Len(file) : file[i].id = id /\ file[i].form = "line"
      BY DEF WrittenKept
    <3>2. PICK j \in 1 .. i : Line(j, i)
      BY <3>1, LineOfPiece
    <3>3. j \in LineStart /\ ~Decodes(j)
      BY <3>1, <3>2, LossMalformsItsLine
    <3> QED BY <3>1, <3>2, <3>3
  <2>2. ASSUME NEW id \in Lost PROVE f[id] \in Bad /\ EndsOn(id, f[id])
    BY <2>1
  <2>3. ASSUME NEW a \in Lost, NEW b \in Lost, f[a] = f[b] PROVE a = b
    <3> HIDE DEF f, Lost
    <3>1. PICK i \in 1 .. Len(file) : Line(f[a], i) /\ file[i].id = a
      BY <2>2
    <3>2. PICK k \in 1 .. Len(file) : Line(f[b], k) /\ file[k].id = b
      BY <2>2
    <3>3. i = k
      BY <2>3, <3>1, <3>2, OneRecordPerLine
    <3> QED BY <3>1, <3>2, <3>3
  <2>4. f \in Injection(Lost, Bad)
    <3>1. f \in [Lost -> Bad]
      BY <2>2
    <3> HIDE DEF f, Lost, Bad
    <3> QED BY <2>3, <3>1 DEF Injection, IsInjective
  <2>5. IsFiniteSet(Bad)
    <3>1. Len(file) \in Nat /\ DOMAIN file = 1 .. Len(file)
      BY DEF TypeOK
    <3>2. Bad \in SUBSET (1 .. Len(file))
      BY <3>1 DEF LineStart
    <3>3. IsFiniteSet(1 .. Len(file))
      BY <3>1, FS_Interval
    <3> HIDE DEF Bad
    <3> QED BY <3>2, <3>3, FS_Subset
  <2>6. Cardinality(Lost) <= Cardinality(Bad)
    <3> HIDE DEF f, Lost, Bad
    <3> QED BY <2>4, <2>5, FS_Injection
  <2> QED BY <2>6 DEF LossesAreReported, Parsed, Malformed
<1> QED BY <1>1, LogFileInvariance, WrittenKeptInvariance, PTL DEF LogFileInv

-----------------------------------------------------------------------------
(* What sorting by numbers of predecessors returns.                        *)

\* That a sequence or function arranges S in the order before.
IsArrangement(a, S, before) ==
  /\ Cardinality(S) \in Nat
  /\ a \in [1 .. Cardinality(S) -> S]
  /\ \A i, j \in 1 .. Cardinality(S) : i < j => a[i] \in before[a[j]]
  /\ \A i, j \in 1 .. Cardinality(S) : a[i] = a[j] => i = j
  /\ \A x \in S : \E i \in 1 .. Cardinality(S) : a[i] = x

\* The elements before x are fewer than those before y when x is before y.
LEMMA RankFollowsOrder ==
  ASSUME NEW S, IsFiniteSet(S), NEW before \in [S -> SUBSET S],
         \A x \in S : x \notin before[x],
         \A x, y \in S : x \in before[y] => before[x] \subseteq before[y]
  PROVE  /\ \A x \in S : Cardinality(before[x]) \in 0 .. Cardinality(S) - 1
         /\ \A x, y \in S : x \in before[y] => Cardinality(before[x]) < Cardinality(before[y])
<1>1. ASSUME NEW x \in S
      PROVE  before[x] \subseteq S /\ IsFiniteSet(before[x]) /\ Cardinality(before[x]) \in Nat
  <2>1. before[x] \subseteq S
    OBVIOUS
  <2> QED BY <2>1, FS_Subset, FS_CardinalityType
<1>2. Cardinality(S) \in Nat
  BY FS_CardinalityType
<1>3. ASSUME NEW x \in S PROVE Cardinality(before[x]) < Cardinality(S)
  <2>1. before[x] \subseteq S /\ before[x] # S
    BY <1>1
  <2> QED BY <1>1, <1>2, <2>1, FS_Subset
<1>4. ASSUME NEW x \in S, NEW y \in S, x \in before[y]
      PROVE  Cardinality(before[x]) < Cardinality(before[y])
  <2>1. before[x] \subseteq before[y] /\ before[x] # before[y]
    BY <1>4
  <2>2. IsFiniteSet(before[y]) /\ Cardinality(before[x]) \in Nat /\ Cardinality(before[y]) \in Nat
    BY <1>1
  <2> HIDE DEF IsFiniteSet
  <2> QED BY <2>1, <2>2, FS_Subset
<1> QED BY <1>1, <1>2, <1>3, <1>4

\* Arranging by numbers of predecessors gives the order itself, for every strict total order.
LEMMA ArrangedIsOrder ==
  ASSUME NEW S, IsFiniteSet(S), NEW before \in [S -> SUBSET S],
         \A x \in S : x \notin before[x],
         \A x, y \in S : x # y => x \in before[y] \/ y \in before[x],
         \A x, y \in S : x \in before[y] => before[x] \subseteq before[y]
  PROVE  IsArrangement(Arranged(before), S, before)
<1> DEFINE n == Cardinality(S)
           rank == [x \in S |-> Cardinality(before[x])]
           place == [x \in S |-> rank[x] + 1]
           a == Arranged(before)
<1>1. n \in Nat /\ DOMAIN before = S
  BY FS_CardinalityType
<1>2. /\ \A x \in S : rank[x] \in 0 .. n - 1
      /\ \A x, y \in S : x \in before[y] => rank[x] < rank[y]
  BY RankFollowsOrder
<1>3. a = [i \in 1 .. n |-> CHOOSE x \in S : rank[x] = i - 1]
  BY <1>1 DEF Arranged
<1> HIDE DEF rank, n, a
<1>4. /\ \A x \in S : rank[x] \in Nat /\ place[x] \in 1 .. n /\ place[x] = rank[x] + 1
      /\ place \in [S -> 1 .. n]
  BY <1>1, <1>2
<1>5. \A x, y \in S : rank[x] = rank[y] => x = y
  <2> SUFFICES ASSUME NEW x \in S, NEW y \in S, rank[x] = rank[y], x # y PROVE FALSE
    OBVIOUS
  <2> QED BY <1>2, <1>4
<1> HIDE DEF place
<1>6. \A x, y \in S : place[x] = place[y] => x = y
  BY <1>4, <1>5
<1>7. place \in Injection(S, 1 .. n)
  BY <1>4, <1>6 DEF Injection, IsInjective
<1>8. place \in Surjection(S, 1 .. n)
  <2>1. IsFiniteSet(1 .. n) /\ Cardinality(1 .. n) = n
    BY <1>1, FS_Interval
  <2> QED BY <1>7, <2>1, FS_Injection DEF n
<1>9. \A i \in 1 .. n : \E x \in S : rank[x] = i - 1
  <2> SUFFICES ASSUME NEW i \in 1 .. n PROVE \E x \in S : rank[x] = i - 1
    OBVIOUS
  <2>1. PICK x \in S : place[x] = i
    BY <1>8 DEF Surjection
  <2> QED BY <1>4, <2>1
<1>10. \A i \in 1 .. n : a[i] \in S /\ rank[a[i]] = i - 1
  BY <1>3, <1>9
<1>11. a \in [1 .. n -> S]
  BY <1>3, <1>10
<1>12. ASSUME NEW i \in 1 .. n, NEW j \in 1 .. n, i < j PROVE a[i] \in before[a[j]]
  <2>1. a[i] \in S /\ a[j] \in S /\ rank[a[i]] = i - 1 /\ rank[a[j]] = j - 1
    BY <1>10
  <2>2. a[i] # a[j]
    BY <1>12, <2>1
  <2>3. a[j] \notin before[a[i]]
    BY <1>2, <1>12, <2>1
  <2> QED BY <2>1, <2>2, <2>3
<1>13. ASSUME NEW i \in 1 .. n, NEW j \in 1 .. n, a[i] = a[j] PROVE i = j
  BY <1>10, <1>13
<1>14. ASSUME NEW x \in S PROVE \E i \in 1 .. n : a[i] = x
  <2>1. place[x] \in 1 .. n /\ rank[a[place[x]]] = rank[x] /\ a[place[x]] \in S
    BY <1>4, <1>10
  <2> QED BY <1>5, <2>1
<1> QED BY <1>1, <1>11, <1>12, <1>13, <1>14 DEF IsArrangement, n, a

(***************************************************************************)
(* A stable sort returns every element once; one that comes first is not   *)
(* the greater, and is the one with the lower number if neither is less.   *)
(***************************************************************************)
LEMMA StableOrderIsOrder ==
  ASSUME NEW S \in SUBSET Int, IsFiniteSet(S), NEW less \in [S -> SUBSET S],
         \A x \in S : x \notin less[x],
         \A x, y, z \in S : x \in less[y] /\ y \in less[z] => x \in less[z],
         \A x, y, z \in S : x \notin less[y] /\ y \notin less[z] => x \notin less[z]
  PROVE  /\ IsArrangement(StableOrder(less), S, Stable(less))
         /\ \A i, j \in 1 .. Cardinality(S) :
              i < j => StableOrder(less)[j] \notin less[StableOrder(less)[i]]
<1> DEFINE before == Stable(less)
           a == StableOrder(less)
<1>1. /\ DOMAIN less = S
      /\ before \in [S -> SUBSET S]
      /\ \A x, y \in S : x \in before[y] <=> x \in less[y] \/ (x < y /\ y \notin less[x])
  BY DEF Stable
<1> HIDE DEF before
<1>2. \A x \in S : x \notin before[x]
  BY <1>1
<1>3. ASSUME NEW x \in S, NEW y \in S, x # y PROVE x \in before[y] \/ y \in before[x]
  <2>1. x < y \/ y < x
    BY <1>3
  <2> QED BY <1>1, <2>1
<1>4. ASSUME NEW x \in S, NEW y \in S, x \in before[y], NEW z \in S, z \in before[x]
      PROVE  z \in before[y]
  <2>1. CASE z \in less[x] /\ x \in less[y]
    BY <1>1, <2>1
  <2>2. CASE z \in less[x] /\ x \notin less[y]
    <3>1. y \notin less[x]
      BY <1>1, <1>4, <2>2
    <3>2. z \in less[y]
      BY <2>2, <3>1
    <3> QED BY <1>1, <3>2
  <2>3. CASE z \notin less[x] /\ x \in less[y]
    <3>1. x \notin less[z]
      BY <1>1, <1>4, <2>3
    <3>2. z \in less[y]
      BY <2>3, <3>1
    <3> QED BY <1>1, <3>2
  <2>4. CASE z \notin less[x] /\ x \notin less[y]
    <3>1. z < x /\ x < y /\ x \notin less[z] /\ y \notin less[x]
      BY <1>1, <1>4, <2>4
    <3>2. z < y /\ y \notin less[z]
      BY <3>1
    <3> QED BY <1>1, <3>2
  <2> QED BY <2>1, <2>2, <2>3, <2>4
<1>5. \A x, y \in S : x \in before[y] => before[x] \subseteq before[y]
  BY <1>1, <1>4
<1>6. IsArrangement(Arranged(before), S, before)
  BY <1>1, <1>2, <1>3, <1>5, ArrangedIsOrder
<1>7. IsArrangement(a, S, before)
  BY <1>6 DEF StableOrder, before
<1>8. ASSUME NEW i \in 1 .. Cardinality(S), NEW j \in 1 .. Cardinality(S), i < j
      PROVE  a[j] \notin less[a[i]]
  <2>1. a[i] \in S /\ a[j] \in S /\ a[i] \in before[a[j]]
    BY <1>7, <1>8 DEF IsArrangement
  <2>2. CASE a[i] \in less[a[j]]
    BY <2>1, <2>2
  <2> QED BY <1>1, <2>1, <2>2
<1> QED BY <1>7, <1>8 DEF before

\* A finite set of numbers that is not empty has a largest.
LEMMA LargestExists ==
  ASSUME NEW S \in SUBSET Int, IsFiniteSet(S), S # {}
  PROVE  \E x \in S : \A y \in S : y <= x
<1> DEFINE before == [x \in S |-> {y \in S : y > x}]
           a == Arranged(before)
<1>1. before \in [S -> SUBSET S] /\ \A x, y \in S : x \in before[y] <=> x > y
  OBVIOUS
<1> HIDE DEF before
<1>2. IsArrangement(a, S, before)
  <2>1. \A x \in S : x \notin before[x]
    BY <1>1
  <2>2. \A x, y \in S : x # y => x \in before[y] \/ y \in before[x]
    BY <1>1
  <2>3. ASSUME NEW x \in S, NEW y \in S, x \in before[y] PROVE before[x] \subseteq before[y]
    <3> SUFFICES ASSUME NEW z \in before[x] PROVE z \in before[y]
      OBVIOUS
    <3>1. x \in Int /\ y \in Int /\ z \in S /\ z \in Int
      BY <1>1
    <3>2. x > y /\ z > x
      BY <1>1, <2>3, <3>1
    <3>3. z > y
      BY <3>1, <3>2
    <3> QED BY <1>1, <3>1, <3>3
  <2>4. before \in [S -> SUBSET S]
    BY <1>1
  <2> QED BY <2>1, <2>2, <2>3, <2>4, ArrangedIsOrder
<1> HIDE DEF a
<1>3. 1 \in 1 .. Cardinality(S)
  <2>1. PICK x \in S : TRUE
    OBVIOUS
  <2>2. \E i \in 1 .. Cardinality(S) : a[i] = x
    BY <1>2 DEF IsArrangement
  <2> QED BY <1>2, <2>2 DEF IsArrangement
<1>4. a[1] \in S
  BY <1>2, <1>3 DEF IsArrangement
<1>5. ASSUME NEW y \in S PROVE y <= a[1]
  <2>1. PICK i \in 1 .. Cardinality(S) : a[i] = y
    BY <1>2 DEF IsArrangement
  <2>2. CASE i = 1
    BY <1>4, <2>1, <2>2
  <2>3. CASE 1 < i
    <3>1. a[1] \in before[a[i]]
      BY <1>2, <1>3, <2>3 DEF IsArrangement
    <3>2. a[1] > y /\ a[1] \in Int /\ y \in Int
      BY <1>1, <1>4, <2>1, <3>1
    <3> QED BY <3>2
  <2> QED BY <1>2, <2>2, <2>3 DEF IsArrangement
<1> QED BY <1>4, <1>5

-----------------------------------------------------------------------------
(* The nearest rank in a sorted copy.                                      *)

\* The elements of seq are the readings of S, each as often as S has it.
IsListing(f, seq, n, S, reading) ==
  /\ f \in [1 .. n -> S]
  /\ \A i, j \in 1 .. n : f[i] = f[j] => i = j
  /\ \A x \in S : \E i \in 1 .. n : f[i] = x
  /\ \A i \in 1 .. n : seq[i] = reading[f[i]]

\* The samples of S have readings.
Reads(reading, S) == \A x \in S : reading[x] \in Nat

\* The values of seq are the readings of the samples of S.
Lists(seq, S, reading) == \E f : IsListing(f, seq, Len(seq), S, reading)

\* How many of the readings v is not exceeded by, and exceeds.
AtMost(v, S, reading) == Cardinality({x \in S : reading[x] <= v})
\* How many samples of S read less than v.
Below(v, S, reading) == Cardinality({x \in S : reading[x] < v})

\* Max of the community modules, of two numbers.
LEMMA MaxOfTwo ==
  ASSUME NEW a \in Int, NEW b \in Int
  PROVE  /\ Max({a, b}) \in {a, b} /\ a <= Max({a, b}) /\ b <= Max({a, b})
         /\ (a \in Nat /\ b \in Nat => Max({a, b}) \in Nat)
<1>1. \E x \in {a, b} : \A y \in {a, b} : x >= y
  <2>1. CASE a >= b
    BY <2>1
  <2>2. CASE ~(a >= b)
    BY <2>2
  <2> QED BY <2>1, <2>2
<1>2. Max({a, b}) \in {a, b} /\ \A y \in {a, b} : Max({a, b}) >= y
  BY <1>1 DEF Max
<1> QED BY <1>2

\* Min of the community modules, of two numbers.
LEMMA MinOfTwo ==
  ASSUME NEW a \in Int, NEW b \in Int
  PROVE  /\ Min({a, b}) \in {a, b} /\ Min({a, b}) <= a /\ Min({a, b}) <= b
         /\ (a \in Nat /\ b \in Nat => Min({a, b}) \in Nat)
<1>1. \E x \in {a, b} : \A y \in {a, b} : x =< y
  <2>1. CASE a =< b
    BY <2>1
  <2>2. CASE ~(a =< b)
    BY <2>2
  <2> QED BY <2>1, <2>2
<1>2. Min({a, b}) \in {a, b} /\ \A y \in {a, b} : Min({a, b}) =< y
  BY <1>1 DEF Min
<1> QED BY <1>2

\* The first k values of an injective sequence are k values.
First(g, k) == {g[m] : m \in 1 .. k}

\* The first k of n distinct elements are k.
LEMMA PrefixImage ==
  ASSUME NEW n \in Nat, NEW S, NEW g \in [1 .. n -> S],
         \A i, j \in 1 .. n : g[i] = g[j] => i = j, NEW k \in 0 .. n
  PROVE  IsFiniteSet(First(g, k)) /\ Cardinality(First(g, k)) = k
<1> DEFINE T == {g[m] : m \in 1 .. k}
           h == [m \in 1 .. k |-> g[m]]
<1>1. h \in Surjection(1 .. k, T)
  BY DEF Surjection
<1>2. h \in Injection(1 .. k, T)
  <2>1. \A i, j \in 1 .. k : h[i] = h[j] => i = j
    OBVIOUS
  <2>2. h \in [1 .. k -> T]
    OBVIOUS
  <2> HIDE DEF h, T
  <2> QED BY <2>1, <2>2 DEF Injection, IsInjective
<1>3. IsFiniteSet(1 .. k) /\ Cardinality(1 .. k) = k
  BY FS_Interval
<1> HIDE DEF T, h
<1>4. IsFiniteSet(T) /\ Cardinality(T) = k
  BY <1>1, <1>2, <1>3, FS_Surjection
<1> QED BY <1>4 DEF T, First

\* The nearest rank, in numbers.
LEMMA RankInRange ==
  ASSUME NEW n \in Nat \ {0}, NEW percent \in {50, 90, 99}
  PROVE  /\ Rank(percent, n) \in 1 .. n
         /\ 100 * Rank(percent, n) >= percent * n
         /\ 100 * (Rank(percent, n) - 1) < percent * n
<1> DEFINE q == (percent * n + 99) \div 100
<1>1. q \in 1 .. n /\ 100 * q >= percent * n /\ 100 * (q - 1) < percent * n
  <2>1. CASE percent = 50
    BY <2>1
  <2>2. CASE percent = 90
    BY <2>2
  <2>3. CASE percent = 99
    BY <2>3
  <2> QED BY <2>1, <2>2, <2>3
<1> HIDE DEF q
<1>2. Min({n, q}) = q
  <2>1. n \in Int /\ q \in Int
    BY <1>1
  <2>2. Min({n, q}) \in {n, q} /\ Min({n, q}) <= n /\ Min({n, q}) <= q
    BY <2>1, MinOfTwo
  <2> QED BY <1>1, <2>2
<1>3. Max({1, q}) = q
  <2>1. 1 \in Int /\ q \in Int
    BY <1>1
  <2>2. Max({1, q}) \in {1, q} /\ 1 <= Max({1, q}) /\ q <= Max({1, q})
    BY <2>1, MaxOfTwo
  <2> QED BY <1>1, <2>2
<1> QED BY <1>1, <1>2, <1>3 DEF Rank, q

\* A sorted list lists the same readings, in order.
IsSortedListing(g, w, n, S, reading) ==
  IsListing(g, w, n, S, reading) /\ \A i, j \in 1 .. n : i < j => w[i] <= w[j]

\* Percentile sorts a copy of the values: a listing in ascending order.
LEMMA SortedValues ==
  ASSUME NEW seq \in Seq(Nat)
  PROVE  \E order \in [1 .. Len(seq) -> 1 .. Len(seq)] :
           IsSortedListing(order, StableSort(seq, Ascending), Len(seq), 1 .. Len(seq), seq)
<1> DEFINE n == Len(seq)
           less == [i \in DOMAIN seq |-> {k \in DOMAIN seq : seq[k] < seq[i]}]
           order == StableOrder(less)
           sorted == StableSort(seq, Ascending)
<1>1. n \in Nat /\ DOMAIN seq = 1 .. n /\ \A i \in 1 .. n : seq[i] \in Nat
  OBVIOUS
<1>2. sorted = [i \in 1 .. n |-> seq[order[i]]]
  BY <1>1 DEF StableSort, Ascending
<1> HIDE DEF n, sorted
<1>3. /\ less \in [1 .. n -> SUBSET (1 .. n)]
      /\ \A x, y \in 1 .. n : x \in less[y] <=> seq[x] < seq[y]
  BY <1>1
<1> HIDE DEF less
<1>4. IsFiniteSet(1 .. n) /\ Cardinality(1 .. n) = n /\ 1 .. n \in SUBSET Int
  BY <1>1, FS_Interval
<1>5. /\ IsArrangement(order, 1 .. n, Stable(less))
      /\ \A i, j \in 1 .. n : i < j => order[j] \notin less[order[i]]
  <2>1. \A x \in 1 .. n : x \notin less[x]
    BY <1>1, <1>3
  <2>2. \A x, y, z \in 1 .. n : x \in less[y] /\ y \in less[z] => x \in less[z]
    BY <1>1, <1>3
  <2>3. \A x, y, z \in 1 .. n : x \notin less[y] /\ y \notin less[z] => x \notin less[z]
    BY <1>1, <1>3
  <2> QED BY <1>3, <1>4, <2>1, <2>2, <2>3, StableOrderIsOrder
<1> HIDE DEF order
<1>6. /\ order \in [1 .. n -> 1 .. n]
      /\ \A i, j \in 1 .. n : order[i] = order[j] => i = j
      /\ \A m \in 1 .. n : \E i \in 1 .. n : order[i] = m
  BY <1>4, <1>5 DEF IsArrangement
<1>7. ASSUME NEW i \in 1 .. n, NEW j \in 1 .. n, i < j PROVE sorted[i] <= sorted[j]
  <2>1. order[i] \in 1 .. n /\ order[j] \in 1 .. n /\ order[j] \notin less[order[i]]
    BY <1>5, <1>6, <1>7
  <2>2. ~(seq[order[j]] < seq[order[i]]) /\ seq[order[i]] \in Nat /\ seq[order[j]] \in Nat
    BY <1>1, <1>3, <2>1
  <2> QED BY <1>2, <2>2
<1>8. \A m \in 1 .. n : sorted[m] = seq[order[m]]
  BY <1>2
<1>9. IsSortedListing(order, sorted, n, 1 .. n, seq)
  BY <1>6, <1>7, <1>8 DEF IsSortedListing, IsListing
<1> QED BY <1>6, <1>9 DEF n, sorted

\* Listing by a listing.
LEMMA ListingComposed ==
  ASSUME NEW n \in Nat, NEW S, NEW reading, NEW seq, NEW w,
         NEW f, IsListing(f, seq, n, S, reading),
         NEW order, IsSortedListing(order, w, n, 1 .. n, seq)
  PROVE  \E g : IsSortedListing(g, w, n, S, reading)
<1> DEFINE g == [m \in 1 .. n |-> f[order[m]]]
<1>1. /\ order \in [1 .. n -> 1 .. n]
      /\ \A i, j \in 1 .. n : order[i] = order[j] => i = j
      /\ \A i \in 1 .. n : \E m \in 1 .. n : order[m] = i
      /\ \A m \in 1 .. n : w[m] = seq[order[m]]
      /\ \A i, j \in 1 .. n : i < j => w[i] <= w[j]
  BY DEF IsSortedListing, IsListing
<1>2. /\ f \in [1 .. n -> S] /\ \A i, j \in 1 .. n : f[i] = f[j] => i = j
      /\ \A x \in S : \E i \in 1 .. n : f[i] = x
      /\ \A i \in 1 .. n : seq[i] = reading[f[i]]
      /\ \A m \in 1 .. n : order[m] \in 1 .. n
  BY <1>1 DEF IsListing
<1>3. g \in [1 .. n -> S] /\ \A m \in 1 .. n : g[m] = f[order[m]]
  BY <1>2
<1> HIDE DEF g
<1>4. ASSUME NEW i \in 1 .. n, NEW j \in 1 .. n, g[i] = g[j] PROVE i = j
  <2>1. order[i] = order[j]
    BY <1>2, <1>3, <1>4
  <2> QED BY <1>1, <2>1
<1>5. ASSUME NEW x \in S PROVE \E m \in 1 .. n : g[m] = x
  <2>1. PICK i \in 1 .. n : f[i] = x
    BY <1>2
  <2>2. PICK m \in 1 .. n : order[m] = i
    BY <1>1
  <2> QED BY <1>3, <2>1, <2>2
<1>6. \A m \in 1 .. n : w[m] = reading[g[m]]
  <2> SUFFICES ASSUME NEW m \in 1 .. n PROVE w[m] = reading[g[m]]
    OBVIOUS
  <2>1. w[m] = seq[order[m]] /\ order[m] \in 1 .. n
    BY <1>1, <1>2
  <2>2. seq[order[m]] = reading[f[order[m]]]
    BY <1>2, <2>1
  <2> QED BY <1>3, <2>1, <2>2
<1>7. IsSortedListing(g, w, n, S, reading)
  BY <1>1, <1>3, <1>4, <1>5, <1>6 DEF IsSortedListing, IsListing
<1> QED BY <1>7

\* The value at rank r is not exceeded by r readings, and exceeds r - 1 at most.
LEMMA ValueAtRank ==
  ASSUME NEW n \in Nat, NEW S, NEW reading, Reads(reading, S), NEW g, NEW w,
         IsSortedListing(g, w, n, S, reading), NEW r \in 1 .. n
  PROVE  /\ IsFiniteSet(S) /\ Cardinality(S) = n
         /\ w[r] \in Nat
         /\ AtMost(w[r], S, reading) \in Nat /\ AtMost(w[r], S, reading) >= r
         /\ Below(w[r], S, reading) \in Nat /\ Below(w[r], S, reading) <= r - 1
<1>1. /\ g \in [1 .. n -> S]
      /\ \A i, j \in 1 .. n : g[i] = g[j] => i = j
      /\ \A x \in S : \E m \in 1 .. n : g[m] = x
      /\ \A m \in 1 .. n : w[m] = reading[g[m]]
      /\ \A i, j \in 1 .. n : i < j => w[i] <= w[j]
  BY DEF IsSortedListing, IsListing
<1>2. \A m \in 1 .. n : g[m] \in S /\ w[m] \in Nat /\ w[m] = reading[g[m]]
  BY <1>1 DEF Reads
<1>3. ASSUME NEW k \in 0 .. n PROVE IsFiniteSet(First(g, k)) /\ Cardinality(First(g, k)) = k
  <2>1. /\ g \in [1 .. n -> S] /\ n \in Nat
        /\ \A i, j \in 1 .. n : g[i] = g[j] => i = j
    BY <1>1
  <2>2. k \in 0 .. n
    OBVIOUS
  <2> QED BY ONLY <2>1, <2>2, PrefixImage, Zenon
<1>4. r \in 0 .. n /\ r - 1 \in 0 .. n /\ n \in 0 .. n /\ r \in Int
  OBVIOUS
<1>5. IsFiniteSet(S) /\ Cardinality(S) = n
  <2>1. S = First(g, n)
    BY <1>1 DEF First
  <2> QED BY <1>3, <1>4, <2>1
<1>6. AtMost(w[r], S, reading) \in Nat /\ AtMost(w[r], S, reading) >= r
  <2> DEFINE A == First(g, r)
             B == {x \in S : reading[x] <= w[r]}
  <2>1. IsFiniteSet(A) /\ Cardinality(A) = r
    BY <1>3, <1>4
  <2>2. ASSUME NEW m \in 1 .. r PROVE g[m] \in B
    <3>1. m \in 1 .. n /\ (m < r \/ m = r)
      BY <1>4
    <3>2. w[m] <= w[r]
      BY <1>1, <1>2, <3>1
    <3> QED BY <1>2, <3>1, <3>2
  <2>3. A \subseteq B /\ B \subseteq S
    BY <2>2 DEF First
  <2> HIDE DEF A, B
  <2>4. IsFiniteSet(B) /\ Cardinality(B) \in Nat
    BY <1>5, <2>3, FS_Subset, FS_CardinalityType
  <2>5. Cardinality(A) <= Cardinality(B)
    BY <2>3, <2>4, FS_Subset
  <2>6. r <= Cardinality(B)
    BY <2>1, <2>5
  <2>7. Cardinality(B) >= r
    BY <1>4, <2>4, <2>6
  <2> QED BY <2>4, <2>7 DEF B, AtMost
<1>7. Below(w[r], S, reading) \in Nat /\ Below(w[r], S, reading) <= r - 1
  <2> DEFINE A == First(g, r - 1)
             B == {x \in S : reading[x] < w[r]}
  <2>1. IsFiniteSet(A) /\ Cardinality(A) = r - 1
    BY <1>3, <1>4
  <2>2. ASSUME NEW x \in B PROVE x \in A
    <3>1. PICK m \in 1 .. n : g[m] = x
      BY <1>1
    <3>2. w[m] < w[r] /\ w[m] \in Nat /\ w[r] \in Nat
      BY <1>2, <3>1
    <3>3. ~(r < m) /\ r # m
      BY <1>1, <3>2
    <3>4. m \in 1 .. r - 1
      BY <1>4, <3>3
    <3> QED BY <3>1, <3>4 DEF First
  <2>3. B \subseteq A
    BY <2>2
  <2> HIDE DEF A, B
  <2>4. IsFiniteSet(B) /\ Cardinality(B) <= Cardinality(A) /\ Cardinality(B) \in Nat
    BY <2>1, <2>3, FS_Subset, FS_CardinalityType
  <2> QED BY <2>1, <2>4 DEF B, Below
<1> QED BY <1>2, <1>5, <1>6, <1>7

(***************************************************************************)
(* Percentile of a list of readings is a percentile of the readings.       *)
(***************************************************************************)
LEMMA PercentileOfList ==
  ASSUME NEW seq \in Seq(Nat), NEW S, NEW reading, Reads(reading, S),
         Lists(seq, S, reading), NEW percent \in {50, 90, 99}
  PROVE  /\ IsPercentile(Percentile(seq, percent), percent, S, reading)
         /\ Percentile(seq, percent) \in Nat
<1> DEFINE n == Len(seq)
           w == StableSort(seq, Ascending)
           r == Rank(percent, n)
<1>1. n \in Nat
  OBVIOUS
<1>2. PICK f : IsListing(f, seq, n, S, reading)
  BY DEF Lists
<1>3. PICK order : IsSortedListing(order, w, n, 1 .. n, seq)
  BY SortedValues
<1>4. CASE n = 0
  <2>1. seq = <<>> /\ S = {}
    BY <1>2, <1>4 DEF IsListing
  <2> QED BY <2>1 DEF Percentile, IsPercentile
<1>5. CASE n > 0
  <2>1. Percentile(seq, percent) = w[r]
    BY <1>5 DEF Percentile
  <2> HIDE DEF n, w
  <2>2. PICK g : IsSortedListing(g, w, n, S, reading)
    BY <1>1, <1>2, <1>3, ListingComposed, Zenon
  <2>3. n \in Nat \ {0}
    BY <1>1, <1>5
  <2>4. r \in 1 .. n /\ 100 * r >= percent * n /\ 100 * (r - 1) < percent * n
    BY <2>3, RankInRange
  <2> HIDE DEF r
  <2> DEFINE v == w[r]
             atMost == AtMost(v, S, reading)
             below == Below(v, S, reading)
  <2>5. /\ Cardinality(S) = n /\ v \in Nat /\ \E x \in S : reading[x] = v
        /\ atMost \in Nat /\ atMost >= r /\ below \in Nat /\ below <= r - 1
    <3>1. n \in Nat /\ r \in 1 .. n /\ Reads(reading, S)
      BY <1>1, <2>4
    <3>2. Cardinality(S) = n
      BY ONLY <3>1, <2>2, ValueAtRank, Zenon
    <3>3. v \in Nat
      BY ONLY <3>1, <2>2, ValueAtRank, SMT DEF v
    <3>4. \E x \in S : reading[x] = v
      <4>1. g[r] \in S /\ w[r] = reading[g[r]]
        BY <2>2, <2>4 DEF IsSortedListing, IsListing
      <4> QED BY <4>1 DEF v
    <3>5. atMost \in Nat /\ atMost >= r
      BY ONLY <3>1, <2>2, ValueAtRank, SMT DEF v, atMost
    <3>6. below \in Nat /\ below <= r - 1
      BY ONLY <3>1, <2>2, ValueAtRank, SMT DEF v, below
    <3> QED BY <3>2, <3>3, <3>4, <3>5, <3>6
  <2> HIDE DEF v, atMost, below
  <2>6. 100 * atMost >= percent * n /\ 100 * below < percent * n
    <3>1. percent * n \in Int /\ r \in Int
      BY <1>1, <2>4
    <3> QED BY <2>4, <2>5, <3>1
  <2>7. S # {}
    BY <2>5
  <2>8. /\ 100 * Cardinality({x \in S : reading[x] <= v}) >= percent * Cardinality(S)
        /\ 100 * Cardinality({x \in S : reading[x] < v}) < percent * Cardinality(S)
    BY <2>5, <2>6 DEF atMost, below, AtMost, Below
  <2>9. Percentile(seq, percent) = v
    BY <2>1 DEF v
  <2> QED BY <2>5, <2>7, <2>8, <2>9 DEF IsPercentile
<1> QED BY <1>1, <1>4, <1>5

-----------------------------------------------------------------------------
(* What the accumulator of an endpoint says of its samples.                *)

\* Rules as flags and defaults make them; a length may be negative.
AreRules(r) == r.blocks \in Nat /\ r.seconds \in Nat /\ r.samples \in Int

\* The accumulators, by their fields.
IsAccumulator(acc) ==
  /\ DOMAIN acc = {"samples", "ok", "errors", "latencies", "lagBlocks", "lagSeconds", "latencyMax",
                   "lagBlocksMax", "lagSecondsMax", "leaders", "stale", "first", "last"}
  /\ acc.samples \in Nat /\ acc.ok \in Nat /\ acc.errors \in [ErrClass -> Nat]
  /\ acc.latencies \in Seq(Nat) /\ acc.lagBlocks \in Seq(Nat) /\ acc.lagSeconds \in Seq(Nat)
  /\ acc.latencyMax \in Nat /\ acc.lagBlocksMax \in Nat /\ acc.lagSecondsMax \in Nat
  /\ acc.leaders \in Nat /\ acc.stale \in Nat /\ acc.first \in Nat /\ acc.last \in Nat

\* The samples among S that were answered, that failed and that took any time.
HealthyIn(S) == {i \in S : points[i].class = OK}
\* Those that failed with class c.
FailedIn(S, c) == {i \in S : points[i].class # OK /\ points[i].class = c}
\* Those that took any time.
TimedIn(S) == {i \in S : points[i].latency > 0}
\* The healthy ones without a lag.
LeadingIn(S) == {i \in S : points[i].class = OK /\ Leads(points[i])}
\* The healthy ones at or above the threshold.
StaleIn(S) == {i \in S : points[i].class = OK /\ Stale(points[i])}

\* What an accumulator counts, lists and bounds when S was added to it.
Counts(acc, S) ==
  /\ acc.samples = Cardinality(S)
  /\ acc.ok = Cardinality(HealthyIn(S))
  /\ \A c \in ErrClass : acc.errors[c] = Cardinality(FailedIn(S, c))
  /\ acc.leaders = Cardinality(LeadingIn(S))
  /\ acc.stale = Cardinality(StaleIn(S))

\* The value lists are the readings of the samples.
ListsReadings(acc, S) ==
  /\ Lists(acc.latencies, TimedIn(S), Latencies)
  /\ Lists(acc.lagBlocks, HealthyIn(S), LagBlocks)
  /\ Lists(acc.lagSeconds, HealthyIn(S), LagSeconds)

\* The extremes bound the readings of the samples.
Bounds(acc, S) ==
  /\ \A i \in S : acc.first <= points[i].at /\ points[i].at <= acc.last
  /\ \A i \in HealthyIn(S) :
       points[i].lag[1] <= acc.lagBlocksMax /\ points[i].lag[2] <= acc.lagSecondsMax

\* What an accumulator says once exactly the samples S are added.
Describes(acc, S) ==
  IsAccumulator(acc) /\ Counts(acc, S) /\ ListsReadings(acc, S) /\ Bounds(acc, S)

-----------------------------------------------------------------------------

\* The fields of a sample.
LEMMA PointFields ==
  ASSUME NEW p \in Point
  PROVE  /\ p.endpoint \in Endpoint /\ p.at \in Nat /\ p.latency \in Nat /\ p.best \in Nat
         /\ p.lag \in Nat \X Nat /\ p.lag[1] \in Nat /\ p.lag[2] \in Nat
         /\ p.class = OK \/ (p.class \in ErrClass /\ p.lag = <<0, 0>>)
BY DEF Point

\* A list with one reading more.
LEMMA ListExtended ==
  ASSUME NEW seq \in Seq(Nat), NEW S, NEW reading, NEW i, i \notin S, reading[i] \in Nat,
         Lists(seq, S, reading)
  PROVE  /\ Lists(Append(seq, reading[i]), S \cup {i}, reading)
         /\ Append(seq, reading[i]) \in Seq(Nat)
<1> DEFINE n == Len(seq)
           more == Append(seq, reading[i])
<1>1. /\ n \in Nat /\ more \in Seq(Nat) /\ Len(more) = n + 1 /\ more[n + 1] = reading[i]
      /\ \A k \in 1 .. n : more[k] = seq[k]
  BY AppendProperties
<1>2. PICK f : IsListing(f, seq, n, S, reading)
  BY DEF Lists
<1> HIDE DEF n, more
<1> DEFINE g == [k \in 1 .. n + 1 |-> IF k = n + 1 THEN i ELSE f[k]]
<1>3. /\ \A k \in 1 .. n : f[k] \in S
      /\ \A j, k \in 1 .. n : f[j] = f[k] => j = k
      /\ \A x \in S : \E k \in 1 .. n : f[k] = x
      /\ \A k \in 1 .. n : seq[k] = reading[f[k]]
  BY <1>2 DEF IsListing
<1>4. /\ g \in [1 .. n + 1 -> S \cup {i}] /\ g[n + 1] = i
      /\ \A k \in 1 .. n : g[k] = f[k] /\ k # n + 1
      /\ \A k \in 1 .. n + 1 : k = n + 1 \/ k \in 1 .. n
      /\ \A k \in 1 .. n : k \in 1 .. n + 1
      /\ n + 1 \in 1 .. n + 1
  BY <1>1, <1>3
<1> HIDE DEF g
<1>5. ASSUME NEW j \in 1 .. n + 1, NEW k \in 1 .. n + 1, g[j] = g[k] PROVE j = k
  <2>1. CASE j \in 1 .. n /\ k \in 1 .. n
    BY <1>3, <1>4, <1>5, <2>1
  <2>2. CASE j = n + 1 /\ k \in 1 .. n
    BY <1>3, <1>4, <1>5, <2>2
  <2>3. CASE j \in 1 .. n /\ k = n + 1
    BY <1>3, <1>4, <1>5, <2>3
  <2> QED BY <1>4, <2>1, <2>2, <2>3
<1>6. ASSUME NEW x \in S \cup {i} PROVE \E k \in 1 .. n + 1 : g[k] = x
  BY <1>3, <1>4
<1>7. ASSUME NEW k \in 1 .. n + 1 PROVE more[k] = reading[g[k]]
  BY <1>1, <1>3, <1>4
<1>8. IsListing(g, more, n + 1, S \cup {i}, reading)
  BY <1>4, <1>5, <1>6, <1>7 DEF IsListing
<1>9. Lists(more, S \cup {i}, reading)
  BY <1>1, <1>8 DEF Lists
<1> QED BY <1>1, <1>9 DEF more

\* No values list no samples.
LEMMA EmptyListing == ASSUME NEW reading PROVE Lists(<<>>, {}, reading)
<1> DEFINE f == [k \in 1 .. 0 |-> k]
<1>1. 1 .. 0 = {} /\ Len(<<>>) = 0
  OBVIOUS
<1>2. f \in [1 .. 0 -> {}]
  BY <1>1
<1>3. IsListing(f, <<>>, 0, {}, reading)
  BY <1>1, <1>2 DEF IsListing
<1> QED BY <1>1, <1>3 DEF Lists

\* What Add makes of the fields.
LEMMA AddFields ==
  ASSUME NEW acc, IsAccumulator(acc), NEW p \in Point, AreRules(rules)
  PROVE  /\ IsAccumulator(Add(acc, p))
         /\ Add(acc, p).samples = acc.samples + 1
         /\ Add(acc, p).first <= acc.first /\ Add(acc, p).first <= p.at
         /\ acc.last <= Add(acc, p).last /\ p.at <= Add(acc, p).last
         /\ Add(acc, p).latencies = IF p.latency > 0 THEN Append(acc.latencies, p.latency)
                                    ELSE acc.latencies
         /\ p.class = OK =>
              /\ Add(acc, p).ok = acc.ok + 1 /\ Add(acc, p).errors = acc.errors
              /\ Add(acc, p).lagBlocks = Append(acc.lagBlocks, p.lag[1])
              /\ Add(acc, p).lagSeconds = Append(acc.lagSeconds, p.lag[2])
              /\ acc.lagBlocksMax <= Add(acc, p).lagBlocksMax
                 /\ p.lag[1] <= Add(acc, p).lagBlocksMax
              /\ acc.lagSecondsMax <= Add(acc, p).lagSecondsMax
                 /\ p.lag[2] <= Add(acc, p).lagSecondsMax
              /\ Add(acc, p).leaders = acc.leaders + IF Leads(p) THEN 1 ELSE 0
              /\ Add(acc, p).stale = acc.stale + IF Stale(p) THEN 1 ELSE 0
         /\ p.class # OK =>
              /\ p.class \in ErrClass
              /\ Add(acc, p).errors = [acc.errors EXCEPT ![p.class] = @ + 1]
              /\ Add(acc, p).ok = acc.ok /\ Add(acc, p).lagBlocks = acc.lagBlocks
              /\ Add(acc, p).lagSeconds = acc.lagSeconds
              /\ Add(acc, p).lagBlocksMax = acc.lagBlocksMax
              /\ Add(acc, p).lagSecondsMax = acc.lagSecondsMax
              /\ Add(acc, p).leaders = acc.leaders /\ Add(acc, p).stale = acc.stale
<1> DEFINE first == Min({acc.first, p.at})
           last == Max({acc.last, p.at})
           latencyMax == Max({acc.latencyMax, p.latency})
           blocksMax == Max({acc.lagBlocksMax, p.lag[1]})
           secondsMax == Max({acc.lagSecondsMax, p.lag[2]})
           latencies == IF p.latency > 0 THEN Append(acc.latencies, p.latency) ELSE acc.latencies
           polled == Polled(acc, p)
<1>1. /\ p.at \in Nat /\ p.latency \in Nat /\ p.lag[1] \in Nat /\ p.lag[2] \in Nat
      /\ p.class = OK \/ p.class \in ErrClass
  BY PointFields
<1>2. /\ acc.first \in Nat /\ acc.last \in Nat /\ acc.latencyMax \in Nat
      /\ acc.lagBlocksMax \in Nat /\ acc.lagSecondsMax \in Nat
      /\ acc.latencies \in Seq(Nat) /\ acc.lagBlocks \in Seq(Nat) /\ acc.lagSeconds \in Seq(Nat)
  BY DEF IsAccumulator
<1>3. first \in Nat /\ first <= acc.first /\ first <= p.at
  <2>1. acc.first \in Nat /\ p.at \in Nat /\ acc.first \in Int /\ p.at \in Int
    BY <1>1, <1>2
  <2> QED BY ONLY <2>1, MinOfTwo
<1>4. last \in Nat /\ acc.last <= last /\ p.at <= last
  <2>1. acc.last \in Nat /\ p.at \in Nat /\ acc.last \in Int /\ p.at \in Int
    BY <1>1, <1>2
  <2> QED BY ONLY <2>1, MaxOfTwo
<1>5. latencyMax \in Nat
  <2>1. acc.latencyMax \in Nat /\ p.latency \in Nat /\ acc.latencyMax \in Int /\ p.latency \in Int
    BY <1>1, <1>2
  <2> QED BY ONLY <2>1, MaxOfTwo
<1>6. blocksMax \in Nat /\ acc.lagBlocksMax <= blocksMax /\ p.lag[1] <= blocksMax
  <2>1. acc.lagBlocksMax \in Nat /\ p.lag[1] \in Nat /\ acc.lagBlocksMax \in Int
        /\ p.lag[1] \in Int
    BY <1>1, <1>2
  <2> QED BY ONLY <2>1, MaxOfTwo
<1>7. secondsMax \in Nat /\ acc.lagSecondsMax <= secondsMax /\ p.lag[2] <= secondsMax
  <2>1. acc.lagSecondsMax \in Nat /\ p.lag[2] \in Nat /\ acc.lagSecondsMax \in Int
        /\ p.lag[2] \in Int
    BY <1>1, <1>2
  <2> QED BY ONLY <2>1, MaxOfTwo
<1>8. latencies \in Seq(Nat)
  BY <1>1, <1>2
<1>9. polled = [acc EXCEPT !.samples = @ + 1, !.first = first, !.last = last,
                           !.latencies = latencies, !.latencyMax = latencyMax]
  BY DEF Polled
<1> HIDE DEF first, last, latencyMax, blocksMax, secondsMax, latencies, polled
<1>10. /\ IsAccumulator(polled)
       /\ polled.samples = acc.samples + 1 /\ polled.first = first /\ polled.last = last
       /\ polled.latencies = latencies
       /\ polled.ok = acc.ok /\ polled.errors = acc.errors
       /\ polled.lagBlocks = acc.lagBlocks /\ polled.lagSeconds = acc.lagSeconds
       /\ polled.lagBlocksMax = acc.lagBlocksMax /\ polled.lagSecondsMax = acc.lagSecondsMax
       /\ polled.leaders = acc.leaders /\ polled.stale = acc.stale
  BY <1>3, <1>4, <1>5, <1>8, <1>9 DEF IsAccumulator
<1> DEFINE new == Add(acc, p)
<1>11. CASE p.class = OK
  <2> DEFINE leaders == Count(acc.leaders, Leads(p))
             stale == Count(acc.stale, Stale(p))
             blocks == Append(acc.lagBlocks, p.lag[1])
             seconds == Append(acc.lagSeconds, p.lag[2])
  <2>1. new = [polled EXCEPT !.ok = @ + 1, !.lagBlocks = blocks, !.lagSeconds = seconds,
                             !.lagBlocksMax = blocksMax, !.lagSecondsMax = secondsMax,
                             !.leaders = leaders, !.stale = stale]
    BY <1>10, <1>11 DEF Add, Answered, polled, blocksMax, secondsMax
  <2>2. /\ leaders = acc.leaders + (IF Leads(p) THEN 1 ELSE 0) /\ leaders \in Nat
        /\ stale = acc.stale + (IF Stale(p) THEN 1 ELSE 0) /\ stale \in Nat
    BY DEF Count, IsAccumulator
  <2>3. blocks \in Seq(Nat) /\ seconds \in Seq(Nat)
    BY <1>1, <1>2
  <2> HIDE DEF leaders, stale, blocks, seconds, new
  <2>4. /\ IsAccumulator(new)
        /\ new.samples = polled.samples /\ new.first = first /\ new.last = last
        /\ new.latencies = latencies /\ new.ok = acc.ok + 1 /\ new.errors = acc.errors
        /\ new.lagBlocks = blocks /\ new.lagSeconds = seconds
        /\ new.lagBlocksMax = blocksMax /\ new.lagSecondsMax = secondsMax
        /\ new.leaders = leaders /\ new.stale = stale
    <3>1. /\ DOMAIN polled = DOMAIN new
          /\ new.samples = polled.samples /\ new.first = polled.first /\ new.last = polled.last
          /\ new.latencies = polled.latencies /\ new.errors = polled.errors
          /\ new.latencyMax = polled.latencyMax
      BY <1>10, <2>1 DEF IsAccumulator
    <3>2. /\ new.ok = polled.ok + 1
          /\ new.lagBlocks = blocks /\ new.lagSeconds = seconds
          /\ new.lagBlocksMax = blocksMax /\ new.lagSecondsMax = secondsMax
          /\ new.leaders = leaders /\ new.stale = stale
      BY <1>10, <2>1 DEF IsAccumulator
    <3>3. IsAccumulator(new)
      <4>1. /\ DOMAIN new = {"samples", "ok", "errors", "latencies", "lagBlocks", "lagSeconds",
                             "latencyMax", "lagBlocksMax", "lagSecondsMax", "leaders", "stale",
                             "first", "last"}
            /\ new.samples \in Nat /\ new.errors \in [ErrClass -> Nat]
            /\ new.latencies \in Seq(Nat) /\ new.latencyMax \in Nat
            /\ new.first \in Nat /\ new.last \in Nat /\ new.ok \in Nat
        BY <1>10, <3>1, <3>2 DEF IsAccumulator
      <4>2. /\ new.lagBlocks \in Seq(Nat) /\ new.lagSeconds \in Seq(Nat)
            /\ new.lagBlocksMax \in Nat /\ new.lagSecondsMax \in Nat
            /\ new.leaders \in Nat /\ new.stale \in Nat
        BY <1>6, <1>7, <2>2, <2>3, <3>2
      <4> QED BY ONLY <4>1, <4>2 DEF IsAccumulator
    <3> QED BY <1>10, <3>1, <3>2, <3>3
  <2> QED BY <1>3, <1>4, <1>6, <1>7, <1>10, <1>11, <2>2, <2>4 DEF new, blocks, seconds, latencies
<1>12. CASE p.class # OK
  <2>1. p.class \in ErrClass /\ new = [polled EXCEPT !.errors[p.class] = @ + 1]
    BY <1>1, <1>12 DEF Add, polled
  <2> HIDE DEF new
  <2>2. /\ IsAccumulator(new)
        /\ new.samples = polled.samples /\ new.first = first /\ new.last = last
        /\ new.latencies = latencies /\ new.ok = acc.ok
        /\ new.errors = [acc.errors EXCEPT ![p.class] = @ + 1]
        /\ new.lagBlocks = acc.lagBlocks /\ new.lagSeconds = acc.lagSeconds
        /\ new.lagBlocksMax = acc.lagBlocksMax /\ new.lagSecondsMax = acc.lagSecondsMax
        /\ new.leaders = acc.leaders /\ new.stale = acc.stale
    <3> DEFINE errors == [acc.errors EXCEPT ![p.class] = @ + 1]
    <3>1. errors \in [ErrClass -> Nat] /\ new = [polled EXCEPT !.errors = errors]
      <4>1. polled.errors = acc.errors /\ acc.errors \in [ErrClass -> Nat]
        BY <1>10 DEF IsAccumulator
      <4>2. errors \in [ErrClass -> Nat]
        BY <2>1, <4>1
      <4>3. new = [polled EXCEPT !.errors = [polled.errors EXCEPT ![p.class] = @ + 1]]
        BY <2>1
      <4> QED BY <4>1, <4>2, <4>3
    <3> HIDE DEF errors
    <3>2. /\ DOMAIN polled = DOMAIN new
          /\ new.samples = polled.samples /\ new.first = polled.first /\ new.last = polled.last
          /\ new.latencies = polled.latencies /\ new.errors = errors
          /\ new.latencyMax = polled.latencyMax
      BY <1>10, <3>1 DEF IsAccumulator
    <3>3. /\ new.ok = polled.ok /\ new.lagBlocks = polled.lagBlocks
          /\ new.lagSeconds = polled.lagSeconds
          /\ new.lagBlocksMax = polled.lagBlocksMax /\ new.lagSecondsMax = polled.lagSecondsMax
          /\ new.leaders = polled.leaders /\ new.stale = polled.stale
      BY <1>10, <3>1 DEF IsAccumulator
    <3>4. IsAccumulator(new)
      BY <1>10, <3>1, <3>2, <3>3 DEF IsAccumulator
    <3> QED BY <1>10, <3>2, <3>3, <3>4 DEF errors
  <2> QED BY <1>3, <1>4, <1>10, <1>12, <2>1, <2>2 DEF new, latencies
<1> QED BY <1>11, <1>12

\* The kinds of samples, with one sample more.
LEMMA KindsOfOneMore ==
  ASSUME NEW S, NEW i
  PROVE  /\ HealthyIn(S \cup {i}) = HealthyIn(S) \cup IF points[i].class = OK THEN {i} ELSE {}
         /\ \A c : FailedIn(S \cup {i}, c) = FailedIn(S, c) \cup
                     IF points[i].class # OK /\ points[i].class = c THEN {i} ELSE {}
         /\ TimedIn(S \cup {i}) = TimedIn(S) \cup IF points[i].latency > 0 THEN {i} ELSE {}
         /\ LeadingIn(S \cup {i}) = LeadingIn(S) \cup
              IF points[i].class = OK /\ Leads(points[i]) THEN {i} ELSE {}
         /\ StaleIn(S \cup {i}) = StaleIn(S) \cup
              IF points[i].class = OK /\ Stale(points[i]) THEN {i} ELSE {}
<1>1. HealthyIn(S \cup {i}) = HealthyIn(S) \cup IF points[i].class = OK THEN {i} ELSE {}
  BY DEF HealthyIn
<1>2. ASSUME NEW c
      PROVE  FailedIn(S \cup {i}, c) = FailedIn(S, c) \cup
               IF points[i].class # OK /\ points[i].class = c THEN {i} ELSE {}
  BY DEF FailedIn
<1>3. TimedIn(S \cup {i}) = TimedIn(S) \cup IF points[i].latency > 0 THEN {i} ELSE {}
  BY DEF TimedIn
<1>4. LeadingIn(S \cup {i}) = LeadingIn(S) \cup
        IF points[i].class = OK /\ Leads(points[i]) THEN {i} ELSE {}
  BY DEF LeadingIn
<1>5. StaleIn(S \cup {i}) = StaleIn(S) \cup
        IF points[i].class = OK /\ Stale(points[i]) THEN {i} ELSE {}
  BY DEF StaleIn
<1> QED BY <1>1, <1>2, <1>3, <1>4, <1>5

\* Every kind is a part of the samples.
LEMMA KindsAreParts ==
  ASSUME NEW S, IsFiniteSet(S)
  PROVE  /\ HealthyIn(S) \subseteq S /\ IsFiniteSet(HealthyIn(S))
         /\ \A c : FailedIn(S, c) \subseteq S /\ IsFiniteSet(FailedIn(S, c))
         /\ TimedIn(S) \subseteq S /\ IsFiniteSet(TimedIn(S))
         /\ LeadingIn(S) \subseteq HealthyIn(S) /\ IsFiniteSet(LeadingIn(S))
         /\ StaleIn(S) \subseteq HealthyIn(S) /\ IsFiniteSet(StaleIn(S))
<1>1. /\ HealthyIn(S) \subseteq S /\ TimedIn(S) \subseteq S
      /\ \A c : FailedIn(S, c) \subseteq S
      /\ LeadingIn(S) \subseteq HealthyIn(S) /\ StaleIn(S) \subseteq HealthyIn(S)
      /\ LeadingIn(S) \subseteq S /\ StaleIn(S) \subseteq S
  BY DEF HealthyIn, TimedIn, FailedIn, LeadingIn, StaleIn
<1>2. \A T \in SUBSET S : IsFiniteSet(T)
  BY FS_Subset
<1> QED BY <1>1, <1>2

\* Adding one element adds one to a count.
LEMMA OneMore ==
  ASSUME NEW T, IsFiniteSet(T), NEW i, i \notin T, NEW b \in BOOLEAN
  PROVE  Cardinality(T \cup IF b THEN {i} ELSE {}) = Cardinality(T) + IF b THEN 1 ELSE 0
<1>1. Cardinality(T) \in Nat
  BY FS_CardinalityType
<1>2. CASE b
  <2>1. Cardinality(T \cup {i}) = Cardinality(T) + 1
    BY FS_AddElement
  <2> QED BY <1>2, <2>1
<1>3. CASE ~b
  <2>1. T \cup {} = T
    OBVIOUS
  <2> QED BY <1>1, <1>3, <2>1
<1> QED BY <1>2, <1>3

\* Add keeps the counts right.
LEMMA AddCounts ==
  ASSUME points \in Seq(Point), AreRules(rules), NEW S \in SUBSET DOMAIN points, IsFiniteSet(S),
         NEW i \in DOMAIN points, i \notin S, NEW acc, IsAccumulator(acc), Counts(acc, S)
  PROVE  Counts(Add(acc, points[i]), S \cup {i})
<1> DEFINE p == points[i]
           new == Add(acc, p)
<1>1. p \in Point
  OBVIOUS
<1>2. /\ new.samples = acc.samples + 1
      /\ p.class = OK =>
           /\ new.ok = acc.ok + 1 /\ new.errors = acc.errors
           /\ new.leaders = acc.leaders + IF Leads(p) THEN 1 ELSE 0
           /\ new.stale = acc.stale + IF Stale(p) THEN 1 ELSE 0
      /\ p.class # OK =>
           /\ p.class \in ErrClass /\ new.errors = [acc.errors EXCEPT ![p.class] = @ + 1]
           /\ new.ok = acc.ok /\ new.leaders = acc.leaders /\ new.stale = acc.stale
  BY <1>1, AddFields
<1>3. /\ acc.samples \in Nat /\ acc.ok \in Nat /\ acc.errors \in [ErrClass -> Nat]
      /\ acc.leaders \in Nat /\ acc.stale \in Nat
  BY DEF IsAccumulator
<1> HIDE DEF new, p
<1>4. /\ IsFiniteSet(HealthyIn(S)) /\ i \notin HealthyIn(S)
      /\ IsFiniteSet(LeadingIn(S)) /\ i \notin LeadingIn(S)
      /\ IsFiniteSet(StaleIn(S)) /\ i \notin StaleIn(S)
      /\ \A c : IsFiniteSet(FailedIn(S, c)) /\ i \notin FailedIn(S, c)
  BY KindsAreParts
<1>5. new.samples = Cardinality(S \cup {i})
  <2>1. Cardinality(S \cup {i}) = Cardinality(S) + 1
    BY FS_AddElement
  <2> QED BY <1>2, <2>1 DEF Counts
<1>6. new.ok = Cardinality(HealthyIn(S \cup {i}))
  <2>1. HealthyIn(S \cup {i}) = HealthyIn(S) \cup IF p.class = OK THEN {i} ELSE {}
    BY KindsOfOneMore DEF p
  <2>2. Cardinality(HealthyIn(S \cup {i})) = Cardinality(HealthyIn(S)) + IF p.class = OK THEN 1 ELSE 0
    BY <1>4, <2>1, OneMore
  <2> QED BY <1>2, <1>3, <2>2 DEF Counts
<1>7. new.leaders = Cardinality(LeadingIn(S \cup {i}))
  <2>1. LeadingIn(S \cup {i}) = LeadingIn(S) \cup IF p.class = OK /\ Leads(p) THEN {i} ELSE {}
    BY KindsOfOneMore DEF p
  <2>2. Cardinality(LeadingIn(S \cup {i})) =
          Cardinality(LeadingIn(S)) + IF p.class = OK /\ Leads(p) THEN 1 ELSE 0
    BY <1>4, <2>1, OneMore
  <2> QED BY <1>2, <1>3, <2>2 DEF Counts
<1>8. new.stale = Cardinality(StaleIn(S \cup {i}))
  <2>1. StaleIn(S \cup {i}) = StaleIn(S) \cup IF p.class = OK /\ Stale(p) THEN {i} ELSE {}
    BY KindsOfOneMore DEF p
  <2>2. Cardinality(StaleIn(S \cup {i})) =
          Cardinality(StaleIn(S)) + IF p.class = OK /\ Stale(p) THEN 1 ELSE 0
    BY <1>4, <2>1, OneMore
  <2> QED BY <1>2, <1>3, <2>2 DEF Counts
<1>9. ASSUME NEW c \in ErrClass PROVE new.errors[c] = Cardinality(FailedIn(S \cup {i}, c))
  <2>1. FailedIn(S \cup {i}, c) = FailedIn(S, c) \cup IF p.class # OK /\ p.class = c THEN {i} ELSE {}
    BY KindsOfOneMore DEF p
  <2>2. Cardinality(FailedIn(S \cup {i}, c)) =
          Cardinality(FailedIn(S, c)) + IF p.class # OK /\ p.class = c THEN 1 ELSE 0
    BY <1>4, <2>1, OneMore
  <2>3. acc.errors[c] = Cardinality(FailedIn(S, c)) /\ acc.errors[c] \in Nat
    BY <1>3 DEF Counts
  <2>4. new.errors[c] = acc.errors[c] + IF p.class # OK /\ p.class = c THEN 1 ELSE 0
    BY <1>2, <1>3, <2>3
  <2> QED BY <2>2, <2>3, <2>4
<1> QED BY <1>5, <1>6, <1>7, <1>8, <1>9 DEF Counts, new, p

\* Add keeps the value lists right.
LEMMA AddListsReadings ==
  ASSUME points \in Seq(Point), AreRules(rules), NEW S \in SUBSET DOMAIN points, IsFiniteSet(S),
         NEW i \in DOMAIN points, i \notin S, NEW acc, IsAccumulator(acc), ListsReadings(acc, S)
  PROVE  ListsReadings(Add(acc, points[i]), S \cup {i})
<1> DEFINE p == points[i]
           new == Add(acc, p)
<1>1. /\ p \in Point /\ Latencies[i] = p.latency /\ LagBlocks[i] = p.lag[1]
      /\ LagSeconds[i] = p.lag[2]
  BY DEF Latencies, LagBlocks, LagSeconds
<1>2. /\ new.latencies = IF p.latency > 0 THEN Append(acc.latencies, p.latency) ELSE acc.latencies
      /\ p.class = OK => /\ new.lagBlocks = Append(acc.lagBlocks, p.lag[1])
                         /\ new.lagSeconds = Append(acc.lagSeconds, p.lag[2])
      /\ p.class # OK => new.lagBlocks = acc.lagBlocks /\ new.lagSeconds = acc.lagSeconds
  <2>1. IsAccumulator(acc) /\ p \in Point /\ AreRules(rules)
    BY <1>1
  <2> HIDE DEF p
  <2> QED BY ONLY <2>1, AddFields DEF new
<1>3. /\ p.latency \in Nat /\ p.lag[1] \in Nat /\ p.lag[2] \in Nat
  BY <1>1, PointFields
<1>4. /\ acc.latencies \in Seq(Nat) /\ acc.lagBlocks \in Seq(Nat) /\ acc.lagSeconds \in Seq(Nat)
  BY DEF IsAccumulator
<1> HIDE DEF new, p
<1>5. i \notin HealthyIn(S) /\ i \notin TimedIn(S)
  BY KindsAreParts
<1>6. /\ HealthyIn(S \cup {i}) = IF p.class = OK THEN HealthyIn(S) \cup {i} ELSE HealthyIn(S)
      /\ TimedIn(S \cup {i}) = IF p.latency > 0 THEN TimedIn(S) \cup {i} ELSE TimedIn(S)
  <2>1. HealthyIn(S \cup {i}) = HealthyIn(S) \cup IF p.class = OK THEN {i} ELSE {}
    BY KindsOfOneMore DEF p
  <2>2. TimedIn(S \cup {i}) = TimedIn(S) \cup IF p.latency > 0 THEN {i} ELSE {}
    BY KindsOfOneMore DEF p
  <2>3. HealthyIn(S) \cup {} = HealthyIn(S) /\ TimedIn(S) \cup {} = TimedIn(S)
    OBVIOUS
  <2> QED BY <2>1, <2>2, <2>3
<1>7. Lists(new.latencies, TimedIn(S \cup {i}), Latencies)
  <2>1. Lists(acc.latencies, TimedIn(S), Latencies)
    BY DEF ListsReadings
  <2>2. CASE p.latency > 0
    <3>1. Lists(Append(acc.latencies, Latencies[i]), TimedIn(S) \cup {i}, Latencies)
      BY <1>1, <1>3, <1>4, <1>5, <2>1, ListExtended
    <3> QED BY <1>1, <1>2, <1>6, <2>2, <3>1
  <2>3. CASE ~(p.latency > 0)
    BY <1>2, <1>6, <2>1, <2>3
  <2> QED BY <2>2, <2>3
<1>8. Lists(new.lagBlocks, HealthyIn(S \cup {i}), LagBlocks)
  <2>1. Lists(acc.lagBlocks, HealthyIn(S), LagBlocks)
    BY DEF ListsReadings
  <2>2. CASE p.class = OK
    <3>1. Lists(Append(acc.lagBlocks, LagBlocks[i]), HealthyIn(S) \cup {i}, LagBlocks)
      BY <1>1, <1>3, <1>4, <1>5, <2>1, ListExtended
    <3> QED BY <1>1, <1>2, <1>6, <2>2, <3>1
  <2>3. CASE p.class # OK
    BY <1>2, <1>6, <2>1, <2>3
  <2> QED BY <2>2, <2>3
<1>9. Lists(new.lagSeconds, HealthyIn(S \cup {i}), LagSeconds)
  <2>1. Lists(acc.lagSeconds, HealthyIn(S), LagSeconds)
    BY DEF ListsReadings
  <2>2. CASE p.class = OK
    <3>1. Lists(Append(acc.lagSeconds, LagSeconds[i]), HealthyIn(S) \cup {i}, LagSeconds)
      BY <1>1, <1>3, <1>4, <1>5, <2>1, ListExtended
    <3> QED BY <1>1, <1>2, <1>6, <2>2, <3>1
  <2>3. CASE p.class # OK
    BY <1>2, <1>6, <2>1, <2>3
  <2> QED BY <2>2, <2>3
<1> QED BY <1>7, <1>8, <1>9 DEF ListsReadings, new, p

\* Add keeps the extremes right.
LEMMA AddBounds ==
  ASSUME points \in Seq(Point), AreRules(rules), NEW S \in SUBSET DOMAIN points,
         NEW i \in DOMAIN points, NEW acc, IsAccumulator(acc), Bounds(acc, S)
  PROVE  Bounds(Add(acc, points[i]), S \cup {i})
<1> DEFINE p == points[i]
           new == Add(acc, p)
<1>1. p \in Point /\ \A k \in DOMAIN points : points[k] \in Point
  OBVIOUS
<1>2. \A k \in DOMAIN points :
        points[k].at \in Nat /\ points[k].lag[1] \in Nat /\ points[k].lag[2] \in Nat
  BY <1>1, PointFields
<1>3. /\ IsAccumulator(new)
      /\ new.first <= acc.first /\ new.first <= p.at /\ acc.last <= new.last /\ p.at <= new.last
      /\ acc.lagBlocksMax <= new.lagBlocksMax /\ acc.lagSecondsMax <= new.lagSecondsMax
      /\ p.class = OK => p.lag[1] <= new.lagBlocksMax /\ p.lag[2] <= new.lagSecondsMax
  <2>1. /\ acc.lagBlocksMax \in Nat /\ acc.lagSecondsMax \in Nat
        /\ IsAccumulator(acc) /\ p \in Point /\ AreRules(rules)
    BY <1>1 DEF IsAccumulator
  <2> HIDE DEF p
  <2>2. /\ IsAccumulator(new)
        /\ new.first <= acc.first /\ new.first <= p.at /\ acc.last <= new.last /\ p.at <= new.last
    BY ONLY <2>1, AddFields DEF new
  <2>3. CASE p.class = OK
    BY ONLY <2>1, <2>2, <2>3, AddFields DEF new
  <2>4. CASE p.class # OK
    <3>1. new.lagBlocksMax = acc.lagBlocksMax /\ new.lagSecondsMax = acc.lagSecondsMax
      BY ONLY <2>1, <2>4, AddFields DEF new
    <3> QED BY <2>1, <2>2, <2>4, <3>1
  <2> QED BY <2>3, <2>4
<1> HIDE DEF new
<1>4. /\ acc.first \in Nat /\ acc.last \in Nat /\ acc.lagBlocksMax \in Nat
         /\ acc.lagSecondsMax \in Nat
      /\ new.first \in Nat /\ new.last \in Nat /\ new.lagBlocksMax \in Nat
         /\ new.lagSecondsMax \in Nat
  BY <1>3 DEF IsAccumulator
<1>5. ASSUME NEW k \in S \cup {i} PROVE new.first <= points[k].at /\ points[k].at <= new.last
  <2>1. CASE k = i
    BY <1>3, <2>1
  <2>2. CASE k \in S
    <3>1. acc.first <= points[k].at /\ points[k].at <= acc.last /\ points[k].at \in Nat
      BY <1>2, <2>2 DEF Bounds
    <3> QED BY <1>3, <1>4, <3>1
  <2> QED BY <2>1, <2>2
<1>6. ASSUME NEW k \in HealthyIn(S \cup {i})
      PROVE  points[k].lag[1] <= new.lagBlocksMax /\ points[k].lag[2] <= new.lagSecondsMax
  <2>1. CASE k = i
    BY <1>3, <2>1 DEF HealthyIn
  <2>2. CASE k \in S
    <3>1. k \in HealthyIn(S) /\ points[k].lag[1] \in Nat /\ points[k].lag[2] \in Nat
      BY <1>2, <2>2 DEF HealthyIn
    <3>2. points[k].lag[1] <= acc.lagBlocksMax /\ points[k].lag[2] <= acc.lagSecondsMax
      BY <3>1 DEF Bounds
    <3> QED BY <1>3, <1>4, <3>1, <3>2
  <2> QED BY <2>1, <2>2 DEF HealthyIn
<1> QED BY <1>5, <1>6 DEF Bounds, new

\* So an accumulator that describes S describes S and one sample more after it.
LEMMA AddDescribes ==
  ASSUME points \in Seq(Point), AreRules(rules), NEW S \in SUBSET DOMAIN points, IsFiniteSet(S),
         NEW i \in DOMAIN points, i \notin S, NEW acc, Describes(acc, S)
  PROVE  Describes(Add(acc, points[i]), S \cup {i})
<1>1. IsAccumulator(acc) /\ Counts(acc, S) /\ ListsReadings(acc, S) /\ Bounds(acc, S)
  BY DEF Describes
<1>2. points[i] \in Point
  OBVIOUS
<1>3. IsAccumulator(Add(acc, points[i]))
  BY <1>1, <1>2, AddFields
<1> QED BY <1>1, <1>3, AddCounts, AddListsReadings, AddBounds DEF Describes

\* A new accumulator, once its first sample is added, describes that sample.
LEMMA NewDescribes ==
  ASSUME NEW p \in Point PROVE Describes(NewAccumulator(p), {})
<1> DEFINE new == NewAccumulator(p)
<1>1. IsAccumulator(new)
  <2>1. p.at \in Nat
    BY PointFields
  <2> QED BY <2>1 DEF NewAccumulator, IsAccumulator
<1>2. /\ HealthyIn({}) = {} /\ TimedIn({}) = {} /\ LeadingIn({}) = {} /\ StaleIn({}) = {}
      /\ \A c : FailedIn({}, c) = {}
  BY DEF HealthyIn, TimedIn, FailedIn, LeadingIn, StaleIn
<1>3. Counts(new, {})
  BY <1>2, FS_EmptySet DEF Counts, NewAccumulator
<1>4. ListsReadings(new, {})
  BY <1>2, EmptyListing DEF ListsReadings, NewAccumulator
<1>5. Bounds(new, {})
  BY <1>2 DEF Bounds
<1> QED BY <1>1, <1>3, <1>4, <1>5 DEF Describes

-----------------------------------------------------------------------------
(* The series of an endpoint, and the stretches of it.                     *)

\* The samples of e in the order they are scanned.
IsSeries(s, e) ==
  /\ s \in Seq(DOMAIN points)
  /\ \A m \in 1 .. Len(s) : points[s[m]].endpoint = e
  /\ \A l, m \in 1 .. Len(s) : s[l] = s[m] => l = m
  /\ \A i \in Of(e) : \E m \in 1 .. Len(s) : s[m] = i
  /\ \A l, m \in 1 .. Len(s) : l < m => points[s[l]].at <= points[s[m]].at

\* The evidence is a sequence of samples.
LEMMA PointsTyped ==
  ASSUME points \in Seq(Point)
  PROVE  /\ Len(points) \in Nat /\ DOMAIN points = 1 .. Len(points)
         /\ IsFiniteSet(DOMAIN points)
         /\ \A i \in DOMAIN points : points[i] \in Point /\ points[i].endpoint \in Endpoint
                                     /\ points[i].at \in Nat
         /\ \A e : Of(e) \subseteq DOMAIN points /\ IsFiniteSet(Of(e))
<1>1. Len(points) \in Nat /\ DOMAIN points = 1 .. Len(points)
  OBVIOUS
<1>2. IsFiniteSet(DOMAIN points)
  BY <1>1, FS_Interval
<1>3. \A i \in DOMAIN points : points[i] \in Point
  OBVIOUS
<1>4. \A i \in DOMAIN points : points[i].endpoint \in Endpoint /\ points[i].at \in Nat
  BY <1>3, PointFields
<1>5. ASSUME NEW e PROVE Of(e) \subseteq DOMAIN points /\ IsFiniteSet(Of(e))
  <2>1. Of(e) \subseteq DOMAIN points
    BY DEF Of
  <2> QED BY <1>2, <2>1, FS_Subset
<1> QED BY <1>1, <1>2, <1>3, <1>4, <1>5

\* Series(e), sorted by time, is all the samples of e, each once.
LEMMA SeriesIsSeries ==
  ASSUME points \in Seq(Point), NEW e
  PROVE  IsSeries(Series(e), e)
<1> DEFINE S == Of(e)
           less == [i \in S |-> {k \in S : points[k].at < points[i].at}]
           s == Series(e)
           n == Cardinality(S)
<1>1. /\ S \in SUBSET Int /\ IsFiniteSet(S) /\ S \subseteq DOMAIN points
      /\ \A i \in S : points[i].at \in Nat /\ points[i].endpoint = e
  <2>1. Of(e) \subseteq DOMAIN points /\ IsFiniteSet(Of(e)) /\ DOMAIN points \subseteq Int
    BY PointsTyped
  <2>2. \A i \in Of(e) : points[i].at \in Nat /\ points[i].endpoint = e
    BY <2>1, PointsTyped DEF Of
  <2> QED BY <2>1, <2>2
<1>2. s = StableOrder(less)
  BY DEF Series
<1> HIDE DEF S, s
<1>3. less \in [S -> SUBSET S] /\ \A x, y \in S : x \in less[y] <=> points[x].at < points[y].at
  OBVIOUS
<1> HIDE DEF less
<1>4. /\ IsArrangement(s, S, Stable(less))
      /\ \A i, j \in 1 .. n : i < j => s[j] \notin less[s[i]]
  <2>1. \A x \in S : x \notin less[x]
    BY <1>1, <1>3
  <2>2. \A x, y, z \in S : x \in less[y] /\ y \in less[z] => x \in less[z]
    BY <1>1, <1>3
  <2>3. \A x, y, z \in S : x \notin less[y] /\ y \notin less[z] => x \notin less[z]
    BY <1>1, <1>3
  <2> QED BY <1>1, <1>2, <1>3, <2>1, <2>2, <2>3, StableOrderIsOrder
<1> HIDE DEF n
<1>5. /\ n \in Nat /\ s \in [1 .. n -> S]
      /\ \A i, j \in 1 .. n : s[i] = s[j] => i = j
      /\ \A x \in S : \E i \in 1 .. n : s[i] = x
  BY <1>4 DEF IsArrangement, n
<1>6. s \in Seq(DOMAIN points) /\ Len(s) = n
  <2>1. s \in [1 .. n -> DOMAIN points] /\ n \in Nat
    BY ONLY <1>1, <1>5
  <2> QED BY ONLY <2>1
<1>7. \A m \in 1 .. n : s[m] \in S
  BY <1>5
<1>8. ASSUME NEW l \in 1 .. n, NEW m \in 1 .. n, l < m PROVE points[s[l]].at <= points[s[m]].at
  <2>1. s[m] \notin less[s[l]] /\ s[l] \in S /\ s[m] \in S
    BY <1>4, <1>7, <1>8
  <2>2. ~(points[s[m]].at < points[s[l]].at) /\ points[s[m]].at \in Nat /\ points[s[l]].at \in Nat
    BY <1>1, <1>3, <2>1
  <2> QED BY <2>2
<1> QED BY <1>1, <1>5, <1>6, <1>7, <1>8 DEF IsSeries, s, S

-----------------------------------------------------------------------------
(* Incidents and the runs they tell of.                                    *)

\* Incidents, by their fields.
IsIncident(inc) ==
  /\ DOMAIN inc = {"kind", "endpoint", "start", "end", "samples", "blocks", "seconds",
                   "detail", "polls"}
  /\ inc.endpoint \in Endpoint /\ inc.start \in Nat /\ inc.end \in Nat /\ inc.samples \in Nat
  /\ inc.blocks \in Nat /\ inc.seconds \in Nat /\ inc.detail \in Seq(ErrClass)

\* The samples i to j of a series.
Stretch(s, i, j) == {s[m] : m \in i .. j}

\* A stretch with one sample more.
LEMMA StretchGrows ==
  ASSUME NEW s, NEW i \in Nat, NEW j \in Nat, i <= j + 1
  PROVE  Stretch(s, i, j + 1) = Stretch(s, i, j) \cup {s[j + 1]}
<1>1. i .. j + 1 = (i .. j) \cup {j + 1}
  OBVIOUS
<1> QED BY <1>1 DEF Stretch

\* The running maximum is the peak of one sample more.
LEMMA PeakGrows ==
  ASSUME NEW v \in Nat, NEW w \in Nat, NEW S \in SUBSET Nat, IsPeak(v, S)
  PROVE  IsPeak(Max({v, w}), S \cup {w})
<1>1. Max({v, w}) \in {v, w} /\ v <= Max({v, w}) /\ w <= Max({v, w}) /\ Max({v, w}) \in Nat
  <2>1. v \in Int /\ w \in Int
    OBVIOUS
  <2> QED BY <2>1, MaxOfTwo
<1>2. \A u \in S \cup {w} : u <= Max({v, w})
  <2> SUFFICES ASSUME NEW u \in S PROVE u <= Max({v, w})
    BY <1>1
  <2>1. u <= v /\ u \in Nat
    BY DEF IsPeak
  <2> QED BY <1>1, <2>1
<1> QED BY <1>1, <1>2 DEF IsPeak

\* What a sample that joins changes.
LEMMA ProlongedFields ==
  ASSUME NEW inc, IsIncident(inc), NEW i \in DOMAIN points, points \in Seq(Point)
  PROVE  LET p == points[i]
             new == Prolonged(inc, i)
         IN  /\ IsIncident(new)
             /\ new.kind = inc.kind /\ new.endpoint = inc.endpoint /\ new.start = inc.start
             /\ new.end = p.at /\ new.samples = inc.samples + 1
             /\ new.blocks = Max({inc.blocks, p.lag[1]})
             /\ new.seconds = Max({inc.seconds, p.lag[2]})
             /\ ToSet(new.detail) = ToSet(inc.detail) \cup ({p.class} \ {OK})
             /\ new.polls = inc.polls \cup {i}
<1> DEFINE p == points[i]
           new == Prolonged(inc, i)
           blocks == Max({inc.blocks, p.lag[1]})
           seconds == Max({inc.seconds, p.lag[2]})
           detail == IF p.class # OK /\ inc.detail # <<p.class>>
                     THEN Append(inc.detail, p.class) ELSE inc.detail
<1>1. /\ p.at \in Nat /\ p.lag[1] \in Nat /\ p.lag[2] \in Nat
      /\ p.class = OK \/ p.class \in ErrClass
  <2>1. p \in Point
    OBVIOUS
  <2> QED BY <2>1, PointFields
<1> HIDE DEF p
<1>2. blocks \in Nat
  <2>1. /\ inc.blocks \in Nat /\ p.lag[1] \in Nat /\ inc.blocks \in Int /\ p.lag[1] \in Int
    BY <1>1 DEF IsIncident
  <2> QED BY ONLY <2>1, MaxOfTwo
<1>3. seconds \in Nat
  <2>1. /\ inc.seconds \in Nat /\ p.lag[2] \in Nat /\ inc.seconds \in Int /\ p.lag[2] \in Int
    BY <1>1 DEF IsIncident
  <2> QED BY ONLY <2>1, MaxOfTwo
<1>4. detail \in Seq(ErrClass) /\ ToSet(detail) = ToSet(inc.detail) \cup ({p.class} \ {OK})
  <2>1. inc.detail \in Seq(ErrClass)
    BY DEF IsIncident
  <2>2. CASE p.class = OK
    BY <2>1, <2>2
  <2>3. CASE p.class # OK /\ inc.detail = <<p.class>>
    <3>1. ToSet(inc.detail) = {p.class}
      BY <2>3 DEF ToSet
    <3> QED BY <2>1, <2>3, <3>1
  <2>4. CASE p.class # OK /\ inc.detail # <<p.class>>
    <3> DEFINE d == inc.detail
               more == Append(d, p.class)
    <3>1. detail = more
      BY <2>4
    <3>2. /\ more \in Seq(ErrClass) /\ Len(more) = Len(d) + 1 /\ Len(d) \in Nat
          /\ more[Len(d) + 1] = p.class /\ \A k \in 1 .. Len(d) : more[k] = d[k]
          /\ DOMAIN more = 1 .. Len(d) + 1 /\ DOMAIN d = 1 .. Len(d)
      BY <1>1, <2>1, <2>4, AppendProperties
    <3> HIDE DEF d, more
    <3>3. ToSet(more) = ToSet(d) \cup {p.class}
      BY <3>2 DEF ToSet
    <3> QED BY <2>4, <3>1, <3>2, <3>3 DEF d
  <2> QED BY <2>2, <2>3, <2>4
<1> HIDE DEF blocks, seconds, detail
<1>5. new = [inc EXCEPT !.end = p.at, !.samples = @ + 1, !.blocks = blocks, !.seconds = seconds,
                        !.detail = detail, !.polls = @ \cup {i}]
  BY DEF Prolonged, blocks, seconds, detail, p
<1> HIDE DEF new
<1>6. /\ DOMAIN new = DOMAIN inc
      /\ new.kind = inc.kind /\ new.endpoint = inc.endpoint /\ new.start = inc.start
      /\ new.end = p.at /\ new.samples = inc.samples + 1
      /\ new.blocks = blocks /\ new.seconds = seconds /\ new.detail = detail
      /\ new.polls = inc.polls \cup {i}
  BY <1>5 DEF IsIncident
<1>7. IsIncident(new)
  BY <1>1, <1>2, <1>3, <1>4, <1>6 DEF IsIncident
<1> QED BY <1>4, <1>6, <1>7 DEF new, blocks, seconds, p

-----------------------------------------------------------------------------
(* The first pass of the audit: every sample is added to its accumulator.  *)

\* Where the passes are: all samples are added before any is scanned.
Passes ==
  /\ points \in Evidence /\ AreRules(rules) /\ divergences \in Divergences
  /\ name \in 1 .. N + 1 /\ series = Series(name) /\ pos \in 1 .. Len(series) + 1
  /\ added \in 0 .. Len(points) /\ (added = Len(points) \/ name = 1)

\* Every accumulator describes the samples of its endpoint added so far.
AddedOf(e) == {i \in 1 .. added : points[i].endpoint = e}

\* The table has a row for an endpoint with its first sample.
Accumulated ==
  /\ DOMAIN byEndpoint = {points[i].endpoint : i \in 1 .. added}
  /\ \A e \in DOMAIN byEndpoint : Describes(byEndpoint[e], AddedOf(e))

\* A report is made of what the passes ended with.
Result ==
  [summaries |-> Summaries, incidents |-> Merged, findings |-> Findings(Summaries),
   upstreams |-> Upstreams(Summaries), lagAlert |-> SuggestedLagAlert(Summaries)]

\* The audit is made once, of the final tables.
Reported == Made => Done /\ report = Result

\* The assumptions on the constants, in one place.
LEMMA AuditConstants ==
  /\ N \in Nat /\ N # 0 /\ Endpoint = 1 .. N
  /\ \A s \in Evidence : s \in Seq(Point)
BY IncidentAssumption DEF Endpoint

\* Defaults keep rules rules.
LEMMA RulesTyped == ASSUME NEW r \in Flags PROVE AreRules(WithDefaults(r))
<1>1. r \in [blocks : Nat, seconds : Nat, samples : Int]
  BY AuditAssumption
<1> QED BY <1>1 DEF WithDefaults, AreRules

\* The series of an endpoint changes only with the evidence.
LEMMA SameSeries ==
  ASSUME points' = points, NEW e
  PROVE  Series(e)' = Series(e) /\ Of(e)' = Of(e)
BY DEF Series, Of

\* The length of the series being scanned.
LEMMA SeriesLength ==
  ASSUME points \in Seq(Point), NEW e
  PROVE  Len(Series(e)) \in Nat /\ Series(e) \in Seq(DOMAIN points)
BY SeriesIsSeries DEF IsSeries

\* The audit starts at the first sample with nothing in its tables.
LEMMA PassesInit == AuditInit => Passes /\ Accumulated /\ Reported
<1> SUFFICES ASSUME AuditInit PROVE Passes /\ Accumulated /\ Reported
  OBVIOUS
<1>1. PICK flags \in Flags : IncidentsInit(WithDefaults(flags))
  BY DEF AuditInit
<1>2. /\ points \in Evidence /\ points \in Seq(Point) /\ AreRules(rules) /\ name = 1
      /\ series = Series(1) /\ pos = 1
  BY <1>1, RulesTyped, AuditConstants DEF IncidentsInit
<1>3. byEndpoint = EmptyMap /\ added = 0 /\ divergences \in Divergences /\ report = NoReport
  BY DEF AuditInit, StatisticsInit
<1>4. Len(Series(1)) \in Nat /\ Len(points) \in Nat
  BY <1>2, SeriesLength
<1>5. Passes
  BY <1>2, <1>3, <1>4, AuditConstants DEF Passes
<1>6. Accumulated
  <2>1. DOMAIN byEndpoint = {}
    BY <1>3 DEF EmptyMap
  <2>2. 1 .. added = {}
    BY <1>3
  <2> QED BY <2>1, <2>2 DEF Accumulated
<1> QED BY <1>3, <1>5, <1>6 DEF Reported, Made

\* Nothing moves once the report is made.
LEMMA ReportStays ==
  ASSUME Passes, Reported, Made, [AuditNext]_auditVars
  PROVE  UNCHANGED auditVars
<1>1. name = N + 1 /\ N \in Nat /\ N # 0 /\ name \notin Endpoint /\ name # 1
  BY AuditConstants DEF Reported, Done
<1>2. ~AddSample
  BY <1>1 DEF AddSample, AddNext, Passes
<1>3. ~DetectIncidents
  BY <1>1 DEF DetectIncidents, IncidentsNext, Scan, EndSeries
<1>4. ~Analyse
  BY DEF Analyse, Made
<1> QED BY <1>2, <1>3, <1>4 DEF AuditNext

\* Nothing changes the tables once the audit is made.
LEMMA ReportedStep ==
  ASSUME Passes, Reported, [AuditNext]_auditVars
  PROVE  Reported'
<1>1. CASE Made
  <2>1. UNCHANGED auditVars
    BY <1>1, ReportStays
  <2>2. UNCHANGED <<out, points, byEndpoint, divergences>>
    BY <2>1 DEF auditVars, incidentVars, statisticsVars
  <2>3. Result' = Result
    BY <2>2 DEF Result, Summaries, SummaryOf, Merged,
                DivergenceRows, DivergenceRow, Blamed, Findings, LinesOf
  <2> QED BY <2>1, <2>3 DEF Reported, Made, Done, auditVars, incidentVars
<1>2. CASE ~Made /\ Analyse
  <2>1. UNCHANGED <<incidentVars, statisticsVars, divergences>> /\ report' = Result /\ Done
    BY <1>2 DEF Analyse, Result
  <2>2. UNCHANGED <<out, points, byEndpoint, divergences, name>>
    BY <2>1 DEF incidentVars, statisticsVars
  <2>3. Result' = Result
    BY <2>2 DEF Result, Summaries, SummaryOf, Merged,
                DivergenceRows, DivergenceRow, Blamed, Findings, LinesOf
  <2> QED BY <2>1, <2>2, <2>3 DEF Reported, Done
<1>3. CASE ~Made /\ ~Analyse
  <2>1. report' = report
    BY <1>3 DEF AuditNext, AddSample, DetectIncidents, auditVars
  <2> QED BY <1>3, <2>1 DEF Reported, Made
<1> QED BY <1>1, <1>2, <1>3

\* The passes follow one another.
LEMMA PassesStep ==
  ASSUME Passes, [AuditNext]_auditVars
  PROVE  Passes'
<1>1. points \in Seq(Point) /\ Len(points) \in Nat /\ N \in Nat /\ N # 0 /\ Endpoint = 1 .. N
  BY AuditConstants DEF Passes
<1>2. points' = points /\ rules' = rules /\ divergences' = divergences
  BY DEF AuditNext, AddSample, DetectIncidents, Analyse, IncidentsNext, Scan, EndSeries,
      auditVars,
         incidentVars
<1>3. \A e : Series(e)' = Series(e) /\ Len(Series(e)) \in Nat
  BY <1>1, <1>2, SameSeries, SeriesLength
<1>4. CASE AddSample
  <2>1. UNCHANGED <<name, series, pos>> /\ added' = added + 1 /\ added < Len(points)
    BY <1>4 DEF AddSample, AddNext, incidentVars
  <2>2. added' \in 0 .. Len(points) /\ name = 1
    BY <1>1, <2>1 DEF Passes
  <2> QED BY <1>2, <1>3, <2>1, <2>2 DEF Passes
<1>5. CASE DetectIncidents /\ Scan
  <2>1. UNCHANGED <<name, series, added>> /\ pos' = pos + 1 /\ pos \in DOMAIN series
        /\ added = Len(points)
    BY <1>5 DEF DetectIncidents, Scan, statisticsVars
  <2>2. Len(series) \in Nat /\ DOMAIN series = 1 .. Len(series)
    <3>1. series \in Seq(DOMAIN points)
      BY <1>1, SeriesLength DEF Passes
    <3> QED BY <3>1
  <2>3. pos' \in 1 .. Len(series) + 1
    BY <2>1, <2>2
  <2> QED BY <1>2, <1>3, <2>1, <2>3 DEF Passes
<1>6. CASE DetectIncidents /\ EndSeries
  <2>1. /\ name \in Endpoint /\ name' = name + 1 /\ series' = Series(name + 1) /\ pos' = 1
        /\ added' = added /\ added = Len(points)
    BY <1>6 DEF DetectIncidents, EndSeries, statisticsVars
  <2>2. name' \in 1 .. N + 1 /\ pos' \in 1 .. Len(series') + 1
    BY <1>1, <1>3, <2>1
  <2>3. series' = (Series(name))'
    BY <1>2, <2>1 DEF Series, Of
  <2> QED BY <1>2, <2>1, <2>2, <2>3 DEF Passes
<1>7. CASE Analyse \/ UNCHANGED auditVars
  <2>1. UNCHANGED <<name, series, pos, added>>
    BY <1>7 DEF Analyse, auditVars, incidentVars, statisticsVars
  <2> QED BY <1>2, <1>3, <2>1 DEF Passes
<1> QED BY <1>4, <1>5, <1>6, <1>7 DEF AuditNext, DetectIncidents, IncidentsNext

\* AddNext is the only step on the endpoint table.
LEMMA AccumulatedStep ==
  ASSUME Passes, Accumulated, [AuditNext]_auditVars
  PROVE  Accumulated'
<1>1. points \in Seq(Point) /\ Len(points) \in Nat /\ AreRules(rules)
      /\ added \in 0 .. Len(points)
  BY AuditConstants DEF Passes
<1>2. points' = points /\ rules' = rules
  BY DEF AuditNext, AddSample, DetectIncidents, Analyse, IncidentsNext, Scan, EndSeries,
      auditVars,
         incidentVars
<1>3. ASSUME NEW acc, NEW S PROVE Describes(acc, S)' = Describes(acc, S)
  BY <1>2 DEF Describes, IsAccumulator, Counts, ListsReadings, Bounds, HealthyIn, FailedIn,
      TimedIn,
              LeadingIn, StaleIn, Stale, Latencies, LagBlocks, LagSeconds
<1>4. CASE UNCHANGED <<byEndpoint, added>>
  BY <1>2, <1>3, <1>4 DEF Accumulated, AddedOf
<1>5. CASE AddSample
  <2> PICK i : i = added + 1
    OBVIOUS
  <2> PICK p : p = points[i]
    OBVIOUS
  <2> PICK e : e = p.endpoint
    OBVIOUS
  <2> DEFINE old == IF e \in DOMAIN byEndpoint THEN byEndpoint[e] ELSE NewAccumulator(p)
  <2>1. /\ byEndpoint' = Put(byEndpoint, e, Add(old, p))
        /\ added' = i /\ i \in DOMAIN points /\ i \notin 1 .. added
           /\ 1 .. i = (1 .. added) \cup {i}
    BY <1>1, <1>5 DEF AddSample, AddNext
  <2>2. p \in Point
    BY <1>1, <2>1
  <2>3. AddedOf(e) \subseteq DOMAIN points /\ IsFiniteSet(AddedOf(e)) /\ i \notin AddedOf(e)
    <3>1. AddedOf(e) \subseteq 1 .. added /\ 1 .. added \subseteq DOMAIN points
      BY <1>1 DEF AddedOf
    <3>3. IsFiniteSet(1 .. added)
      BY <1>1, FS_Interval
    <3>2. IsFiniteSet(AddedOf(e))
      BY <3>1, <3>3, FS_Subset
    <3> QED BY <2>1, <3>1, <3>2
  <2>4. Describes(old, AddedOf(e))
    <3>1. CASE e \in DOMAIN byEndpoint
      BY <3>1 DEF Accumulated
    <3>2. CASE e \notin DOMAIN byEndpoint
      <4>1. AddedOf(e) = {}
        BY <3>2 DEF Accumulated, AddedOf
      <4>2. Describes(NewAccumulator(p), {})
        BY <2>2, NewDescribes
      <4> QED BY <3>2, <4>1, <4>2
    <3> QED BY <3>1, <3>2
  <2> HIDE DEF old
  <2>5. Describes(Add(old, p), AddedOf(e) \cup {i})
    BY <1>1, <2>1, <2>3, <2>4, AddDescribes
  <2> PICK new : new = Add(old, p)
    OBVIOUS
  <2>6. AddedOf(e)' = AddedOf(e) \cup {i} /\ \A d : d # e => AddedOf(d)' = AddedOf(d)
    BY <1>2, <2>1 DEF AddedOf
  <2>7. DOMAIN byEndpoint' = DOMAIN byEndpoint \cup {e} /\ byEndpoint'[e] = new
        /\ \A d \in DOMAIN byEndpoint : d # e => byEndpoint'[d] = byEndpoint[d]
    BY <2>1 DEF Put
  <2>8. DOMAIN byEndpoint' = {points'[k].endpoint : k \in 1 .. added'}
    BY <1>2, <2>1, <2>7 DEF Accumulated
  <2>9. ASSUME NEW d \in DOMAIN byEndpoint' PROVE Describes(byEndpoint'[d], AddedOf(d)')
    <3>1. CASE d = e
      BY <2>5, <2>6, <2>7, <3>1
    <3>2. CASE d # e
      BY <2>6, <2>7, <2>9, <3>2 DEF Accumulated
    <3> QED BY <3>1, <3>2
  <2>10. ASSUME NEW d \in DOMAIN byEndpoint' PROVE Describes(byEndpoint[d], AddedOf(d))'
    <3>1. Describes(byEndpoint'[d], AddedOf(d)')
      BY <2>9, <2>10
    <3>2. IsAccumulator(byEndpoint[d])'
      BY <3>1 DEF Describes, IsAccumulator
    <3>3. Counts(byEndpoint[d], AddedOf(d))'
      BY <1>2, <3>1 DEF Describes, Counts, HealthyIn, FailedIn, LeadingIn, StaleIn, Stale
    <3>4. ListsReadings(byEndpoint[d], AddedOf(d))'
      BY <1>2, <3>1 DEF Describes, ListsReadings, HealthyIn, TimedIn, Latencies, LagBlocks,
          LagSeconds
    <3>5. Bounds(byEndpoint[d], AddedOf(d))'
      BY <1>2, <3>1 DEF Describes, Bounds, HealthyIn
    <3> QED BY <3>2, <3>3, <3>4, <3>5 DEF Describes
  <2> QED BY <2>8, <2>10 DEF Accumulated
<1>6. CASE DetectIncidents \/ Analyse \/ UNCHANGED auditVars
  BY <1>4, <1>6 DEF DetectIncidents, Analyse, auditVars, statisticsVars
<1> QED BY <1>5, <1>6 DEF AuditNext

-----------------------------------------------------------------------------
(* The order of the upstreams.                                             *)

\* Shares compared by cross-multiplication are compared transitively.
LEMMA CrossMultiply ==
  ASSUME NEW a \in Nat, NEW b \in Nat \ {0}, NEW c \in Nat, NEW d \in Nat \ {0},
         NEW e \in Nat, NEW f \in Nat \ {0}, a * d <= c * b, c * f <= e * d
  PROVE  /\ a * f <= e * b
         /\ a * d < c * b \/ c * f < e * d => a * f < e * b
<1> DEFINE p == a * d
           q == c * b
           r == c * f
           s == e * d
           u == a * f
           v == e * b
<1>1. /\ p \in Nat /\ q \in Nat /\ r \in Nat /\ s \in Nat /\ u \in Nat /\ v \in Nat
      /\ u * d = p * f /\ q * f = r * b /\ s * b = v * d
  OBVIOUS
<1>2. p <= q /\ r <= s
  OBVIOUS
<1> HIDE DEF p, q, r, s, u, v
<1>3. p * f <= q * f /\ r * b <= s * b
  BY <1>1, <1>2
<1>4. u * d <= v * d
  BY <1>1, <1>3
<1>5. u <= v
  BY <1>1, <1>4
<1>6. ASSUME p < q \/ r < s PROVE u < v
  <2>1. p * f < q * f \/ r * b < s * b
    BY <1>1, <1>6
  <2>2. u * d < v * d
    BY <1>1, <1>3, <2>1
  <2> QED BY <1>1, <2>2
<1> QED BY <1>5, <1>6 DEF p, q, r, s, u, v

\* A share of something, and a row that can be ranked.
IsShare(x) == x[1] \in Nat /\ x[2] \in Nat \ {0}
\* What Better reads of a row.
IsRanked(row) == row.lagBlocksP99 \in Nat /\ row.latencyP99 \in Nat /\ IsShare(row.availability)

\* Availabilities are ordered by MoreThan.
LEMMA MoreThanIsOrder ==
  /\ \A x, y : IsShare(x) /\ IsShare(y) => ~(MoreThan(x, y) /\ MoreThan(y, x))
  /\ \A x, y, z : IsShare(x) /\ IsShare(y) /\ IsShare(z) /\ ~MoreThan(x, y) /\ ~MoreThan(y, z)
                    => ~MoreThan(x, z)
<1>1. ASSUME NEW x, NEW y, IsShare(x), IsShare(y) PROVE ~(MoreThan(x, y) /\ MoreThan(y, x))
  <2> DEFINE p == x[1] * y[2]
             q == y[1] * x[2]
  <2>1. p \in Nat /\ q \in Nat
    BY <1>1 DEF IsShare
  <2>2. (MoreThan(x, y) <=> p > q) /\ (MoreThan(y, x) <=> q > p)
    BY DEF MoreThan
  <2> HIDE DEF p, q
  <2> QED BY <2>1, <2>2
<1>2. ASSUME NEW x, NEW y, NEW z, IsShare(x), IsShare(y), IsShare(z),
             ~MoreThan(x, y), ~MoreThan(y, z)
      PROVE  ~MoreThan(x, z)
  <2>1. /\ x[1] \in Nat /\ x[2] \in Nat \ {0} /\ y[1] \in Nat /\ y[2] \in Nat \ {0}
        /\ z[1] \in Nat /\ z[2] \in Nat \ {0}
    BY <1>2 DEF IsShare
  <2>2. x[1] * y[2] <= y[1] * x[2] /\ y[1] * z[2] <= z[1] * y[2]
    <3>1. /\ x[1] * y[2] \in Nat /\ y[1] * x[2] \in Nat
          /\ y[1] * z[2] \in Nat /\ z[1] * y[2] \in Nat
      BY <2>1
    <3> QED BY <1>2, <3>1 DEF MoreThan
  <2>3. x[1] * z[2] <= z[1] * x[2]
    <3> DEFINE a == x[1]
               b == x[2]
               c == y[1]
               d == y[2]
               e == z[1]
               f == z[2]
    <3>1. /\ a \in Nat /\ b \in Nat \ {0} /\ c \in Nat /\ d \in Nat \ {0}
          /\ e \in Nat /\ f \in Nat \ {0} /\ a * d <= c * b /\ c * f <= e * d
      BY <2>1, <2>2
    <3> HIDE DEF a, b, c, d, e, f
    <3>2. a * f <= e * b
      BY ONLY <3>1, CrossMultiply
    <3> QED BY <3>2 DEF a, b, e, f
  <2>4. x[1] * z[2] \in Nat /\ z[1] * x[2] \in Nat
    BY <2>1
  <2> QED BY <2>3, <2>4 DEF MoreThan
<1> QED BY <1>1, <1>2

\* Better is a strict weak order of rows: sorting by it is well-defined.
LEMMA BetterIsOrder ==
  /\ \A s : IsRanked(s) => ~Better(s, s)
  /\ \A s, t, u : IsRanked(s) /\ IsRanked(t) /\ IsRanked(u) /\ Better(s, t) /\ Better(t, u)
                    => Better(s, u)
  /\ \A s, t, u : IsRanked(s) /\ IsRanked(t) /\ IsRanked(u) /\ ~Better(s, t) /\ ~Better(t, u)
                    => ~Better(s, u)
<1> USE MoreThanIsOrder
<1>1. ASSUME NEW s, IsRanked(s) PROVE ~Better(s, s)
  BY <1>1 DEF IsRanked, Better
<1>2. ASSUME NEW s, NEW t, NEW u, IsRanked(s), IsRanked(t), IsRanked(u)
      PROVE  /\ Better(s, t) /\ Better(t, u) => Better(s, u)
             /\ ~Better(s, t) /\ ~Better(t, u) => ~Better(s, u)
  <2> DEFINE M(x, y) == MoreThan(x.availability, y.availability)
  <2>1. /\ s.lagBlocksP99 \in Nat /\ t.lagBlocksP99 \in Nat /\ u.lagBlocksP99 \in Nat
        /\ s.latencyP99 \in Nat /\ t.latencyP99 \in Nat /\ u.latencyP99 \in Nat
    BY <1>2 DEF IsRanked
  <2>2. /\ ~(M(s, t) /\ M(t, s)) /\ ~(M(s, u) /\ M(u, s)) /\ ~(M(t, u) /\ M(u, t))
    BY <1>2 DEF IsRanked
  <2>3. /\ ~M(s, t) /\ ~M(t, u) => ~M(s, u)
        /\ ~M(t, s) /\ ~M(s, u) => ~M(t, u)
        /\ ~M(s, u) /\ ~M(u, t) => ~M(s, t)
        /\ ~M(t, u) /\ ~M(u, s) => ~M(t, s)
        /\ ~M(u, s) /\ ~M(s, t) => ~M(u, t)
        /\ ~M(u, t) /\ ~M(t, s) => ~M(u, s)
    BY <1>2 DEF IsRanked
  <2>4. /\ Better(s, t) <=>
             \/ s.lagBlocksP99 < t.lagBlocksP99
             \/ /\ s.lagBlocksP99 = t.lagBlocksP99
                /\ M(s, t) \/ (~M(t, s) /\ s.latencyP99 < t.latencyP99)
        /\ Better(t, u) <=>
             \/ t.lagBlocksP99 < u.lagBlocksP99
             \/ /\ t.lagBlocksP99 = u.lagBlocksP99
                /\ M(t, u) \/ (~M(u, t) /\ t.latencyP99 < u.latencyP99)
        /\ Better(s, u) <=>
             \/ s.lagBlocksP99 < u.lagBlocksP99
             \/ /\ s.lagBlocksP99 = u.lagBlocksP99
                /\ M(s, u) \/ (~M(u, s) /\ s.latencyP99 < u.latencyP99)
    BY DEF Better
  <2> HIDE DEF M
  <2> QED BY ONLY <2>1, <2>2, <2>3, <2>4
<1> QED BY <1>1, <1>2

\* The rows a chain is ranked by.
LEMMA RankedIsArrangement ==
  ASSUME NEW rows, NEW c, DOMAIN rows \in SUBSET Int, IsFiniteSet(DOMAIN rows),
         \A e \in DOMAIN rows : IsRanked(rows[e])
  PROVE  LET ups == {e \in DOMAIN rows : ChainOf[e] = c}
             n == Cardinality(ups)
         IN  /\ n \in Nat /\ DOMAIN Ranked(rows, c) = 1 .. n
             /\ \A i \in 1 .. n : Ranked(rows, c)[i] \in ups
             /\ \A i, j \in 1 .. n : i < j => ~Better(rows[Ranked(rows, c)[j]], rows[Ranked(rows, c)[i]])
<1> DEFINE ups == {e \in DOMAIN rows : ChainOf[e] = c}
           less == [e \in ups |-> {d \in ups : Better(rows[d], rows[e])}]
           order == StableOrder(less)
           n == Cardinality(ups)
<1>1. ups \in SUBSET Int /\ IsFiniteSet(ups) /\ \A e \in ups : IsRanked(rows[e])
  BY FS_Subset
<1>2. Ranked(rows, c) = order
  BY DEF Ranked
<1> HIDE DEF ups
<1>3. less \in [ups -> SUBSET ups] /\ \A x, y \in ups : x \in less[y] <=> Better(rows[x], rows[y])
  OBVIOUS
<1> HIDE DEF less
<1>4. /\ \A x \in ups : x \notin less[x]
      /\ \A x, y, z \in ups : x \in less[y] /\ y \in less[z] => x \in less[z]
      /\ \A x, y, z \in ups : x \notin less[y] /\ y \notin less[z] => x \notin less[z]
  BY <1>1, <1>3, BetterIsOrder
<1>5. /\ IsArrangement(order, ups, Stable(less))
      /\ \A i, j \in 1 .. n : i < j => order[j] \notin less[order[i]]
  BY <1>1, <1>3, <1>4, StableOrderIsOrder
<1> HIDE DEF order, n
<1>6. n \in Nat /\ DOMAIN order = 1 .. n /\ \A i \in 1 .. n : order[i] \in ups
  BY <1>5 DEF IsArrangement, n
<1>7. \A i, j \in 1 .. n : i < j => ~Better(rows[order[j]], rows[order[i]])
  BY <1>3, <1>5, <1>6
<1> QED BY <1>2, <1>6, <1>7 DEF n, ups

-----------------------------------------------------------------------------
(* The rows of the report.                                                 *)

\* The inductive invariant of the first pass and the report.
AuditInv == Passes /\ Accumulated /\ Reported

\* Every step of the audit keeps it.
LEMMA AuditInvStep == AuditInv /\ [AuditNext]_auditVars => AuditInv'
BY PassesStep, AccumulatedStep, ReportedStep DEF AuditInv

\* The row of endpoint e.
RowPercentiles(row, e) ==
  /\ IsPercentile(row.latencyP50, 50, TimedOf(e), Latencies)
  /\ IsPercentile(row.latencyP90, 90, TimedOf(e), Latencies)
  /\ IsPercentile(row.latencyP99, 99, TimedOf(e), Latencies)
  /\ IsPercentile(row.lagBlocksP50, 50, HealthyOf(e), LagBlocks)
  /\ IsPercentile(row.lagBlocksP99, 99, HealthyOf(e), LagBlocks)
  /\ IsPercentile(row.lagSecondsP50, 50, HealthyOf(e), LagSeconds)
  /\ IsPercentile(row.lagSecondsP99, 99, HealthyOf(e), LagSeconds)

\* The percentiles of a row are numbers.
RowNumbers(row) ==
  /\ row.latencyP50 \in Nat /\ row.latencyP90 \in Nat /\ row.latencyP99 \in Nat
  /\ row.lagBlocksP50 \in Nat /\ row.lagBlocksP99 \in Nat
  /\ row.lagSecondsP50 \in Nat /\ row.lagSecondsP99 \in Nat

\* What the table was made of, once the report is made.
LEMMA RowsOfReport ==
  ASSUME AuditInv, Made
  PROVE  /\ points \in Seq(Point) /\ AreRules(rules) /\ report = Result /\ Done
         /\ DOMAIN Summaries = Measured /\ Measured \in SUBSET Int /\ IsFiniteSet(Measured)
         /\ \A e \in Measured : /\ Describes(byEndpoint[e], Of(e))
                                /\ Summaries[e] = SummaryOf(byEndpoint[e])
                                /\ Of(e) # {} /\ IsFiniteSet(Of(e))
                                   /\ Of(e) \subseteq DOMAIN points
<1>1. points \in Seq(Point) /\ AreRules(rules) /\ report = Result /\ Done /\ N \in Nat /\ N # 0
  BY AuditConstants DEF AuditInv, Passes, Reported
<1>2. added = Len(points) /\ DOMAIN points = 1 .. Len(points)
  BY <1>1 DEF AuditInv, Passes, Done
<1>3. DOMAIN Summaries = Measured /\ DOMAIN byEndpoint = Measured
  BY <1>2 DEF AuditInv, Accumulated, Measured, Summaries
<1>4. Measured \subseteq 1 .. N
  BY <1>1, PointsTyped, AuditConstants DEF Measured
<1>5. IsFiniteSet(1 .. N) /\ 1 .. N \subseteq Int
  BY <1>1, FS_Interval
<1>6. ASSUME NEW e \in Measured
      PROVE  /\ Describes(byEndpoint[e], Of(e))
             /\ Summaries[e] = SummaryOf(byEndpoint[e])
             /\ Of(e) # {} /\ IsFiniteSet(Of(e)) /\ Of(e) \subseteq DOMAIN points
  <2>1. Of(e) = AddedOf(e)
    BY <1>2 DEF Of, AddedOf
  <2>2. Of(e) # {}
    BY DEF Of, Measured
  <2>3. IsFiniteSet(Of(e)) /\ Of(e) \subseteq DOMAIN points
    BY <1>1, PointsTyped
  <2> QED BY <1>3, <2>1, <2>2, <2>3 DEF AuditInv, Accumulated, Summaries
<1>7. IsFiniteSet(Measured)
  BY <1>4, <1>5, FS_Subset
<1> QED BY <1>1, <1>3, <1>4, <1>5, <1>6, <1>7

\* The readings of samples are numbers.
LEMMA ReadingsTyped ==
  ASSUME points \in Seq(Point), NEW e
  PROVE  /\ Reads(Latencies, TimedOf(e)) /\ Reads(LagBlocks, HealthyOf(e))
         /\ Reads(LagSeconds, HealthyOf(e))
         /\ TimedIn(Of(e)) = TimedOf(e) /\ HealthyIn(Of(e)) = HealthyOf(e)
<1>1. \A i \in DOMAIN points : points[i].latency \in Nat /\ points[i].lag[1] \in Nat /\ points[i].lag[2] \in Nat
  <2>1. \A i \in DOMAIN points : points[i] \in Point
    OBVIOUS
  <2> QED BY <2>1, PointFields
<1>2. TimedOf(e) \subseteq DOMAIN points /\ HealthyOf(e) \subseteq DOMAIN points
  BY DEF TimedOf, HealthyOf, Of
<1>3. Reads(Latencies, TimedOf(e))
  BY <1>1, <1>2 DEF Reads, Latencies
<1>4. Reads(LagBlocks, HealthyOf(e))
  BY <1>1, <1>2 DEF Reads, LagBlocks
<1>5. Reads(LagSeconds, HealthyOf(e))
  BY <1>1, <1>2 DEF Reads, LagSeconds
<1> QED BY <1>3, <1>4, <1>5 DEF TimedIn, TimedOf, HealthyIn, HealthyOf

\* The row of an endpoint has the percentiles of all its samples.
LEMMA RowIsOfPercentiles ==
  ASSUME AuditInv, Made, NEW e \in Measured
  PROVE  RowPercentiles(Summaries[e], e) /\ RowNumbers(Summaries[e])
<1> DEFINE acc == byEndpoint[e]
<1>1. Describes(acc, Of(e)) /\ Summaries[e] = SummaryOf(acc) /\ points \in Seq(Point)
  BY RowsOfReport
<1> HIDE DEF acc
<1>2. /\ acc.latencies \in Seq(Nat) /\ acc.lagBlocks \in Seq(Nat) /\ acc.lagSeconds \in Seq(Nat)
      /\ Lists(acc.latencies, TimedOf(e), Latencies)
         /\ Lists(acc.lagBlocks, HealthyOf(e), LagBlocks)
      /\ Lists(acc.lagSeconds, HealthyOf(e), LagSeconds)
  BY <1>1, ReadingsTyped DEF Describes, IsAccumulator, ListsReadings
<1>3. /\ Reads(Latencies, TimedOf(e)) /\ Reads(LagBlocks, HealthyOf(e))
      /\ Reads(LagSeconds, HealthyOf(e))
  BY <1>1, ReadingsTyped
<1>4. 50 \in {50, 90, 99} /\ 90 \in {50, 90, 99} /\ 99 \in {50, 90, 99}
  OBVIOUS
<1>5. \A percent \in {50, 90, 99} :
        /\ IsPercentile(Percentile(acc.latencies, percent), percent, TimedOf(e), Latencies)
        /\ Percentile(acc.latencies, percent) \in Nat
  BY ONLY <1>2, <1>3, PercentileOfList
<1>6. \A percent \in {50, 90, 99} :
        /\ IsPercentile(Percentile(acc.lagBlocks, percent), percent, HealthyOf(e), LagBlocks)
        /\ Percentile(acc.lagBlocks, percent) \in Nat
  BY ONLY <1>2, <1>3, PercentileOfList
<1>7. \A percent \in {50, 90, 99} :
        /\ IsPercentile(Percentile(acc.lagSeconds, percent), percent, HealthyOf(e), LagSeconds)
        /\ Percentile(acc.lagSeconds, percent) \in Nat
  BY ONLY <1>2, <1>3, PercentileOfList
<1>8. RowPercentiles(Summaries[e], e)
  BY <1>1, <1>4, <1>5, <1>6, <1>7 DEF SummaryOf, RowPercentiles
<1>9. RowNumbers(Summaries[e])
  BY <1>1, <1>4, <1>5, <1>6, <1>7 DEF SummaryOf, RowNumbers
<1> QED BY <1>8, <1>9

(***************************************************************************)
(* Every percentile of the endpoint table (Percentile, stats.go) is a      *)
(* measured value of nearest rank, for any number of samples in any order: *)
(* the least that at least so many percent of the values do not exceed.    *)
(***************************************************************************)
THEOREM PercentilesHold == AuditSpec => []PercentilesAreNearestRank
<1>1. AuditInit => AuditInv
  BY PassesInit DEF AuditInv
<1>2. AuditInv => PercentilesAreNearestRank
  <2> SUFFICES ASSUME AuditInv, Made, NEW e \in Measured
               PROVE  RowPercentiles(report.summaries[e], e)
    BY DEF PercentilesAreNearestRank, RowPercentiles
  <2>1. report.summaries = Summaries
    BY RowsOfReport DEF Result
  <2> QED BY <2>1, RowIsOfPercentiles
<1> QED BY <1>1, <1>2, AuditInvStep, PTL DEF AuditSpec

-----------------------------------------------------------------------------
(* Timeouts, hedges and the suggested alert.                               *)

\* How many samples of S read more than v.
Above(v, S, reading) == Cardinality({x \in S : reading[x] > v})

\* Samples that read at most, less and more than v add up.
LEMMA ReadingsCounted ==
  ASSUME NEW S, IsFiniteSet(S), NEW reading, Reads(reading, S), NEW v \in Nat
  PROVE  /\ Cardinality(S) \in Nat
         /\ AtMost(v, S, reading) \in Nat /\ Below(v, S, reading) \in Nat
         /\ Above(v, S, reading) = Cardinality(S) - AtMost(v, S, reading)
         /\ \A w \in Nat : w < v => AtMost(w, S, reading) <= Below(v, S, reading)
         /\ v > 0 => Above(v - 1, S, reading) = Cardinality(S) - Below(v, S, reading)
<1> DEFINE low(w) == {x \in S : reading[x] <= w}
           less == {x \in S : reading[x] < v}
<1>1. ASSUME NEW T \in SUBSET S
      PROVE  /\ IsFiniteSet(T) /\ Cardinality(T) \in Nat /\ Cardinality(S) \in Nat
             /\ Cardinality(S \ T) = Cardinality(S) - Cardinality(T)
  <2>1. IsFiniteSet(T) /\ Cardinality(T) \in Nat /\ Cardinality(S) \in Nat
    BY FS_Subset, FS_CardinalityType
  <2>2. S \cap T = T
    OBVIOUS
  <2>3. Cardinality(S \ T) = Cardinality(S) - Cardinality(S \cap T)
    BY FS_Difference
  <2> QED BY <2>1, <2>2, <2>3
<1>2. low(v) \in SUBSET S /\ less \in SUBSET S /\ \A x \in S : reading[x] \in Nat
  BY DEF Reads
<1>3. {x \in S : reading[x] > v} = S \ low(v)
  BY <1>2
<1>4. ASSUME NEW w \in Nat, w < v PROVE Cardinality(low(w)) <= Cardinality(less)
  <2>1. low(w) \subseteq less
    BY <1>2, <1>4
  <2> HIDE DEF low, less
  <2> QED BY <1>1, <1>2, <2>1, FS_Subset
<1>5. ASSUME v > 0 PROVE {x \in S : reading[x] > v - 1} = S \ less
  BY <1>2, <1>5
<1> HIDE DEF less, low
<1>6. /\ Cardinality(S) \in Nat /\ Cardinality(low(v)) \in Nat /\ Cardinality(less) \in Nat
      /\ Cardinality(S \ low(v)) = Cardinality(S) - Cardinality(low(v))
      /\ Cardinality(S \ less) = Cardinality(S) - Cardinality(less)
  BY <1>1, <1>2
<1>7. \A w : AtMost(w, S, reading) = Cardinality(low(w))
  BY DEF AtMost, low
<1>8. Below(v, S, reading) = Cardinality(less)
  BY DEF Below, less
<1>9. Above(v, S, reading) = Cardinality(S \ low(v)) /\ (v > 0 => Above(v - 1, S, reading) = Cardinality(S \ less))
  BY <1>3, <1>5 DEF Above
<1> QED BY <1>4, <1>6, <1>7, <1>8, <1>9

\* How many readings are above and below a percentile.
LEMMA PercentileCounts ==
  ASSUME NEW S, S # {}, NEW reading, NEW percent, NEW v, IsPercentile(v, percent, S, reading)
  PROVE  /\ 100 * AtMost(v, S, reading) >= percent * Cardinality(S)
         /\ 100 * Below(v, S, reading) < percent * Cardinality(S)
BY DEF IsPercentile, AtMost, Below

\* A percentile for more percent is not less.
LEMMA PercentilesAscend ==
  ASSUME NEW S, IsFiniteSet(S), NEW reading, Reads(reading, S), NEW v \in Nat, NEW w \in Nat,
         IsPercentile(v, 90, S, reading), IsPercentile(w, 99, S, reading)
  PROVE  v <= w
<1>1. CASE S = {}
  BY <1>1 DEF IsPercentile
<1>2. CASE S # {}
  <2> SUFFICES ASSUME w < v PROVE FALSE
    OBVIOUS
  <2> DEFINE n == Cardinality(S)
             below == Below(v, S, reading)
             atMost == AtMost(w, S, reading)
  <2>1. n \in Nat /\ below \in Nat /\ atMost <= below
    BY ReadingsCounted
  <2>2. atMost \in Nat
    BY ReadingsCounted
  <2>3. 100 * atMost >= 99 * n
    BY <1>2, PercentileCounts
  <2>4. 100 * below < 90 * n
    BY <1>2, PercentileCounts
  <2> HIDE DEF n, below, atMost
  <2> QED BY <2>1, <2>2, <2>3, <2>4
<1> QED BY <1>1, <1>2

\* A 90th percentile above t leaves more than one in ten above t.
LEMMA TenthAbove ==
  ASSUME NEW S, IsFiniteSet(S), NEW reading, Reads(reading, S), NEW v \in Nat, NEW t \in Nat,
         IsPercentile(v, 90, S, reading), v > t
  PROVE  10 * Above(t, S, reading) > Cardinality(S)
<1> DEFINE n == Cardinality(S)
           below == Below(v, S, reading)
           atMost == AtMost(t, S, reading)
           above == Above(t, S, reading)
<1>1. S # {}
  BY DEF IsPercentile
<1>2. n \in Nat /\ below \in Nat /\ atMost <= below
  BY ReadingsCounted
<1>3. atMost \in Nat /\ above = n - atMost
  BY ReadingsCounted
<1>4. 100 * below < 90 * n
  BY <1>1, PercentileCounts
<1> HIDE DEF n, below, atMost, above
<1>5. 10 * above > n
  BY <1>2, <1>3, <1>4
<1> QED BY <1>5 DEF n, above

\* roundUp goes to the next multiple of the unit.
LEMMA RoundUpBounds ==
  ASSUME NEW d \in Nat
  PROVE  /\ RoundUp(d, 10) \in Nat /\ RoundUp(d, 10) >= d /\ RoundUp(d, 10) < d + 10
         /\ d <= 3000 => RoundUp(d, 10) <= 3000
         /\ RoundUp(d, 5) \in Nat /\ RoundUp(d, 5) >= d /\ RoundUp(d, 5) < d + 5
         /\ d <= 2995 => RoundUp(d, 5) <= 2995
BY DEF RoundUp

\* The hedge of a row is below its timeout unless the ninetieth percentile is
\* in the last 50 ms of the clamp.
LEMMA HedgeOfRow ==
  ASSUME NEW row, RowNumbers(row), row.latencyP90 <= row.latencyP99
  PROVE  /\ TimeoutFor(row) \in Second .. 30 * Second
         /\ row.latencyP50 = 0 \/ row.latencyP90 <= 30 * Second - Ms50
              => HedgeFor(row) < TimeoutFor(row)
<1> DEFINE p50 == row.latencyP50
           p90 == row.latencyP90
           p99 == row.latencyP99
           low == Min({3000, 2 * p99})
           d == Max({100, low})
<1>1. p50 \in Nat /\ p90 \in Nat /\ p99 \in Nat /\ p90 <= p99
  BY DEF RowNumbers
<1>2. TimeoutFor(row) = RoundUp(d, 10)
  BY DEF TimeoutFor, Second, Ms100
<1>3. HedgeFor(row) = IF p50 <= 0 \/ p99 < 2 * p50 THEN -1 ELSE RoundUp(p90, 5)
  BY DEF HedgeFor, NoHedge, Ms50
<1> HIDE DEF p50, p90, p99
<1>4. 2 * p99 \in Int /\ 3000 \in Int /\ 100 \in Int
  BY <1>1
<1>5. low \in {3000, 2 * p99} /\ low <= 3000 /\ low <= 2 * p99
  <2> DEFINE a == 3000
             b == 2 * p99
  <2>1. a \in Int /\ b \in Int
    BY <1>4
  <2> HIDE DEF a, b
  <2>2. Min({a, b}) \in {a, b} /\ Min({a, b}) <= a /\ Min({a, b}) <= b
    BY ONLY <2>1, MinOfTwo
  <2> QED BY <2>2 DEF low, a, b
<1> HIDE DEF low
<1>6. low \in Int
  BY <1>4, <1>5
<1>7. d \in {100, low} /\ d >= 100 /\ d >= low
  <2> DEFINE a == 100
  <2>1. a \in Int /\ low \in Int
    BY <1>6
  <2> HIDE DEF a
  <2>2. Max({a, low}) \in {a, low} /\ a <= Max({a, low}) /\ low <= Max({a, low})
    BY ONLY <2>1, MaxOfTwo
  <2>3. Max({a, low}) \in Int
    BY <2>1, <2>2
  <2>4. d = Max({a, low})
    BY DEF a
  <2> QED BY <2>1, <2>2, <2>3, <2>4 DEF a
<1> HIDE DEF d
<1>8. d \in Nat /\ d <= 3000
  BY <1>5, <1>6, <1>7
<1>9. RoundUp(d, 10) \in Nat /\ RoundUp(d, 10) >= d /\ RoundUp(d, 10) <= 3000
  BY <1>8, RoundUpBounds
<1>10. RoundUp(p90, 5) \in Nat /\ RoundUp(p90, 5) < p90 + 5 /\ (p90 <= 2995 => RoundUp(p90, 5) <= 2995)
  BY <1>1, RoundUpBounds
<1> DEFINE timeout == RoundUp(d, 10)
           hedge == RoundUp(p90, 5)
<1> HIDE DEF timeout, hedge
<1>11. timeout \in 100 .. 3000
  BY <1>7, <1>8, <1>9 DEF timeout
<1>12. ASSUME p50 = 0 \/ p90 <= 2995 PROVE HedgeFor(row) < timeout
  <2>1. CASE p50 <= 0 \/ p99 < 2 * p50
    BY <1>3, <1>11, <2>1
  <2>2. CASE ~(p50 <= 0 \/ p99 < 2 * p50)
    <3>1. HedgeFor(row) = hedge /\ p90 <= 2995
      BY <1>1, <1>3, <1>12, <2>2 DEF hedge
    <3>2. hedge \in Nat /\ hedge < p90 + 5 /\ hedge <= 2995 /\ timeout \in Nat /\ timeout >= d
      BY <1>9, <1>10, <3>1 DEF hedge, timeout
    <3>3. low = 3000 \/ low = 2 * p99
      BY <1>5
    <3>4. hedge < timeout
      BY <1>1, <1>7, <1>8, <3>2, <3>3
    <3> QED BY <3>1, <3>4
  <2> QED BY <2>1, <2>2
<1> QED BY <1>2, <1>11, <1>12 DEF p50, p90, timeout, Second, Ms50

\* Rows of the report can be ranked.
LEMMA RowIsRanked ==
  ASSUME AuditInv, Made, NEW e \in Measured
  PROVE  /\ IsRanked(Summaries[e])
         /\ Summaries[e].availability = <<Cardinality(HealthyOf(e)), Cardinality(Of(e))>>
         /\ Cardinality(HealthyOf(e)) \in Nat
         /\ Cardinality(HealthyOf(e)) = 0 <=> HealthyOf(e) = {}
<1> DEFINE acc == byEndpoint[e]
<1>1. /\ Describes(acc, Of(e)) /\ Summaries[e] = SummaryOf(acc)
      /\ IsFiniteSet(Of(e)) /\ Of(e) # {} /\ points \in Seq(Point)
  BY RowsOfReport
<1> HIDE DEF acc
<1>2. RowNumbers(Summaries[e])
  BY RowIsOfPercentiles
<1>3. /\ acc.samples = Cardinality(Of(e)) /\ acc.samples \in Nat /\ acc.ok \in Nat
      /\ acc.ok = Cardinality(HealthyIn(Of(e)))
  BY <1>1 DEF Describes, Counts, IsAccumulator
<1>4. HealthyIn(Of(e)) = HealthyOf(e) /\ HealthyOf(e) \subseteq Of(e)
  BY DEF HealthyIn, HealthyOf
<1>5. Cardinality(Of(e)) # 0
  BY <1>1, FS_EmptySet
<1>6. IsFiniteSet(HealthyOf(e)) /\ (Cardinality(HealthyOf(e)) = 0 <=> HealthyOf(e) = {})
  <2>1. IsFiniteSet(HealthyOf(e))
    BY <1>1, <1>4, FS_Subset
  <2> QED BY <2>1, FS_EmptySet
<1>7. Summaries[e].availability = <<acc.ok, acc.samples>>
  BY <1>1 DEF SummaryOf
<1>8. IsShare(Summaries[e].availability)
  BY <1>3, <1>5, <1>7 DEF IsShare
<1>9. IsRanked(Summaries[e])
  BY <1>2, <1>8 DEF IsRanked, RowNumbers
<1> QED BY <1>3, <1>4, <1>6, <1>7, <1>9

\* The upstreams of a chain are its endpoints with a row, each once, in the order of Better.
LEMMA UpstreamsOfReport ==
  ASSUME AuditInv, Made, NEW c \in DOMAIN report.upstreams
  PROVE  LET order == Ranked(Summaries, c)
         IN  /\ DOMAIN report.upstreams[c] = DOMAIN order /\ DOMAIN order \subseteq Int
             /\ \A i \in DOMAIN order :
                  /\ order[i] \in Measured
                  /\ report.upstreams[c][i] = Upstream(Summaries[order[i]], order[i])
             /\ \A i, j \in DOMAIN order :
                  i < j => ~Better(Summaries[order[j]], Summaries[order[i]])
<1> DEFINE order == Ranked(Summaries, c)
           ups == {e \in DOMAIN Summaries : ChainOf[e] = c}
           n == Cardinality(ups)
<1>1. /\ report = Result /\ DOMAIN Summaries = Measured /\ Measured \in SUBSET Int
      /\ IsFiniteSet(Measured)
  BY RowsOfReport
<1>2. report.upstreams = Upstreams(Summaries)
  BY <1>1 DEF Result
<1>3. report.upstreams[c] = [i \in DOMAIN order |-> Upstream(Summaries[order[i]], order[i])]
  BY <1>2 DEF Upstreams
<1>4. \A e \in DOMAIN Summaries : IsRanked(Summaries[e])
  BY <1>1, RowIsRanked
<1>5. /\ n \in Nat /\ DOMAIN order = 1 .. n
      /\ \A i \in 1 .. n : order[i] \in ups
      /\ \A i, j \in 1 .. n : i < j => ~Better(Summaries[order[j]], Summaries[order[i]])
  BY <1>1, <1>4, RankedIsArrangement
<1> HIDE DEF order, n
<1>6. \A i \in DOMAIN order : order[i] \in Measured
  BY <1>1, <1>5
<1> QED BY <1>3, <1>5, <1>6 DEF order

(***************************************************************************)
(* The generated timeout is within its clamp, and a hedged request is sent *)
(* before it expires unless one poll in ten took nearly as long as the     *)
(* clamp (timeoutFor and hedgeFor, erpc.go), for any evidence.             *)
(***************************************************************************)
THEOREM HedgesFit == AuditSpec => []HedgeFitsTimeout
<1>1. AuditInit => AuditInv
  BY PassesInit DEF AuditInv
<1>2. AuditInv => HedgeFitsTimeout
  <2> SUFFICES ASSUME AuditInv, Made, NEW c \in DOMAIN report.upstreams,
                      NEW i \in DOMAIN report.upstreams[c]
               PROVE  LET up == report.upstreams[c][i]
                          slow == {n \in TimedOf(up.endpoint) : points[n].latency > 30 * Second - Ms50}
                      IN  /\ up.timeout \in Second .. 30 * Second
                          /\ 10 * Cardinality(slow) <= Cardinality(TimedOf(up.endpoint))
                               => up.hedge < up.timeout
    BY DEF HedgeFitsTimeout
  <2>1. PICK e \in Measured : report.upstreams[c][i] = Upstream(Summaries[e], e)
    BY UpstreamsOfReport
  <2> DEFINE row == Summaries[e]
             S == TimedOf(e)
             slow == {n \in S : points[n].latency > 2995}
  <2>2. RowPercentiles(row, e) /\ RowNumbers(row)
    BY RowIsOfPercentiles
  <2>3. Reads(Latencies, S) /\ IsFiniteSet(S) /\ S \subseteq DOMAIN points
    <3>1. points \in Seq(Point) /\ IsFiniteSet(Of(e)) /\ Of(e) \subseteq DOMAIN points
      BY RowsOfReport
    <3>2. S \subseteq Of(e)
      BY DEF TimedOf
    <3>3. IsFiniteSet(S)
      BY <3>1, <3>2, FS_Subset
    <3> QED BY <3>1, <3>2, <3>3, ReadingsTyped
  <2> HIDE DEF row, S
  <2>4. /\ row.latencyP50 \in Nat /\ row.latencyP90 \in Nat /\ row.latencyP99 \in Nat
        /\ IsPercentile(row.latencyP50, 50, S, Latencies)
        /\ IsPercentile(row.latencyP90, 90, S, Latencies)
        /\ IsPercentile(row.latencyP99, 99, S, Latencies)
    BY <2>2 DEF RowNumbers, RowPercentiles, S
  <2>5. row.latencyP90 <= row.latencyP99
    BY <2>3, <2>4, PercentilesAscend
  <2>6. /\ TimeoutFor(row) \in Second .. 30 * Second
        /\ row.latencyP50 = 0 \/ row.latencyP90 <= 2995 => HedgeFor(row) < TimeoutFor(row)
    BY <2>2, <2>5, HedgeOfRow DEF Second, Ms50
  <2>7. ASSUME 10 * Cardinality(slow) <= Cardinality(S), row.latencyP90 > 2995
        PROVE  FALSE
    <3>1. 10 * Above(2995, S, Latencies) > Cardinality(S)
      BY <2>3, <2>4, <2>7, TenthAbove
    <3>2. slow = {x \in S : Latencies[x] > 2995}
      BY <2>3 DEF Latencies
    <3>3. Above(2995, S, Latencies) = Cardinality(slow)
      BY <3>2 DEF Above
    <3>4. IsFiniteSet(slow)
      BY <2>3, FS_Subset
    <3>5. Cardinality(slow) \in Nat /\ Cardinality(S) \in Nat
      BY <2>3, <3>4, FS_CardinalityType
    <3> HIDE DEF slow
    <3> QED BY <2>7, <3>1, <3>3, <3>5
  <2>8. 10 * Cardinality(slow) <= Cardinality(S) => HedgeFor(row) < TimeoutFor(row)
    BY <2>4, <2>6, <2>7
  <2> QED BY <2>1, <2>6, <2>8 DEF Upstream, S, Second, Ms50, row
<1> QED BY <1>1, <1>2, AuditInvStep, PTL DEF AuditSpec

(***************************************************************************)
(* The alert threshold suggested (suggestedLagAlert, erpc.go) would have   *)
(* been quiet in all but one percent of the healthy polls of every         *)
(* endpoint, and one lower by two blocks would not, unless it is the       *)
(* least, 2.                                                               *)
(***************************************************************************)
THEOREM AlertFits == AuditSpec => []AlertFitsEvidence
<1>1. AuditInit => AuditInv
  BY PassesInit DEF AuditInv
<1>2. AuditInv => AlertFitsEvidence
  <2> SUFFICES ASSUME AuditInv, Made
               PROVE  /\ \A e \in Measured : ~Louder(e, report.lagAlert)
                      /\ report.lagAlert > 2 => \E e \in Measured : Louder(e, report.lagAlert - 2)
    BY DEF AlertFitsEvidence
  <2> DEFINE p99(e) == Summaries[e].lagBlocksP99
             alerts == {2} \cup {p99(e) + 1 : e \in Measured}
             alert == report.lagAlert
  <2>1. /\ points \in Seq(Point) /\ report = Result /\ DOMAIN Summaries = Measured
        /\ IsFiniteSet(Measured) /\ \A e \in Measured : IsFiniteSet(Of(e)) /\ Of(e) \subseteq DOMAIN points
    BY RowsOfReport
  <2>2. alert = Max(alerts)
    BY <2>1 DEF Result, SuggestedLagAlert
  <2>3. \A e \in Measured : p99(e) \in Nat /\ IsPercentile(p99(e), 99, HealthyOf(e), LagBlocks)
    BY RowIsOfPercentiles DEF RowNumbers, RowPercentiles
  <2> HIDE DEF p99
  <2>4. IsFiniteSet(alerts) /\ alerts \in SUBSET Int /\ alerts # {}
    <3> DEFINE f == [e \in Measured |-> p99(e) + 1]
               image == {f[e] : e \in Measured}
    <3>1. f \in Surjection(Measured, image)
      BY DEF Surjection
    <3>2. IsFiniteSet(image)
      BY <2>1, <3>1, FS_Surjection
    <3>3. IsFiniteSet({2})
      BY FS_Singleton
    <3>4. alerts = {2} \cup image
      OBVIOUS
    <3> HIDE DEF image
    <3>5. IsFiniteSet(alerts)
      BY <3>2, <3>3, <3>4, FS_Union
    <3> QED BY <2>3, <3>5
  <2>5. PICK m \in alerts : \A x \in alerts : x <= m
    BY <2>4, LargestExists
  <2>6. alert \in alerts /\ \A x \in alerts : x <= alert
    BY <2>2, <2>5 DEF Max
  <2> HIDE DEF alert
  <2>7. alert \in Nat /\ \A e \in Measured : p99(e) + 1 <= alert
    BY <2>3, <2>6
  <2>8. ASSUME NEW e \in Measured
        PROVE  /\ IsFiniteSet(HealthyOf(e)) /\ Reads(LagBlocks, HealthyOf(e))
               /\ \A t : Louder(e, t) <=> 100 * Above(t, HealthyOf(e), LagBlocks) > Cardinality(HealthyOf(e))
    <3>1. HealthyOf(e) \subseteq Of(e) /\ IsFiniteSet(Of(e)) /\ Of(e) \subseteq DOMAIN points
      BY <2>1 DEF HealthyOf
    <3>2. IsFiniteSet(HealthyOf(e))
      BY <3>1, FS_Subset
    <3>3. \A t : {i \in HealthyOf(e) : LagAt(i) > t} = {i \in HealthyOf(e) : LagBlocks[i] > t}
      BY <3>1 DEF LagAt, LagBlocks
    <3>4. \A t : Louder(e, t) <=> 100 * Above(t, HealthyOf(e), LagBlocks) > Cardinality(HealthyOf(e))
      BY <3>3 DEF Louder, Above
    <3> QED BY <2>1, <3>2, <3>4, ReadingsTyped
  <2>9. ASSUME NEW e \in Measured PROVE ~Louder(e, alert)
    <3> DEFINE S == HealthyOf(e)
               v == p99(e)
               n == Cardinality(S)
               above == Above(alert, S, LagBlocks)
               atMost == AtMost(alert, S, LagBlocks)
               below == Below(alert, S, LagBlocks)
               atV == AtMost(v, S, LagBlocks)
    <3>1. v \in Nat /\ v < alert /\ alert \in Nat
      BY <2>3, <2>7
    <3>2. IsFiniteSet(S) /\ Reads(LagBlocks, S)
      BY <2>8
    <3>3. n \in Nat /\ atMost \in Nat /\ above = n - atMost
      BY <3>1, <3>2, ReadingsCounted
    <3>4. atV \in Nat /\ atV <= AtMost(alert, S, LagBlocks)
      <4>1. {x \in S : LagBlocks[x] <= v} \subseteq {x \in S : LagBlocks[x] <= alert}
        BY <3>1, <3>2 DEF Reads
      <4>2. IsFiniteSet({x \in S : LagBlocks[x] <= alert})
        BY <3>2, FS_Subset
      <4>3. Cardinality({x \in S : LagBlocks[x] <= v}) <= Cardinality({x \in S : LagBlocks[x] <= alert})
        BY <4>1, <4>2, FS_Subset
      <4>4. atV \in Nat
        BY <3>1, <3>2, ReadingsCounted
      <4> QED BY <4>3, <4>4 DEF AtMost
    <3>5. 100 * atV >= 99 * n
      <4>1. CASE S # {}
        BY <2>3, <4>1, PercentileCounts
      <4>2. CASE S = {}
        BY <3>4, <4>2, FS_EmptySet
      <4> QED BY <4>1, <4>2
    <3>6. Louder(e, alert) <=> 100 * above > n
      BY <2>8
    <3> HIDE DEF n, above, atMost, atV
    <3>7. ~(100 * above > n)
      BY <3>3, <3>4, <3>5 DEF atMost
    <3> QED BY <3>6, <3>7
  <2>10. ASSUME alert > 2 PROVE \E e \in Measured : Louder(e, alert - 2)
    <3>1. PICK e \in Measured : alert = p99(e) + 1
      BY <2>6, <2>10
    <3> DEFINE S == HealthyOf(e)
               v == p99(e)
               n == Cardinality(S)
               above == Above(v - 1, S, LagBlocks)
               below == Below(v, S, LagBlocks)
    <3>2. v \in Nat /\ v > 0 /\ alert - 2 = v - 1 /\ IsPercentile(v, 99, S, LagBlocks)
      BY <2>3, <2>7, <2>10, <3>1
    <3>3. S # {}
      BY <3>2 DEF IsPercentile
    <3>4. IsFiniteSet(S) /\ Reads(LagBlocks, S)
      BY <2>8
    <3>5. n \in Nat /\ below \in Nat /\ above = n - below
      BY <3>2, <3>4, ReadingsCounted
    <3>6. 100 * below < 99 * n
      BY <3>2, <3>3, PercentileCounts
    <3>7. Louder(e, v - 1) <=> 100 * above > n
      BY <2>8
    <3> HIDE DEF n, above, below
    <3>8. 100 * above > n
      BY <3>5, <3>6
    <3>9. Louder(e, alert - 2)
      BY <3>2, <3>7, <3>8
    <3> QED BY <3>9
  <2> QED BY <2>9, <2>10 DEF alert
<1> QED BY <1>1, <1>2, AuditInvStep, PTL DEF AuditSpec

(***************************************************************************)
(* The generated upstreams of a chain (the sort in ERPC, erpc.go) never    *)
(* put an endpoint before one that was always more current, nor one that   *)
(* never answered before one that always was at the head.                  *)
(***************************************************************************)
THEOREM CurrentFirst == AuditSpec => []CurrentRankedFirst
<1>1. AuditInit => AuditInv
  BY PassesInit DEF AuditInv
<1>2. AuditInv => CurrentRankedFirst
  <2> SUFFICES ASSUME AuditInv, Made, NEW c \in DOMAIN report.upstreams,
                      NEW i \in DOMAIN report.upstreams[c], NEW j \in DOMAIN report.upstreams[c], i < j
               PROVE  LET a == report.upstreams[c][i].endpoint
                          b == report.upstreams[c][j].endpoint
                      IN  ~AlwaysLess(b, a) /\ ~(HealthyOf(a) = {} /\ AlwaysCurrent(b))
    BY DEF CurrentRankedFirst
  <2> DEFINE order == Ranked(Summaries, c)
  <2>1. /\ order[i] \in Measured /\ order[j] \in Measured
        /\ report.upstreams[c][i] = Upstream(Summaries[order[i]], order[i])
        /\ report.upstreams[c][j] = Upstream(Summaries[order[j]], order[j])
        /\ ~Better(Summaries[order[j]], Summaries[order[i]])
    BY UpstreamsOfReport
  <2> HIDE DEF order
  <2>2. PICK a \in Measured : a = order[i] /\ report.upstreams[c][i].endpoint = a
    BY <2>1 DEF Upstream
  <2>3. PICK b \in Measured : b = order[j] /\ report.upstreams[c][j].endpoint = b
    BY <2>1 DEF Upstream
  <2>4. ~Better(Summaries[b], Summaries[a])
    BY <2>1, <2>2, <2>3
  <2> DEFINE lagOf(e) == Summaries[e].lagBlocksP99
  <2>5. ASSUME NEW e \in Measured
        PROVE  /\ lagOf(e) \in Nat
               /\ HealthyOf(e) = {} => lagOf(e) = 0
               /\ HealthyOf(e) # {} => \E k \in HealthyOf(e) : LagAt(k) = lagOf(e)
    <3>1. lagOf(e) \in Nat /\ IsPercentile(lagOf(e), 99, HealthyOf(e), LagBlocks)
      BY RowIsOfPercentiles DEF RowNumbers, RowPercentiles
    <3>2. \A k \in HealthyOf(e) : LagAt(k) = LagBlocks[k]
      BY DEF LagAt, LagBlocks, HealthyOf, Of
    <3> HIDE DEF lagOf
    <3> QED BY <3>1, <3>2 DEF IsPercentile
  <2>6. ~AlwaysLess(b, a)
    <3> SUFFICES ASSUME AlwaysLess(b, a) PROVE FALSE
      OBVIOUS
    <3>1. PICK k \in HealthyOf(a) : LagAt(k) = lagOf(a)
      BY <2>5 DEF AlwaysLess
    <3>2. CASE HealthyOf(b) = {}
      <4>1. lagOf(b) = 0 /\ lagOf(a) > 0
        BY <2>5, <3>1, <3>2 DEF AlwaysLess
      <4> QED BY <2>4, <2>5, <4>1 DEF Better
    <3>3. CASE HealthyOf(b) # {}
      <4>1. PICK l \in HealthyOf(b) : LagAt(l) = lagOf(b)
        BY <2>5, <3>3
      <4>2. lagOf(b) < lagOf(a)
        BY <3>1, <4>1 DEF AlwaysLess
      <4> QED BY <2>4, <4>2 DEF Better
    <3> QED BY <3>2, <3>3
  <2>7. ~(HealthyOf(a) = {} /\ AlwaysCurrent(b))
    <3> SUFFICES ASSUME HealthyOf(a) = {}, AlwaysCurrent(b) PROVE FALSE
      OBVIOUS
    <3>1. lagOf(a) = 0 /\ lagOf(b) = 0
      BY <2>5 DEF AlwaysCurrent
    <3> DEFINE ok(e) == Cardinality(HealthyOf(e))
               all(e) == Cardinality(Of(e))
    <3>2. /\ Summaries[a].availability = <<ok(a), all(a)>>
             /\ Summaries[b].availability = <<ok(b), all(b)>>
          /\ IsShare(Summaries[a].availability) /\ IsShare(Summaries[b].availability)
          /\ ok(a) = 0 /\ ok(b) # 0
      BY RowIsRanked DEF AlwaysCurrent, IsRanked
    <3> HIDE DEF ok, all
    <3>3. ok(b) \in Nat \ {0} /\ all(a) \in Nat \ {0} /\ all(b) \in Nat
      BY <3>2 DEF IsShare
    <3>4. ok(b) * all(a) > 0 * all(b)
      BY <3>3
    <3>5. MoreThan(Summaries[b].availability, Summaries[a].availability)
      BY <3>2, <3>4 DEF MoreThan
    <3> QED BY <2>4, <3>1, <3>5 DEF Better
  <2> QED BY <2>2, <2>3, <2>6, <2>7
<1> QED BY <1>1, <1>2, AuditInvStep, PTL DEF AuditSpec

-----------------------------------------------------------------------------
(* The open incident tells of the run the scan is in.                      *)

\* A sample is unavailable exactly when its poll failed.
LEMMA KindOfSample ==
  ASSUME NEW p
  PROVE  /\ Kind(p) \in {"unavailable", "lag", "none"}
         /\ Kind(p) = "unavailable" <=> p.class # OK
BY DEF Kind

\* The sample m of a series.
LEMMA SeriesSample ==
  ASSUME points \in Seq(Point), NEW s, NEW e, IsSeries(s, e), NEW m \in 1 .. Len(s)
  PROVE  /\ Len(s) \in Nat /\ m \in Int /\ s[m] \in DOMAIN points /\ points[s[m]] \in Point
         /\ points[s[m]].endpoint = e
<1>1. s \in Seq(DOMAIN points) /\ points[s[m]].endpoint = e
  BY DEF IsSeries
<1>2. Len(s) \in Nat /\ s[m] \in DOMAIN points
  BY <1>1
<1>3. \A i \in DOMAIN points : points[i] \in Point
  OBVIOUS
<1> QED BY <1>1, <1>2, <1>3

\* Tells, of a set of samples from the first to the last.
TellsOf(inc, S, first, last) ==
  /\ inc.start = points[first].at /\ inc.end = points[last].at
  /\ inc.kind = Kind(points[first]) /\ inc.endpoint = points[first].endpoint
  /\ inc.samples = Cardinality(S) /\ inc.polls = S
  /\ IsPeak(inc.blocks, {points[i].lag[1] : i \in S})
  /\ IsPeak(inc.seconds, {points[i].lag[2] : i \in S})
  /\ ToSet(inc.detail) = {points[i].class : i \in S} \ {OK}

\* To tell of a run is to tell of its stretch of the series.
LEMMA TellsOfStretch ==
  ASSUME NEW inc, NEW s, NEW r
  PROVE  Tells(inc, s, r) <=> TellsOf(inc, Stretch(s, r[1], r[2]), s[r[1]], s[r[2]])
BY DEF Tells, TellsOf, Stretch, KindAt

\* A stretch has as many samples as it is long.
LEMMA StretchIsFinite ==
  ASSUME points \in Seq(Point), NEW s, NEW e, IsSeries(s, e), NEW i \in Nat \ {0},
         NEW j \in 1 .. Len(s)
  PROVE  /\ Stretch(s, i, j) \subseteq Of(e) /\ IsFiniteSet(Stretch(s, i, j))
         /\ Stretch(s, i, j) \subseteq DOMAIN points
<1>1. Len(s) \in Nat
  BY DEF IsSeries
<1>2. i .. j \subseteq 1 .. Len(s)
  BY <1>1
<1>3. Stretch(s, i, j) \subseteq Of(e)
  BY <1>2, SeriesSample DEF Stretch, Of
<1>4. IsFiniteSet(Of(e)) /\ Of(e) \subseteq DOMAIN points
  BY PointsTyped
<1>5. IsFiniteSet(Stretch(s, i, j))
  BY <1>3, <1>4, FS_Subset
<1> QED BY <1>3, <1>4, <1>5

\* A new incident.
LEMMA OpenedFields ==
  ASSUME NEW p \in Point
  PROVE  LET new == Opened(p)
         IN  /\ IsIncident(new) /\ new.kind = Kind(p) /\ new.endpoint = p.endpoint
             /\ new.start = p.at /\ new.samples = 0 /\ new.blocks = 0 /\ new.seconds = 0
             /\ ToSet(new.detail) = {p.class} \ {OK} /\ new.polls = {}
<1> DEFINE detail == IF p.class = OK THEN <<>> ELSE <<p.class>>
           new == Opened(p)
<1>1. p.endpoint \in Endpoint /\ p.at \in Nat /\ (p.class = OK \/ p.class \in ErrClass)
  BY PointFields
<1>2. detail \in Seq(ErrClass) /\ ToSet(detail) = {p.class} \ {OK}
  BY <1>1 DEF ToSet
<1> HIDE DEF detail
<1>3. new = [kind |-> Kind(p), endpoint |-> p.endpoint, start |-> p.at, end |-> p.at,
             samples |-> 0, blocks |-> 0, seconds |-> 0, detail |-> detail, polls |-> {}]
  BY DEF Opened, detail
<1> HIDE DEF new
<1>4. IsIncident(new)
  BY <1>1, <1>2, <1>3 DEF IsIncident
<1> QED BY <1>2, <1>3, <1>4 DEF new

\* A new incident with its first sample tells of that sample.
LEMMA TellsOpened ==
  ASSUME points \in Seq(Point), NEW i \in DOMAIN points
  PROVE  LET new == Prolonged(Opened(points[i]), i)
         IN  IsIncident(new) /\ TellsOf(new, {i}, i, i) /\ new.samples = 1
<1> DEFINE p == points[i]
           opened == Opened(p)
           new == Prolonged(opened, i)
<1>1. p \in Point /\ p.lag[1] \in Nat /\ p.lag[2] \in Nat
  <2>1. p \in Point
    OBVIOUS
  <2> QED BY <2>1, PointFields
<1> HIDE DEF p
<1>2. /\ IsIncident(opened) /\ opened.kind = Kind(p) /\ opened.endpoint = p.endpoint
      /\ opened.start = p.at /\ opened.samples = 0 /\ opened.blocks = 0 /\ opened.seconds = 0
      /\ ToSet(opened.detail) = {p.class} \ {OK} /\ opened.polls = {}
  BY <1>1, OpenedFields
<1> HIDE DEF opened
<1>3. /\ IsIncident(new)
      /\ new.kind = opened.kind /\ new.endpoint = opened.endpoint /\ new.start = opened.start
      /\ new.end = p.at /\ new.samples = opened.samples + 1
      /\ new.blocks = Max({opened.blocks, p.lag[1]})
      /\ new.seconds = Max({opened.seconds, p.lag[2]})
      /\ ToSet(new.detail) = ToSet(opened.detail) \cup ({p.class} \ {OK})
      /\ new.polls = opened.polls \cup {i}
  BY <1>2, ProlongedFields DEF p
<1> HIDE DEF new
<1>4. ASSUME NEW v \in Nat, NEW S, S = {v} PROVE IsPeak(Max({0, v}), S)
  <2>1. 0 \in Int /\ v \in Int
    OBVIOUS
  <2>2. Max({0, v}) \in {0, v} /\ 0 <= Max({0, v}) /\ v <= Max({0, v})
    BY ONLY <2>1, MaxOfTwo
  <2>3. Max({0, v}) = v
    BY <2>2
  <2> QED BY <1>4, <2>3 DEF IsPeak
<1>5. IsPeak(new.blocks, {points[k].lag[1] : k \in {i}})
  <2>1. {points[k].lag[1] : k \in {i}} = {p.lag[1]}
    BY DEF p
  <2>2. new.blocks = Max({0, p.lag[1]}) /\ p.lag[1] \in Nat
    BY <1>1, <1>2, <1>3
  <2>3. IsPeak(Max({0, p.lag[1]}), {p.lag[1]})
    BY ONLY <1>4, <2>2
  <2> QED BY <2>1, <2>2, <2>3
<1>6. IsPeak(new.seconds, {points[k].lag[2] : k \in {i}})
  <2>1. {points[k].lag[2] : k \in {i}} = {p.lag[2]}
    BY DEF p
  <2>2. new.seconds = Max({0, p.lag[2]}) /\ p.lag[2] \in Nat
    BY <1>1, <1>2, <1>3
  <2>3. IsPeak(Max({0, p.lag[2]}), {p.lag[2]})
    BY ONLY <1>4, <2>2
  <2> QED BY <2>1, <2>2, <2>3
<1>7. Cardinality({i}) = 1
  BY FS_Singleton
<1>8. ToSet(new.detail) = {points[k].class : k \in {i}} \ {OK}
  BY <1>2, <1>3 DEF p
<1>9. TellsOf(new, {i}, i, i)
  BY <1>2, <1>3, <1>5, <1>6, <1>7, <1>8 DEF TellsOf, p
<1> QED BY <1>2, <1>3, <1>9 DEF new, opened, p

\* An incident that one sample more of its kind joins tells of it too.
LEMMA TellsProlonged ==
  ASSUME points \in Seq(Point), NEW S \in SUBSET DOMAIN points, IsFiniteSet(S),
         NEW first \in S, NEW last, NEW i \in DOMAIN points \ S,
         NEW inc, IsIncident(inc), TellsOf(inc, S, first, last)
  PROVE  LET new == Prolonged(inc, i)
         IN  IsIncident(new) /\ TellsOf(new, S \cup {i}, first, i)
         /\ new.samples = inc.samples + 1
<1> DEFINE p == points[i]
           new == Prolonged(inc, i)
           T == S \cup {i}
<1>1. \A k \in DOMAIN points : points[k].lag[1] \in Nat /\ points[k].lag[2] \in Nat
  <2>1. \A k \in DOMAIN points : points[k] \in Point
    OBVIOUS
  <2> QED BY <2>1, PointFields
<1>2. /\ IsIncident(new)
      /\ new.kind = inc.kind /\ new.endpoint = inc.endpoint /\ new.start = inc.start
      /\ new.end = p.at /\ new.samples = inc.samples + 1
      /\ new.blocks = Max({inc.blocks, p.lag[1]})
      /\ new.seconds = Max({inc.seconds, p.lag[2]})
      /\ ToSet(new.detail) = ToSet(inc.detail) \cup ({p.class} \ {OK})
      /\ new.polls = inc.polls \cup {i}
  BY ProlongedFields
<1> HIDE DEF new
<1>3. IsPeak(new.blocks, {points[k].lag[1] : k \in T})
  <2> DEFINE B == {points[k].lag[1] : k \in S}
  <2>1. {points[k].lag[1] : k \in T} = B \cup {p.lag[1]} /\ B \in SUBSET Nat
    BY <1>1
  <2>2. IsPeak(inc.blocks, B) /\ inc.blocks \in Nat /\ p.lag[1] \in Nat
    BY <1>1 DEF TellsOf, IsIncident
  <2> HIDE DEF B, p
  <2>3. IsPeak(Max({inc.blocks, p.lag[1]}), B \cup {p.lag[1]})
    BY <2>1, <2>2, PeakGrows
  <2> QED BY <1>2, <2>1, <2>3
<1>4. IsPeak(new.seconds, {points[k].lag[2] : k \in T})
  <2> DEFINE B == {points[k].lag[2] : k \in S}
  <2>1. {points[k].lag[2] : k \in T} = B \cup {p.lag[2]} /\ B \in SUBSET Nat
    BY <1>1
  <2>2. IsPeak(inc.seconds, B) /\ inc.seconds \in Nat /\ p.lag[2] \in Nat
    BY <1>1 DEF TellsOf, IsIncident
  <2> HIDE DEF B, p
  <2>3. IsPeak(Max({inc.seconds, p.lag[2]}), B \cup {p.lag[2]})
    BY <2>1, <2>2, PeakGrows
  <2> QED BY <1>2, <2>1, <2>3
<1>5. Cardinality(T) = Cardinality(S) + 1
  BY FS_AddElement
<1>6. ToSet(new.detail) = {points[k].class : k \in T} \ {OK}
  BY <1>2 DEF TellsOf
<1>7. TellsOf(new, T, first, i)
  BY <1>2, <1>3, <1>4, <1>5, <1>6 DEF TellsOf
<1> QED BY <1>2, <1>7 DEF new

\* A run of s, as long as it is at its last sample j.
IsOpenRun(s, i, j) ==
  /\ i \in 1 .. j /\ j \in 1 .. Len(s) /\ KindAt(s, i) # "none"
  /\ i > 1 => KindAt(s, i - 1) # KindAt(s, i)
  /\ \A m \in i .. j : KindAt(s, m) = KindAt(s, i)

\* The open incident tells of the run that is open at j.
IsOpen(inc, s, j) ==
  \/ inc = None /\ (j = 0 \/ KindAt(s, j) = "none")
  \/ /\ inc # None /\ IsIncident(inc)
     /\ \E i \in 1 .. j : IsOpenRun(s, i, j) /\ Tells(inc, s, <<i, j>>) /\ inc.samples = j - i + 1

\* The kind of the open incident is the kind of the last sample.
LEMMA OpenKind ==
  ASSUME NEW inc, NEW s, NEW j \in Nat, IsOpen(inc, s, j)
  PROVE  /\ inc = None => inc.kind = "none"
         /\ inc # None => j > 0 /\ inc.kind = KindAt(s, j) /\ inc.kind # "none"
<1>1. None.kind = "none"
  BY DEF None
<1>2. ASSUME inc # None PROVE j > 0 /\ inc.kind = KindAt(s, j) /\ inc.kind # "none"
  <2>1. PICK i \in 1 .. j : IsOpenRun(s, i, j) /\ Tells(inc, s, <<i, j>>)
    BY <1>2 DEF IsOpen
  <2>2. inc.kind = KindAt(s, i) /\ KindAt(s, i) # "none"
    BY <2>1 DEF Tells, IsOpenRun
  <2>3. j \in i .. j
    BY <2>1
  <2>4. KindAt(s, j) = KindAt(s, i)
    BY <2>1, <2>3 DEF IsOpenRun
  <2> QED BY <2>1, <2>2, <2>4
<1> QED BY <1>1, <1>2

\* One sample more, that goes on like the run or begins a new one.
LEMMA OpenGoesOn ==
  ASSUME points \in Seq(Point), NEW s, NEW e, IsSeries(s, e), NEW j \in Nat, j + 1 <= Len(s),
         NEW inc, IsOpen(inc, s, j), inc # None, inc.kind = KindAt(s, j + 1)
  PROVE  IsOpen(Prolonged(inc, s[j + 1]), s, j + 1)
<1> DEFINE new == Prolonged(inc, s[j + 1])
<1>1. PICK i \in 1 .. j : IsOpenRun(s, i, j) /\ Tells(inc, s, <<i, j>>) /\ inc.samples = j - i + 1
  BY DEF IsOpen
<1>2. IsIncident(inc) /\ Len(s) \in Nat /\ i \in Nat /\ i # 0 /\ i <= j /\ j \in 1 .. Len(s)
      /\ j + 1 \in 1 .. Len(s)
  BY DEF IsOpen, IsSeries
<1> DEFINE S == Stretch(s, i, j)
<1>3. S \in SUBSET DOMAIN points /\ IsFiniteSet(S)
  BY <1>2, StretchIsFinite
<1>4. Stretch(s, i, j + 1) = S \cup {s[j + 1]}
  BY <1>2, StretchGrows
<1>5. s[j + 1] \in DOMAIN points /\ s[j + 1] \notin S
  <2>1. s[j + 1] \in DOMAIN points
    BY <1>2, SeriesSample
  <2>2. ASSUME NEW m \in i .. j PROVE s[m] # s[j + 1]
    <3>1. m \in 1 .. Len(s) /\ m # j + 1
      BY <1>2
    <3> QED BY <1>2, <3>1 DEF IsSeries
  <2> QED BY <2>1, <2>2 DEF Stretch
<1>6. s[i] \in S /\ TellsOf(inc, S, s[i], s[j])
  <2>1. s[i] \in S
    BY <1>2 DEF Stretch
  <2> QED BY <1>1, <2>1, TellsOfStretch
<1> HIDE DEF S
<1>7. /\ IsIncident(new) /\ TellsOf(new, S \cup {s[j + 1]}, s[i], s[j + 1])
      /\ new.samples = inc.samples + 1
  <2> DEFINE k == s[j + 1]
             first == s[i]
             last == s[j]
  <2>1. /\ k \in DOMAIN points \ S /\ first \in S /\ IsIncident(inc)
           /\ TellsOf(inc, S, first, last)
        /\ points \in Seq(Point)
    BY <1>2, <1>5, <1>6
  <2> HIDE DEF k, first, last
  <2>2. /\ IsIncident(Prolonged(inc, k)) /\ TellsOf(Prolonged(inc, k), S \cup {k}, first, k)
        /\ Prolonged(inc, k).samples = inc.samples + 1
    BY ONLY <1>3, <2>1, TellsProlonged
  <2> QED BY <2>2 DEF k, first
<1> HIDE DEF new
<1>8. Tells(new, s, <<i, j + 1>>)
  BY <1>4, <1>7, TellsOfStretch
<1>9. IsOpenRun(s, i, j + 1)
  <2>1. KindAt(s, j + 1) = KindAt(s, i)
    BY <1>1 DEF Tells
  <2>2. \A m \in i .. j + 1 : m \in i .. j \/ m = j + 1
    BY <1>2
  <2>3. \A m \in i .. j + 1 : KindAt(s, m) = KindAt(s, i)
    BY <1>1, <2>1, <2>2 DEF IsOpenRun
  <2> QED BY <1>1, <1>2, <2>3 DEF IsOpenRun
<1>10. new # None
  <2>1. "endpoint" \in DOMAIN new /\ "endpoint" \notin DOMAIN None
    BY <1>7 DEF IsIncident, None
  <2> QED BY <2>1
<1>11. new.samples = (j + 1) - i + 1 /\ i \in 1 .. j + 1
  BY <1>1, <1>2, <1>7
<1> QED BY <1>7, <1>8, <1>9, <1>10, <1>11 DEF IsOpen, new

\* A sample of another kind begins a run.
LEMMA OpenBegins ==
  ASSUME points \in Seq(Point), NEW s, NEW e, IsSeries(s, e), NEW j \in Nat, j + 1 <= Len(s),
         NEW inc, IsOpen(inc, s, j), KindAt(s, j + 1) # "none", inc.kind # KindAt(s, j + 1)
  PROVE  IsOpen(Prolonged(Opened(points[s[j + 1]]), s[j + 1]), s, j + 1)
<1> DEFINE k == j + 1
           new == Prolonged(Opened(points[s[k]]), s[k])
<1>1. k \in 1 .. Len(s) /\ k \in Nat /\ k # 0 /\ k \in 1 .. k
  BY DEF IsSeries
<1>2. s[k] \in DOMAIN points
  BY <1>1, SeriesSample
<1>3. IsIncident(new) /\ TellsOf(new, {s[k]}, s[k], s[k]) /\ new.samples = 1
  BY <1>2, TellsOpened
<1>4. Stretch(s, k, k) = {s[k]}
  BY <1>1 DEF Stretch
<1>5. k > 1 => KindAt(s, k - 1) # KindAt(s, k)
  <2> SUFFICES ASSUME k > 1 PROVE KindAt(s, j) # KindAt(s, k)
    OBVIOUS
  <2>1. CASE inc = None
    BY <1>1, <2>1 DEF IsOpen
  <2>2. CASE inc # None
    BY <2>2, OpenKind
  <2> QED BY <2>1, <2>2
<1>6. KindAt(s, k) # "none"
  OBVIOUS
<1> HIDE DEF new, k
<1>7. Tells(new, s, <<k, k>>)
  BY <1>3, <1>4, TellsOfStretch
<1>8. IsOpenRun(s, k, k)
  <2>1. \A m \in k .. k : m = k
    BY <1>1
  <2> QED BY <1>1, <1>5, <1>6, <2>1 DEF IsOpenRun
<1>9. new # None
  <2>1. "endpoint" \in DOMAIN new /\ "endpoint" \notin DOMAIN None
    BY <1>3 DEF IsIncident, None
  <2> QED BY <2>1
<1>10. new.samples = k - k + 1
  BY <1>1, <1>3
<1>11. IsOpen(new, s, k)
  BY <1>1, <1>3, <1>7, <1>8, <1>9, <1>10 DEF IsOpen
<1> QED BY <1>11 DEF new, k

-----------------------------------------------------------------------------
(* The rows and the runs they tell of.                                     *)

\* The run r of endpoint e is closed when p samples of the n-th series were
\* scanned and the last of them is not counted.
Closed(e, r, n, p) == r \in Runs(Series(e)) /\ (e < n \/ (e = n /\ r[2] < p))

\* The table while the series of n is at sample p: a row for every run that is closed.
IsTable(t, n, p) ==
  /\ t \in Seq(ToSet(t))
  /\ \A k \in DOMAIN t : IsIncident(t[k]) /\
       \E r : Closed(t[k].endpoint, r, n, p) /\ Tells(t[k], Series(t[k].endpoint), r)
  /\ \A e \in Endpoint : \A r : Closed(e, r, n, p) =>
       \E k \in DOMAIN t : Tells(t[k], Series(e), r)
  /\ \A k, l \in DOMAIN t : k # l => t[k].polls \cap t[l].polls = {}

\* The fields of a run.
LEMMA RunFields ==
  ASSUME points \in Seq(Point), NEW e, NEW r \in Runs(Series(e))
  PROVE  LET s == Series(e)
         IN  /\ Len(s) \in Nat /\ r[1] \in 1 .. r[2] /\ r[2] \in 1 .. Len(s) /\ r = <<r[1], r[2]>>
             /\ r[1] \in Nat /\ r[1] # 0 /\ r[2] \in Nat
             /\ KindAt(s, r[1]) # "none"
             /\ r[1] > 1 => KindAt(s, r[1] - 1) # KindAt(s, r[1])
             /\ r[2] < Len(s) => KindAt(s, r[2] + 1) # KindAt(s, r[1])
             /\ \A m \in r[1] .. r[2] : KindAt(s, m) = KindAt(s, r[1])
             /\ r[2] - r[1] + 1 >= rules.samples
<1> DEFINE s == Series(e)
<1>1. Len(s) \in Nat
  BY SeriesIsSeries DEF IsSeries
<1>2. r \in (1 .. Len(s)) \X (1 .. Len(s)) /\ r[1] <= r[2]
  BY DEF Runs
<1>3. r[1] \in 1 .. r[2] /\ r[2] \in 1 .. Len(s) /\ r = <<r[1], r[2]>>
      /\ r[1] \in Nat /\ r[1] # 0 /\ r[2] \in Nat
  BY <1>1, <1>2
<1> HIDE DEF s
<1>4. /\ KindAt(s, r[1]) # "none"
      /\ r[1] > 1 => KindAt(s, r[1] - 1) # KindAt(s, r[1])
      /\ r[2] < Len(s) => KindAt(s, r[2] + 1) # KindAt(s, r[1])
      /\ \A m \in r[1] .. r[2] : KindAt(s, m) = KindAt(s, r[1])
      /\ r[2] - r[1] + 1 >= rules.samples
  BY DEF Runs, s
<1> QED BY <1>1, <1>3, <1>4 DEF s

\* What a row tells of is a stretch of the series of its endpoint.
LEMMA RunPolls ==
  ASSUME points \in Seq(Point), NEW e, NEW r \in Runs(Series(e)), NEW inc,
         Tells(inc, Series(e), r)
  PROVE  /\ inc.polls = Stretch(Series(e), r[1], r[2]) /\ inc.polls \subseteq Of(e)
         /\ inc.endpoint = e /\ inc.kind = KindAt(Series(e), r[1])
         /\ \A i \in inc.polls : Kind(points[i]) = inc.kind
<1> DEFINE s == Series(e)
<1>1. IsSeries(s, e)
  BY SeriesIsSeries
<1>2. /\ Len(s) \in Nat /\ r[1] \in 1 .. r[2] /\ r[2] \in 1 .. Len(s)
      /\ r[1] \in Nat /\ r[1] # 0 /\ r[2] \in Nat
      /\ \A m \in r[1] .. r[2] : KindAt(s, m) = KindAt(s, r[1])
  BY RunFields
<1> HIDE DEF s
<1>3. inc.polls = Stretch(s, r[1], r[2]) /\ inc.kind = KindAt(s, r[1])
      /\ inc.endpoint = points[s[r[1]]].endpoint
  BY DEF Tells, Stretch, s
<1>4. r[1] \in 1 .. Len(s)
  BY <1>2
<1>5. inc.endpoint = e
  BY <1>1, <1>3, <1>4, SeriesSample
<1>6. Stretch(s, r[1], r[2]) \subseteq Of(e)
  BY <1>1, <1>2, StretchIsFinite
<1>7. \A i \in inc.polls : Kind(points[i]) = inc.kind
  BY <1>2, <1>3 DEF Stretch, KindAt
<1> QED BY <1>3, <1>5, <1>6, <1>7 DEF s

\* Two runs of a series share no sample.
LEMMA StretchesApart ==
  ASSUME NEW s, NEW e, IsSeries(s, e), NEW i \in Nat \ {0}, NEW j \in Nat, NEW k \in Nat,
         NEW l \in 1 .. Len(s), j < k, j <= l
  PROVE  Stretch(s, i, j) \cap Stretch(s, k, l) = {}
<1>1. Len(s) \in Nat
  BY DEF IsSeries
<1>2. ASSUME NEW m \in i .. j, NEW o \in k .. l PROVE s[m] # s[o]
  <2>1. m \in 1 .. Len(s) /\ o \in 1 .. Len(s) /\ m # o
    BY <1>1
  <2> QED BY <2>1 DEF IsSeries
<1> QED BY <1>2 DEF Stretch

-----------------------------------------------------------------------------
(* The rows are the runs that are closed.                                  *)

\* The run that ends where the open incident does is the one it tells of.
LEMMA RunAtEnd ==
  ASSUME points \in Seq(Point), NEW e, NEW j \in Nat, NEW inc, IsOpen(inc, Series(e), j),
         NEW r \in Runs(Series(e)), r[2] = j
  PROVE  inc # None /\ Tells(inc, Series(e), r) /\ inc.samples >= rules.samples
<1> DEFINE s == Series(e)
<1>1. /\ Len(s) \in Nat /\ r[1] \in 1 .. j /\ r = <<r[1], j>> /\ r[1] \in Nat
      /\ KindAt(s, r[1]) # "none"
      /\ r[1] > 1 => KindAt(s, r[1] - 1) # KindAt(s, r[1])
      /\ \A m \in r[1] .. j : KindAt(s, m) = KindAt(s, r[1])
      /\ j - r[1] + 1 >= rules.samples
  BY RunFields
<1> HIDE DEF s
<1>2. inc # None
  <2>1. j \in r[1] .. j /\ j # 0
    BY <1>1
  <2>2. KindAt(s, j) # "none"
    BY <1>1, <2>1
  <2> QED BY <2>1, <2>2 DEF IsOpen, s
<1>3. PICK i \in 1 .. j : IsOpenRun(s, i, j) /\ Tells(inc, s, <<i, j>>) /\ inc.samples = j - i + 1
  BY <1>2 DEF IsOpen, s
<1>4. /\ i > 1 => KindAt(s, i - 1) # KindAt(s, i)
      /\ \A m \in i .. j : KindAt(s, m) = KindAt(s, i)
  BY <1>3 DEF IsOpenRun
<1>5. ~(i < r[1])
  <2> SUFFICES ASSUME i < r[1] PROVE FALSE
    OBVIOUS
  <2>1. r[1] - 1 \in i .. j /\ r[1] \in i .. j /\ r[1] > 1
    BY <1>1
  <2> QED BY <1>1, <1>4, <2>1
<1>6. ~(r[1] < i)
  <2> SUFFICES ASSUME r[1] < i PROVE FALSE
    OBVIOUS
  <2>1. i - 1 \in r[1] .. j /\ i \in r[1] .. j /\ i > 1
    BY <1>1
  <2> QED BY <1>1, <1>4, <2>1
<1>7. i = r[1]
  BY <1>1, <1>5, <1>6
<1>8. Tells(inc, s, r) /\ inc.samples >= rules.samples
  BY <1>1, <1>3, <1>7
<1> QED BY <1>2, <1>8 DEF s

\* An open incident that is long enough and does not go on tells of a run.
LEMMA RunOfOpen ==
  ASSUME points \in Seq(Point), NEW e, NEW j \in Nat, NEW inc, IsOpen(inc, Series(e), j),
         inc # None,
         j < Len(Series(e)) => inc.kind # KindAt(Series(e), j + 1), inc.samples >= rules.samples
  PROVE  \E r \in Runs(Series(e)) : r[2] = j /\ Tells(inc, Series(e), r)
<1> DEFINE s == Series(e)
<1>1. PICK i \in 1 .. j : IsOpenRun(s, i, j) /\ Tells(inc, s, <<i, j>>) /\ inc.samples = j - i + 1
  BY DEF IsOpen
<1>2. Len(s) \in Nat
  BY SeriesIsSeries DEF IsSeries
<1> DEFINE r == <<i, j>>
<1>3. r \in (1 .. Len(s)) \X (1 .. Len(s)) /\ r[1] = i /\ r[2] = j /\ i <= j
  BY <1>1, <1>2 DEF IsOpenRun
<1>4. inc.kind = KindAt(s, i)
  BY <1>1 DEF Tells
<1> HIDE DEF s
<1>5. /\ KindAt(s, i) # "none"
      /\ i > 1 => KindAt(s, i - 1) # KindAt(s, i)
      /\ j < Len(s) => KindAt(s, j + 1) # KindAt(s, i)
      /\ \A m \in i .. j : KindAt(s, m) = KindAt(s, i)
      /\ j - i + 1 >= rules.samples
  BY <1>1, <1>4 DEF IsOpenRun, s
<1> HIDE DEF r
<1>6. r \in Runs(s)
  BY <1>3, <1>5 DEF Runs
<1> QED BY <1>1, <1>3, <1>6 DEF s, r

\* No run ends where nothing that is reported does.
LEMMA NoRunEnds ==
  ASSUME points \in Seq(Point), NEW e, NEW j \in Nat, NEW inc, IsOpen(inc, Series(e), j),
         \/ inc = None
         \/ inc.samples < rules.samples
         \/ j < Len(Series(e)) /\ inc.kind = KindAt(Series(e), j + 1),
         AreRules(rules), NEW r \in Runs(Series(e))
  PROVE  r[2] # j
<1> SUFFICES ASSUME r[2] = j PROVE FALSE
  OBVIOUS
<1> DEFINE s == Series(e)
<1>1. inc # None /\ Tells(inc, s, r) /\ inc.samples >= rules.samples
  BY RunAtEnd
<1>2. inc.samples \in Nat /\ rules.samples \in Int
  BY <1>1 DEF IsOpen, IsIncident, AreRules
<1>3. j < Len(s) /\ inc.kind = KindAt(s, j + 1)
  BY <1>1, <1>2
<1>4. inc.kind = KindAt(s, r[1])
  BY <1>1 DEF Tells
<1>5. KindAt(s, j + 1) # KindAt(s, r[1])
  BY <1>3, RunFields
<1> QED BY <1>3, <1>4, <1>5

\* A step that closes no run keeps the table.
LEMMA TableKept ==
  ASSUME points \in Seq(Point), NEW n \in Int, NEW j \in Nat, NEW t, IsTable(t, n, j),
         \A r \in Runs(Series(n)) : r[2] # j
  PROVE  IsTable(t, n, j + 1)
<1>1. ASSUME NEW e, NEW r PROVE Closed(e, r, n, j + 1) <=> Closed(e, r, n, j)
  <2>1. CASE e = n /\ r \in Runs(Series(n))
    <3>1. r[2] # j /\ r[2] \in Nat
      BY <2>1, RunFields
    <3> QED BY <2>1, <3>1 DEF Closed
  <2>2. CASE ~(e = n /\ r \in Runs(Series(n)))
    BY <2>2 DEF Closed
  <2> QED BY <2>1, <2>2
<1>2. \A e, r : Closed(e, r, n, j + 1) <=> Closed(e, r, n, j)
  BY <1>1
<1> QED BY <1>2 DEF IsTable

\* The rows with one row more.
LEMMA ToSetAppended ==
  ASSUME NEW t, t \in Seq(ToSet(t)), NEW inc
  PROVE  LET new == Append(t, inc)
         IN  /\ Len(t) \in Nat /\ DOMAIN t = 1 .. Len(t)
             /\ DOMAIN new = 1 .. Len(t) + 1 /\ new[Len(t) + 1] = inc
             /\ \A k \in 1 .. Len(t) : new[k] = t[k]
             /\ new \in Seq(ToSet(new))
<1> DEFINE T == ToSet(t)
           U == T \cup {inc}
           new == Append(t, inc)
<1>1. t \in Seq(U) /\ inc \in U
  <2>1. T \subseteq U
    OBVIOUS
  <2> HIDE DEF T, U
  <2>2. t \in Seq(T)
    BY DEF T
  <2>3. t \in Seq(U)
    BY <2>1, <2>2
  <2> QED BY <2>3 DEF U
<1> HIDE DEF U, T
<1>2. /\ new \in Seq(U) /\ Len(new) = Len(t) + 1 /\ Len(t) \in Nat /\ new[Len(t) + 1] = inc
      /\ \A k \in 1 .. Len(t) : new[k] = t[k]
      /\ DOMAIN new = 1 .. Len(t) + 1 /\ DOMAIN t = 1 .. Len(t)
  BY <1>1, AppendProperties
<1> HIDE DEF new
<1>3. ToSet(new) = U
  BY <1>2 DEF ToSet, U, T
<1> QED BY <1>2, <1>3 DEF new

\* A step that closes a run adds its row.
LEMMA TableGrows ==
  ASSUME points \in Seq(Point), NEW n \in Endpoint, NEW j \in Nat, NEW t, IsTable(t, n, j),
         NEW inc, IsIncident(inc), NEW r \in Runs(Series(n)), r[2] = j, Tells(inc, Series(n), r),
         \A q \in Runs(Series(n)) : q[2] = j => Tells(inc, Series(n), q)
  PROVE  IsTable(Append(t, inc), n, j + 1)
<1> DEFINE new == Append(t, inc)
           m == Len(t) + 1
           s == Series(n)
<1>1. /\ m \in Nat \ {0} /\ DOMAIN t = 1 .. m - 1 /\ DOMAIN new = 1 .. m /\ new[m] = inc
      /\ \A k \in DOMAIN t : new[k] = t[k] /\ k \in DOMAIN new
      /\ new \in Seq(ToSet(new))
  <2>1. t \in Seq(ToSet(t))
    BY DEF IsTable
  <2>2. /\ Len(t) \in Nat /\ DOMAIN t = 1 .. Len(t)
        /\ DOMAIN new = 1 .. Len(t) + 1 /\ new[Len(t) + 1] = inc
        /\ \A k \in 1 .. Len(t) : new[k] = t[k]
        /\ new \in Seq(ToSet(new))
    BY <2>1, ToSetAppended
  <2> HIDE DEF new
  <2> QED BY <2>2
<1> HIDE DEF new, m
<1>2. \A k \in DOMAIN new : k \in DOMAIN t \/ (k = m /\ new[k] = inc)
  BY <1>1
<1>3. n \in Int /\ inc.endpoint = n /\ inc.polls = Stretch(s, r[1], j)
      /\ inc.polls \subseteq Of(n)
  <2>1. n \in Int
    BY AuditConstants
  <2> QED BY <2>1, RunPolls
<1>4. ASSUME NEW e, NEW q, Closed(e, q, n, j) PROVE Closed(e, q, n, j + 1)
  <2>1. CASE e < n
    BY <1>4, <2>1 DEF Closed
  <2>2. CASE e = n
    <3>1. q \in Runs(s) /\ q[2] < j
      BY <1>3, <1>4, <2>2 DEF Closed
    <3>2. q[2] \in Nat
      BY <3>1, RunFields
    <3> QED BY <2>2, <3>1, <3>2 DEF Closed
  <2> QED BY <1>4, <2>1, <2>2 DEF Closed
<1>5. Closed(n, r, n, j + 1)
  BY DEF Closed
<1>6. ASSUME NEW k \in DOMAIN new
      PROVE  IsIncident(new[k]) /\ \E q : Closed(new[k].endpoint, q, n, j + 1) /\ Tells(new[k], Series(new[k].endpoint), q)
  <2>1. CASE k \in DOMAIN t
    <3>1. new[k] = t[k]
      BY <1>1, <2>1
    <3>2. IsIncident(t[k]) /\ \E q : Closed(t[k].endpoint, q, n, j) /\ Tells(t[k], Series(t[k].endpoint), q)
      BY <2>1 DEF IsTable
    <3> QED BY <1>4, <3>1, <3>2
  <2>2. CASE k = m /\ new[k] = inc
    BY <1>3, <1>5, <2>2
  <2> QED BY <1>2, <2>1, <2>2
<1>7. ASSUME NEW e \in Endpoint, NEW q, Closed(e, q, n, j + 1)
      PROVE  \E k \in DOMAIN new : Tells(new[k], Series(e), q)
  <2>1. CASE Closed(e, q, n, j)
    <3>1. PICK k \in DOMAIN t : Tells(t[k], Series(e), q)
      BY <2>1 DEF IsTable
    <3> QED BY <1>1, <3>1
  <2>2. CASE ~Closed(e, q, n, j)
    <3>1. e = n /\ q \in Runs(s) /\ q[2] < j + 1 /\ ~(q[2] < j)
      BY <1>7, <2>2 DEF Closed
    <3>2. q[2] \in Nat
      BY <3>1, RunFields
    <3>3. Tells(inc, s, q)
      BY <3>1, <3>2
    <3>4. m \in DOMAIN new
      BY <1>1
    <3> QED BY <1>1, <3>1, <3>3, <3>4
  <2> QED BY <2>1, <2>2
<1>8. ASSUME NEW k \in DOMAIN t PROVE t[k].polls \cap inc.polls = {}
  <2>1. PICK q : Closed(t[k].endpoint, q, n, j) /\ Tells(t[k], Series(t[k].endpoint), q)
    BY DEF IsTable
  <2> DEFINE e == t[k].endpoint
  <2> HIDE DEF e
  <2>2. q \in Runs(Series(e)) /\ Tells(t[k], Series(e), q) /\ (e < n \/ (e = n /\ q[2] < j))
    BY <2>1 DEF Closed, e
  <2>3. t[k].polls = Stretch(Series(e), q[1], q[2]) /\ t[k].polls \subseteq Of(e)
    BY <2>2, RunPolls
  <2>4. CASE e # n
    BY <1>3, <2>3, <2>4 DEF Of
  <2>5. CASE e = n
    <3>1. /\ Len(s) \in Nat /\ r[1] \in 1 .. j /\ j \in 1 .. Len(s) /\ r[1] \in Nat
          /\ \A o \in r[1] .. j : KindAt(s, o) = KindAt(s, r[1])
      BY RunFields
    <3>2. /\ q[1] \in 1 .. q[2] /\ q[2] \in 1 .. Len(s) /\ q[1] \in Nat /\ q[1] # 0
             /\ q[2] \in Nat
          /\ q[2] < Len(s) => KindAt(s, q[2] + 1) # KindAt(s, q[1])
          /\ \A o \in q[1] .. q[2] : KindAt(s, o) = KindAt(s, q[1])
      BY <2>2, <2>5, RunFields
    <3>3. q[2] < j
      BY <1>3, <2>2, <2>5
    <3> HIDE DEF s
    <3>4. q[2] < r[1]
      <4> SUFFICES ASSUME r[1] <= q[2] PROVE FALSE
        BY <3>1, <3>2
      <4>1. q[2] \in r[1] .. j /\ q[2] + 1 \in r[1] .. j /\ q[2] \in q[1] .. q[2] /\ q[2] < Len(s)
        BY <3>1, <3>2, <3>3
      <4>2. KindAt(s, q[2]) = KindAt(s, q[2] + 1)
        BY <3>1, <4>1
      <4> QED BY <3>2, <4>1, <4>2
    <3>5. IsSeries(s, n)
      BY SeriesIsSeries DEF s
    <3> DEFINE a == q[1]
               b == q[2]
               c == r[1]
    <3>6. a \in Nat \ {0} /\ b \in Nat /\ c \in Nat /\ j \in 1 .. Len(s) /\ b < c /\ b <= j
      BY <3>1, <3>2, <3>3, <3>4
    <3> HIDE DEF a, b, c
    <3>7. Stretch(s, a, b) \cap Stretch(s, c, j) = {}
      BY ONLY <3>5, <3>6, StretchesApart
    <3> QED BY <1>3, <2>3, <2>5, <3>7 DEF a, b, c, s
  <2> QED BY <2>4, <2>5
<1>9. ASSUME NEW k \in DOMAIN new, NEW l \in DOMAIN new, k # l
      PROVE  new[k].polls \cap new[l].polls = {}
  <2>1. CASE k \in DOMAIN t /\ l \in DOMAIN t
    <3>1. t[k].polls \cap t[l].polls = {}
      BY <1>9, <2>1 DEF IsTable
    <3> QED BY <1>1, <2>1, <3>1
  <2>2. CASE k \in DOMAIN t /\ l = m
    BY <1>1, <1>8, <2>2
  <2>3. CASE l \in DOMAIN t /\ k = m
    BY <1>1, <1>8, <2>3
  <2> QED BY <1>2, <1>9, <2>1, <2>2, <2>3
<1>10. IsTable(new, n, j + 1)
  BY <1>1, <1>6, <1>7, <1>9 DEF IsTable
<1> QED BY <1>10 DEF new

\* w has the elements of t in another order.
IsRearranged(w, t, n, order) ==
  /\ n \in Nat /\ DOMAIN t = 1 .. n /\ order \in [1 .. n -> 1 .. n]
  /\ w = [i \in 1 .. n |-> t[order[i]]]
  /\ \A i, j \in 1 .. n : order[i] = order[j] => i = j
  /\ \A k \in 1 .. n : \E i \in 1 .. n : order[i] = k

\* The rows are sorted.
InOrder(w) == \A i, j \in DOMAIN w : i < j => ~Before(w[j], w[i])

\* Before is a strict weak order of incidents.
LEMMA BeforeIsOrder ==
  ASSUME NEW a, NEW b, NEW c, a.start \in Int, b.start \in Int, c.start \in Int,
         a.endpoint \in Int, b.endpoint \in Int, c.endpoint \in Int
  PROVE  /\ ~Before(a, a)
         /\ Before(a, b) /\ Before(b, c) => Before(a, c)
         /\ ~Before(a, b) /\ ~Before(b, c) => ~Before(a, c)
BY DEF Before

\* The table sorted is the table rearranged, in order.
LEMMA RowsSorted ==
  ASSUME NEW t, NEW n \in Nat, DOMAIN t = 1 .. n,
         \A k \in 1 .. n : t[k].start \in Int /\ t[k].endpoint \in Int
  PROVE  /\ \E order : IsRearranged(StableSort(t, Before), t, n, order)
         /\ InOrder(StableSort(t, Before))
<1> DEFINE less == [i \in DOMAIN t |-> {k \in DOMAIN t : Before(t[k], t[i])}]
           order == StableOrder(less)
           w == StableSort(t, Before)
<1>1. w = [i \in 1 .. n |-> t[order[i]]]
  BY DEF StableSort
<1> HIDE DEF w
<1>2. /\ less \in [1 .. n -> SUBSET (1 .. n)]
      /\ \A x, y \in 1 .. n : x \in less[y] <=> Before(t[x], t[y])
  OBVIOUS
<1> HIDE DEF less
<1>3. IsFiniteSet(1 .. n) /\ Cardinality(1 .. n) = n /\ 1 .. n \in SUBSET Int
  BY FS_Interval
<1>4. /\ IsArrangement(order, 1 .. n, Stable(less))
      /\ \A i, j \in 1 .. n : i < j => order[j] \notin less[order[i]]
  <2>1. \A x \in 1 .. n : x \notin less[x]
    BY <1>2, BeforeIsOrder
  <2>2. \A x, y, z \in 1 .. n : x \in less[y] /\ y \in less[z] => x \in less[z]
    BY <1>2, BeforeIsOrder
  <2>3. \A x, y, z \in 1 .. n : x \notin less[y] /\ y \notin less[z] => x \notin less[z]
    BY <1>2, BeforeIsOrder
  <2> QED BY <1>2, <1>3, <2>1, <2>2, <2>3, StableOrderIsOrder
<1> HIDE DEF order
<1>5. /\ order \in [1 .. n -> 1 .. n]
      /\ \A i, j \in 1 .. n : order[i] = order[j] => i = j
      /\ \A k \in 1 .. n : \E i \in 1 .. n : order[i] = k
  BY <1>3, <1>4 DEF IsArrangement
<1>6. IsRearranged(w, t, n, order)
  BY <1>1, <1>5 DEF IsRearranged
<1>7. InOrder(w)
  <2>1. DOMAIN w = 1 .. n
    BY <1>1
  <2>2. ASSUME NEW i \in 1 .. n, NEW j \in 1 .. n, i < j PROVE ~Before(w[j], w[i])
    <3>1. order[i] \in 1 .. n /\ order[j] \in 1 .. n /\ order[j] \notin less[order[i]]
      BY <1>4, <1>5, <2>2
    <3>2. ~Before(t[order[j]], t[order[i]])
      BY <1>2, <3>1
    <3> QED BY <1>1, <3>2
  <2> QED BY <2>1, <2>2 DEF InOrder
<1> QED BY <1>6, <1>7 DEF w

\* Rearranged, a table is the table of the same runs.
LEMMA TableRearranged ==
  ASSUME NEW t, NEW n, NEW j, IsTable(t, n, j), NEW w, NEW m, NEW order, IsRearranged(w, t, m,
         order)
  PROVE  IsTable(w, n, j)
<1>1. /\ m \in Nat /\ DOMAIN w = 1 .. m /\ DOMAIN t = 1 .. m
      /\ \A i \in 1 .. m : order[i] \in 1 .. m /\ w[i] = t[order[i]]
      /\ \A i, k \in 1 .. m : order[i] = order[k] => i = k
      /\ \A k \in 1 .. m : \E i \in 1 .. m : order[i] = k
  BY DEF IsRearranged
<1>2. w \in Seq(ToSet(w))
  <2>1. w = [i \in 1 .. m |-> w[i]]
    BY DEF IsRearranged
  <2> DEFINE W == ToSet(w)
  <2>2. \A i \in 1 .. m : w[i] \in W
    BY <1>1 DEF ToSet
  <2> HIDE DEF W
  <2>3. w \in [1 .. m -> W]
    BY <2>1, <2>2
  <2>4. w \in Seq(W)
    BY ONLY <1>1, <2>3
  <2> QED BY <2>4 DEF W
<1>3. ASSUME NEW k \in DOMAIN w
      PROVE  IsIncident(w[k]) /\ \E r : Closed(w[k].endpoint, r, n, j) /\ Tells(w[k], Series(w[k].endpoint), r)
  <2>1. order[k] \in DOMAIN t /\ w[k] = t[order[k]]
    BY <1>1
  <2> QED BY <2>1 DEF IsTable
<1>4. ASSUME NEW e \in Endpoint, NEW r, Closed(e, r, n, j)
      PROVE  \E k \in DOMAIN w : Tells(w[k], Series(e), r)
  <2>1. PICK k \in DOMAIN t : Tells(t[k], Series(e), r)
    BY <1>4 DEF IsTable
  <2>2. PICK i \in 1 .. m : order[i] = k
    BY <1>1
  <2>3. i \in DOMAIN w /\ w[i] = t[k]
    BY <1>1, <2>2
  <2> QED BY <2>1, <2>3
<1>5. ASSUME NEW k \in DOMAIN w, NEW l \in DOMAIN w, k # l PROVE w[k].polls \cap w[l].polls = {}
  <2>1. /\ order[k] \in DOMAIN t /\ order[l] \in DOMAIN t /\ order[k] # order[l]
        /\ w[k] = t[order[k]] /\ w[l] = t[order[l]]
    BY <1>1, <1>5
  <2>2. t[order[k]].polls \cap t[order[l]].polls = {}
    BY <2>1 DEF IsTable
  <2> QED BY <2>1, <2>2
<1> QED BY <1>2, <1>3, <1>4, <1>5 DEF IsTable

\* Closing the open incident.
LEMMA TableFlushed ==
  ASSUME points \in Seq(Point), AreRules(rules), NEW n \in Endpoint, NEW j \in Nat,
         IsTable(out, n, j),
         NEW inc, IsOpen(inc, Series(n), j), j < Len(Series(n)) => inc.kind # KindAt(Series(n), j + 1)
  PROVE  IsTable(Flushed(inc), n, j + 1)
<1> DEFINE least == Max({1, rules.samples})
           s == Series(n)
<1>1. rules.samples \in Int /\ 1 \in Int /\ n \in Int
  BY AuditConstants DEF AreRules
<1>2. least \in {1, rules.samples} /\ 1 <= least /\ rules.samples <= least
  <2> DEFINE a == 1
             b == rules.samples
  <2>1. a \in Int /\ b \in Int
    BY <1>1
  <2> HIDE DEF a, b
  <2>2. Max({a, b}) \in {a, b} /\ a <= Max({a, b}) /\ b <= Max({a, b})
    BY ONLY <2>1, MaxOfTwo
  <2> QED BY <2>2 DEF a, b
<1>3. Flushed(inc) = IF inc # None /\ inc.samples >= least THEN Append(out, inc) ELSE out
  BY DEF Flushed
<1> HIDE DEF least
<1>4. ASSUME inc # None PROVE IsIncident(inc) /\ inc.samples \in Nat /\ inc.samples >= 1
  <2>1. PICK i \in 1 .. j : inc.samples = j - i + 1
    BY <1>4 DEF IsOpen
  <2> QED BY <1>4, <2>1 DEF IsOpen, IsIncident
<1>5. CASE inc # None /\ inc.samples >= least
  <2>1. IsIncident(inc) /\ inc.samples >= rules.samples
    BY <1>1, <1>2, <1>4, <1>5
  <2>2. PICK r \in Runs(s) : r[2] = j /\ Tells(inc, s, r)
    BY <1>5, <2>1, RunOfOpen
  <2>3. \A q \in Runs(s) : q[2] = j => Tells(inc, s, q)
    BY RunAtEnd
  <2>4. IsTable(Append(out, inc), n, j + 1)
    BY <2>1, <2>2, <2>3, TableGrows
  <2> QED BY <1>3, <1>5, <2>4
<1>6. CASE ~(inc # None /\ inc.samples >= least)
  <2>1. inc = None \/ inc.samples < rules.samples
    BY <1>1, <1>2, <1>4, <1>6
  <2>2. \A r \in Runs(s) : r[2] # j
    BY <2>1, NoRunEnds
  <2>3. IsTable(out, n, j + 1)
    BY <1>1, <2>2, TableKept
  <2> QED BY <1>3, <1>6, <2>3
<1> QED BY <1>5, <1>6

\* After the last sample of a series all its runs are closed.
LEMMA TableNextSeries ==
  ASSUME points \in Seq(Point), NEW n \in Endpoint, NEW j \in Nat, NEW t, IsTable(t, n, j),
         j > Len(Series(n))
  PROVE  IsTable(t, n + 1, 0)
<1>1. n \in Int /\ \A e \in Endpoint : e \in Int
  BY AuditConstants
<1>2. ASSUME NEW e \in Int, NEW r PROVE Closed(e, r, n + 1, 0) <=> Closed(e, r, n, j)
  <2>1. ASSUME r \in Runs(Series(e)) PROVE Len(Series(e)) \in Nat /\ r[2] \in 1 .. Len(Series(e))
    BY <2>1, RunFields
  <2>2. CASE r \in Runs(Series(e))
    BY <1>1, <2>1, <2>2 DEF Closed
  <2>3. CASE r \notin Runs(Series(e))
    BY <2>3 DEF Closed
  <2> QED BY <2>2, <2>3
<1>3. \A e \in Int : \A r : Closed(e, r, n + 1, 0) <=> Closed(e, r, n, j)
  BY <1>2
<1>4. \A k \in DOMAIN t : t[k].endpoint \in Int
  BY <1>1 DEF IsTable, IsIncident
<1> QED BY <1>1, <1>3, <1>4 DEF IsTable

-----------------------------------------------------------------------------
(* The second pass of the audit: every series is scanned.                  *)

\* How far the scan is: j samples of s, the series of endpoint n.  The values
\* are named so that a step can be said to keep what holds of them.
ScannedAs(t, inc, s, n, j) ==
  /\ IsTable(t, n, j) /\ IsOpen(inc, s, j)
  /\ n = N + 1 => InOrder(t)

\* The table and the open incident at every step of the scan.
Scanned ==
  \E t, inc, s, n, j :
    t = out /\ inc = cur /\ s = series /\ n = name /\ j = pos - 1 /\ ScannedAs(t, inc, s, n, j)

\* It stays as long as the scan does not move.
LEMMA ScannedStays ==
  ASSUME points' = points, rules' = rules, NEW t, NEW inc, NEW s, NEW n, NEW j,
         ScannedAs(t, inc, s, n, j)
  PROVE  ScannedAs(t, inc, s, n, j)'
<1>1. IsTable(t, n, j)' <=> IsTable(t, n, j)
  BY DEF IsTable, Closed, Tells, Runs, KindAt, Kind, Breached, Series, Of, IsIncident
<1>2. IsOpen(inc, s, j)' <=> IsOpen(inc, s, j)
  BY DEF IsOpen, IsOpenRun, Tells, KindAt, Kind, Breached, IsIncident
<1>3. (n = N + 1 => InOrder(t))'
  BY DEF ScannedAs, InOrder, Before
<1> QED BY <1>1, <1>2, <1>3 DEF ScannedAs

\* The scan starts with no row and no open incident.
LEMMA ScannedInit ==
  ASSUME Passes, name = 1, pos = 1, cur = None, out = <<>>
  PROVE  Scanned
<1>1. points \in Seq(Point) /\ N \in Nat /\ N # 0
  BY AuditConstants DEF Passes
<1>2. IsTable(<<>>, 1, 0)
  <2>1. <<>> \in Seq(ToSet(<<>>)) /\ DOMAIN <<>> = {}
    OBVIOUS
  <2>2. ASSUME NEW e \in Endpoint, NEW r PROVE ~Closed(e, r, 1, 0)
    <3>1. e \in Int /\ e >= 1
      BY AuditConstants
    <3> SUFFICES ASSUME r \in Runs(Series(e)), r[2] < 0 PROVE FALSE
      BY <3>1 DEF Closed
    <3>2. r[2] \in Nat
      BY <1>1, RunFields
    <3> QED BY <3>2
  <2> QED BY <2>1, <2>2 DEF IsTable
<1>3. IsOpen(None, series, 0)
  BY DEF IsOpen
<1>4. 1 # N + 1 /\ pos - 1 = 0
  BY <1>1
<1>5. ScannedAs(<<>>, None, series, 1, 0)
  BY <1>2, <1>3, <1>4 DEF ScannedAs
<1> QED BY <1>4, <1>5 DEF Scanned

\* Scan and EndSeries keep it.
LEMMA ScannedStep ==
  ASSUME Passes, Scanned, [AuditNext]_auditVars
  PROVE  Scanned'
<1>1. points \in Seq(Point) /\ N \in Nat /\ AreRules(rules)
  BY AuditConstants DEF Passes
<1>2. points' = points /\ rules' = rules
  BY DEF AuditNext, AddSample, DetectIncidents, Analyse, IncidentsNext, Scan, EndSeries,
      auditVars,
         incidentVars
<1> PICK t, inc, s, n, j : /\ t = out /\ inc = cur /\ s = series /\ n = name /\ j = pos - 1
                           /\ ScannedAs(t, inc, s, n, j)
  BY DEF Scanned
<1>3. s = Series(n) /\ IsSeries(s, n) /\ Len(s) \in Nat /\ DOMAIN s = 1 .. Len(s)
      /\ j \in 0 .. Len(s) /\ pos = j + 1
  <2>1. s = Series(n) /\ pos \in 1 .. Len(s) + 1
    BY DEF Passes
  <2>2. IsSeries(s, n)
    BY <1>1, <2>1, SeriesIsSeries
  <2>3. Len(s) \in Nat /\ DOMAIN s = 1 .. Len(s)
    BY <2>2 DEF IsSeries
  <2> QED BY <2>1, <2>2, <2>3
<1>4. IsTable(t, n, j) /\ IsOpen(inc, s, j) /\ j \in Nat
  BY <1>3 DEF ScannedAs
<1>5. SUFFICES ASSUME NEW t2, NEW inc2, NEW s2, NEW n2, NEW j2,
                      t2 = out', inc2 = cur', s2 = series', n2 = name', j2 = pos' - 1
               PROVE  ScannedAs(t2, inc2, s2, n2, j2)
  <2>1. PICK t2, inc2, s2, n2, j2 : t2 = out' /\ inc2 = cur' /\ s2 = series' /\ n2 = name' /\ j2 = pos' - 1
    OBVIOUS
  <2>2. ScannedAs(t2, inc2, s2, n2, j2)
    BY <1>5, <2>1
  <2>3. ScannedAs(t2, inc2, s2, n2, j2)'
    BY <1>2, <2>2, ScannedStays
  <2> QED BY <2>1, <2>3 DEF Scanned
<1>6. CASE DetectIncidents /\ Scan
  <2> DEFINE p == points[series[pos]]
             goesOn == cur.kind = Kind(p)
  <2>1. /\ n \in Endpoint /\ pos \in DOMAIN s /\ s2 = s /\ n2 = n /\ pos' = pos + 1
        /\ out' = IF goesOn THEN out ELSE Flushed(cur)
        /\ cur' = IF Kind(p) = "none" THEN None
                  ELSE Prolonged(IF goesOn THEN cur ELSE Opened(p), series[pos])
    BY <1>5, <1>6 DEF Scan
  <2>2. j2 = j + 1 /\ j + 1 \in 1 .. Len(s) /\ j < Len(s) /\ j + 1 <= Len(s)
    BY <1>3, <1>5, <2>1
  <2>3. p = points[s[j + 1]] /\ Kind(p) = KindAt(s, j + 1)
    BY <1>3 DEF KindAt
  <2>4. n \in Int /\ n # N + 1
    BY <1>1, <2>1, AuditConstants
  <2>5. IsTable(t2, n, j + 1)
    <3>1. CASE goesOn
      <4>1. t2 = t /\ inc.kind = KindAt(s, j + 1)
        BY <1>5, <2>1, <2>3, <3>1
      <4>2. \A r \in Runs(Series(n)) : r[2] # j
        BY <1>1, <1>3, <1>4, <2>2, <4>1, NoRunEnds
      <4> QED BY <1>1, <1>4, <2>4, <4>1, <4>2, TableKept
    <3>2. CASE ~goesOn
      <4>1. t2 = Flushed(inc) /\ inc.kind # KindAt(s, j + 1)
        BY <1>5, <2>1, <2>3, <3>2
      <4>2. IsTable(Flushed(inc), n, j + 1)
        BY <1>1, <1>3, <1>4, <2>1, <4>1, TableFlushed
      <4> QED BY <4>1, <4>2
    <3> QED BY <3>1, <3>2
  <2>6. IsOpen(inc2, s, j + 1)
    <3>1. CASE Kind(p) = "none"
      <4>1. inc2 = None
        BY <1>5, <2>1, <3>1
      <4> QED BY <2>3, <3>1, <4>1 DEF IsOpen
    <3>2. CASE Kind(p) # "none" /\ goesOn
      <4>1. inc2 = Prolonged(inc, s[j + 1]) /\ inc.kind = KindAt(s, j + 1) /\ inc.kind # "none"
        BY <1>3, <1>5, <2>1, <2>3, <3>2
      <4>2. inc # None
        BY <4>1 DEF None
      <4> QED BY <1>1, <1>3, <1>4, <2>2, <4>1, <4>2, OpenGoesOn
    <3>3. CASE Kind(p) # "none" /\ ~goesOn
      <4>1. /\ inc2 = Prolonged(Opened(points[s[j + 1]]), s[j + 1])
            /\ KindAt(s, j + 1) # "none" /\ inc.kind # KindAt(s, j + 1)
        BY <1>3, <1>5, <2>1, <2>3, <3>3
      <4> QED BY <1>1, <1>3, <1>4, <2>2, <4>1, OpenBegins
    <3> QED BY <3>1, <3>2, <3>3
  <2> QED BY <2>1, <2>2, <2>4, <2>5, <2>6 DEF ScannedAs
<1>7. CASE DetectIncidents /\ EndSeries
  <2>1. /\ n \in Endpoint /\ pos > Len(s) /\ cur' = None /\ name' = n + 1 /\ pos' = 1
        /\ out' = IF n < N THEN Flushed(inc) ELSE StableSort(Flushed(inc), Before)
    BY <1>7 DEF EndSeries
  <2>2. j2 = 0 /\ n2 = n + 1 /\ inc2 = None /\ j = Len(s) /\ n \in Int
    BY <1>3, <1>5, <2>1, AuditConstants
  <2>3. IsTable(Flushed(inc), n, j + 1)
    BY <1>1, <1>3, <1>4, <2>1, <2>2, TableFlushed
  <2>4. IsTable(Flushed(inc), n + 1, 0)
    <3>1. j + 1 > Len(Series(n)) /\ j + 1 \in Nat
      BY <1>3, <2>2
    <3> QED BY <1>1, <2>1, <2>3, <3>1, TableNextSeries
  <2> DEFINE flushed == Flushed(inc)
  <2>5. IsOpen(inc2, s2, j2)
    BY <2>2 DEF IsOpen
  <2>6. CASE n < N
    <3>1. t2 = flushed /\ n2 # N + 1
      BY <1>1, <1>5, <2>1, <2>2, <2>6
    <3> QED BY <2>2, <2>4, <2>5, <3>1 DEF ScannedAs
  <2>7. CASE ~(n < N)
    <3>1. t2 = StableSort(flushed, Before)
      BY <1>5, <2>1, <2>7
    <3>2. /\ flushed \in Seq(ToSet(flushed))
          /\ \A k \in DOMAIN flushed : IsIncident(flushed[k])
      BY <2>4 DEF IsTable
    <3> HIDE DEF flushed
    <3>3. PICK m \in Nat : DOMAIN flushed = 1 .. m
      BY <3>2
    <3>4. \A k \in 1 .. m : flushed[k].start \in Int /\ flushed[k].endpoint \in Int
      <4>1. \A e \in Endpoint : e \in Int
        BY AuditConstants
      <4>2. ASSUME NEW k \in 1 .. m
            PROVE  flushed[k].start \in Nat /\ flushed[k].endpoint \in Endpoint
        BY <3>2, <3>3 DEF IsIncident
      <4> QED BY <4>1, <4>2
    <3>5. PICK order : IsRearranged(t2, flushed, m, order)
      BY <3>1, <3>3, <3>4, RowsSorted
    <3>6. InOrder(t2)
      BY <3>1, <3>3, <3>4, RowsSorted
    <3>7. IsTable(t2, n + 1, 0)
      BY <2>4, <3>5, TableRearranged DEF flushed
    <3> QED BY <2>2, <2>5, <3>6, <3>7 DEF ScannedAs
  <2> QED BY <2>6, <2>7
<1>8. CASE AddSample \/ Analyse \/ UNCHANGED auditVars
  <2>1. UNCHANGED incidentVars
    BY <1>8 DEF AddSample, Analyse, auditVars
  <2>2. t2 = t /\ inc2 = inc /\ s2 = s /\ n2 = n /\ j2 = j
    BY <1>5, <2>1 DEF incidentVars
  <2> QED BY <2>2
<1> QED BY <1>6, <1>7, <1>8 DEF AuditNext, DetectIncidents, IncidentsNext

\* The table after the last series: the runs of every endpoint, sorted.
LEMMA DoneTable ==
  ASSUME Passes, Scanned, Done
  PROVE  /\ out \in Seq(ToSet(out)) /\ InOrder(out)
         /\ \A k \in DOMAIN out : IsIncident(out[k]) /\
              \E r \in Runs(Series(out[k].endpoint)) : Tells(out[k], Series(out[k].endpoint), r)
         /\ \A e \in Endpoint : \A r \in Runs(Series(e)) :
              \E k \in DOMAIN out : Tells(out[k], Series(e), r)
         /\ \A k, l \in DOMAIN out : k # l => out[k].polls \cap out[l].polls = {}
<1> PICK t, inc, s, n, j : /\ t = out /\ inc = cur /\ s = series /\ n = name /\ j = pos - 1
                           /\ ScannedAs(t, inc, s, n, j)
  BY DEF Scanned
<1>1. n = N + 1 /\ N \in Int /\ \A e \in Endpoint : e \in Int /\ e < n
  BY AuditConstants DEF Done
<1>2. IsTable(out, n, j) /\ InOrder(out)
  BY <1>1 DEF ScannedAs
<1>3. \A e \in Endpoint : \A r \in Runs(Series(e)) : Closed(e, r, n, j)
  BY <1>1 DEF Closed
<1>4. \A k \in DOMAIN out : IsIncident(out[k]) /\
        \E r \in Runs(Series(out[k].endpoint)) : Tells(out[k], Series(out[k].endpoint), r)
  BY <1>2 DEF IsTable, Closed
<1> QED BY <1>2, <1>3, <1>4 DEF IsTable

\* The inductive invariant of the second pass.
ScanInv == Passes /\ Scanned

\* It holds of the first state.
LEMMA ScanInvInit == AuditInit => ScanInv
<1> SUFFICES ASSUME AuditInit PROVE Passes /\ Scanned
  BY DEF ScanInv
<1>1. PICK flags \in Flags : IncidentsInit(WithDefaults(flags))
  BY DEF AuditInit
<1>2. name = 1 /\ pos = 1 /\ cur = None /\ out = <<>>
  BY <1>1 DEF IncidentsInit
<1> QED BY <1>2, PassesInit, ScannedInit

\* Every step of the audit keeps it.
LEMMA ScanInvStep == ScanInv /\ [AuditNext]_auditVars => ScanInv'
BY PassesStep, ScannedStep DEF ScanInv

(***************************************************************************)
(* The incident table (DetectLagIncidents and scanSeries, incident.go) is  *)
(* the maximal runs of every endpoint's series, each told once and in      *)
(* full, for any evidence, in any order, under any rules.                  *)
(***************************************************************************)
THEOREM RowsAreTheRuns == AuditSpec => []RowsAreRuns
<1>1. ScanInv => RowsAreRuns
  <2> SUFFICES ASSUME ScanInv, Done PROVE RowsAreRuns
    BY DEF RowsAreRuns
  <2>1. Passes /\ Scanned
    BY DEF ScanInv
  <2>2. ASSUME NEW k \in DOMAIN out, NEW l \in DOMAIN out, k < l
        PROVE  out[k].polls \cap out[l].polls = {} /\ ~Before(out[l], out[k])
    <3>1. k # l
      <4>1. DOMAIN out \subseteq Int
        <5>1. out \in Seq(ToSet(out))
          BY <2>1, DoneTable
        <5> QED BY <5>1
      <4> QED BY <2>2, <4>1
    <3> QED BY <2>1, <2>2, <3>1, DoneTable DEF InOrder
  <2> QED BY <2>1, <2>2, DoneTable DEF RowsAreRuns
<1> QED BY <1>1, ScanInvInit, ScanInvStep, PTL DEF AuditSpec

-----------------------------------------------------------------------------

\* The divergence events.
LEMMA DivergencesTyped ==
  ASSUME divergences \in Divergences
  PROVE  /\ Len(divergences) \in Nat /\ DOMAIN divergences = 1 .. Len(divergences)
         /\ \A i \in DOMAIN divergences :
              divergences[i].at \in Nat /\ divergences[i].minority \in Seq(Endpoint)
<1> DEFINE event == [at : Nat, minority : Seq(Endpoint)]
<1>1. divergences \in Seq(event)
  BY AuditAssumption
<1>2. \A x \in event : x.at \in Nat /\ x.minority \in Seq(Endpoint)
  OBVIOUS
<1> HIDE DEF event
<1>3. /\ Len(divergences) \in Nat /\ DOMAIN divergences = 1 .. Len(divergences)
      /\ \A i \in DOMAIN divergences : divergences[i] \in event
  BY <1>1
<1> QED BY <1>2, <1>3

\* Finitely many endpoints are blamed.
LEMMA BlamedIsFinite ==
  ASSUME divergences \in Divergences
  PROVE  /\ IsFiniteSet(Blamed) /\ Blamed \in SUBSET (Nat \X Nat)
         /\ \A b \in Blamed : b[1] \in DOMAIN divergences /\ b[2] \in DOMAIN divergences[b[1]].minority
<1> DEFINE of(i) == {<<i, j>> : j \in DOMAIN divergences[i].minority}
           parts == {of(i) : i \in DOMAIN divergences}
<1>2. Len(divergences) \in Nat /\ DOMAIN divergences = 1 .. Len(divergences)
  BY DivergencesTyped
<1>3. ASSUME NEW i \in DOMAIN divergences
      PROVE  /\ divergences[i].minority \in Seq(Endpoint)
             /\ DOMAIN divergences[i].minority \in SUBSET Nat
             /\ IsFiniteSet(of(i)) /\ i \in Nat
  <2>2. divergences[i].minority \in Seq(Endpoint) /\ i \in Nat
    BY <1>2, DivergencesTyped
  <2> DEFINE J == DOMAIN divergences[i].minority
             f == [j \in J |-> <<i, j>>]
             n == Len(divergences[i].minority)
  <2>3. n \in Nat /\ J = 1 .. n
    BY <2>2
  <2>4. IsFiniteSet(J)
    BY <2>3, FS_Interval
  <2>5. f \in Surjection(J, of(i))
    BY DEF Surjection
  <2>6. IsFiniteSet(of(i))
    BY <2>4, <2>5, FS_Surjection
  <2> QED BY <2>2, <2>3, <2>6
<1>4. IsFiniteSet(parts)
  <2> DEFINE f == [i \in DOMAIN divergences |-> of(i)]
  <2>1. f \in Surjection(DOMAIN divergences, parts)
    BY DEF Surjection
  <2>2. IsFiniteSet(DOMAIN divergences)
    BY <1>2, FS_Interval
  <2> QED BY <2>1, <2>2, FS_Surjection
<1>5. \A T \in parts : IsFiniteSet(T)
  BY <1>3
<1>6. Blamed = UNION parts
  BY DEF Blamed
<1>7. ASSUME NEW b \in Blamed
      PROVE  /\ b[1] \in DOMAIN divergences /\ b[2] \in DOMAIN divergences[b[1]].minority
             /\ b \in Nat \X Nat
  <2>1. PICK i \in DOMAIN divergences : b \in of(i)
    BY <1>6
  <2>2. PICK j \in DOMAIN divergences[i].minority : b = <<i, j>>
    BY <2>1
  <2>3. b[1] = i /\ b[2] = j
    BY <2>2
  <2> QED BY <1>3, <2>2, <2>3
<1> HIDE DEF parts
<1>8. IsFiniteSet(Blamed)
  BY <1>4, <1>5, <1>6, FS_UNION
<1> QED BY <1>7, <1>8

\* The row of a blamed endpoint.
IsDivergence(row) ==
  /\ row.kind = "divergence" /\ row.polls = {} /\ row.start \in Nat /\ row.endpoint \in Endpoint
  /\ \E i \in DOMAIN divergences : divergences[i].at = row.start

\* All rows made of events are such rows.
LEMMA DivergenceRowsTyped ==
  ASSUME divergences \in Divergences
  PROVE  /\ DivergenceRows \in Seq(ToSet(DivergenceRows))
         /\ \A k \in DOMAIN DivergenceRows : IsDivergence(DivergenceRows[k])
         /\ DOMAIN divergences = {} => DOMAIN DivergenceRows = {}
<1> DEFINE before == [b \in Blamed |-> {a \in Blamed :
                        a[1] < b[1] \/ (a[1] = b[1] /\ a[2] < b[2])}]
           order == Arranged(before)
           n == Cardinality(Blamed)
           D == DivergenceRows
<1>1. D = [k \in DOMAIN order |-> DivergenceRow(order[k])]
  BY DEF DivergenceRows
<1>2. /\ IsFiniteSet(Blamed) /\ Blamed \in SUBSET (Nat \X Nat)
      /\ \A b \in Blamed : b[1] \in DOMAIN divergences /\ b[2] \in DOMAIN divergences[b[1]].minority
  BY BlamedIsFinite
<1>3. /\ before \in [Blamed -> SUBSET Blamed]
      /\ \A a, b \in Blamed : a \in before[b] <=> (a[1] < b[1] \/ (a[1] = b[1] /\ a[2] < b[2]))
  OBVIOUS
<1>4. \A b \in Blamed : b[1] \in Nat /\ b[2] \in Nat /\ b = <<b[1], b[2]>>
  BY <1>2
<1> HIDE DEF before, D
<1>5. \A a \in Blamed : a \notin before[a]
  BY <1>3, <1>4
<1>6. ASSUME NEW a \in Blamed, NEW b \in Blamed, a # b PROVE a \in before[b] \/ b \in before[a]
  <2>1. a[1] # b[1] \/ a[2] # b[2]
    BY <1>4, <1>6
  <2>2. a[1] \in Nat /\ a[2] \in Nat /\ b[1] \in Nat /\ b[2] \in Nat
    BY <1>4
  <2> QED BY <1>3, <2>1, <2>2
<1>7. ASSUME NEW a \in Blamed, NEW b \in Blamed, a \in before[b]
      PROVE  before[a] \subseteq before[b]
  <2> SUFFICES ASSUME NEW c \in before[a] PROVE c \in before[b]
    OBVIOUS
  <2>1. c \in Blamed
    BY <1>3
  <2>2. /\ a[1] \in Nat /\ a[2] \in Nat /\ b[1] \in Nat /\ b[2] \in Nat /\ c[1] \in Nat
           /\ c[2] \in Nat
    BY <1>4, <2>1
  <2>3. c[1] < a[1] \/ (c[1] = a[1] /\ c[2] < a[2])
    BY <1>3, <2>1
  <2>4. a[1] < b[1] \/ (a[1] = b[1] /\ a[2] < b[2])
    BY <1>3, <1>7
  <2>5. c[1] < b[1] \/ (c[1] = b[1] /\ c[2] < b[2])
    BY <2>2, <2>3, <2>4
  <2> QED BY <1>3, <2>1, <2>5
<1>8. IsArrangement(order, Blamed, before)
  BY <1>2, <1>3, <1>5, <1>6, <1>7, ArrangedIsOrder
<1> HIDE DEF order, n
<1>9. n \in Nat /\ DOMAIN order = 1 .. n /\ \A k \in 1 .. n : order[k] \in Blamed
  BY <1>8 DEF IsArrangement, n
<1>10. DOMAIN D = 1 .. n /\ \A k \in 1 .. n : D[k] = DivergenceRow(order[k])
  BY <1>1, <1>9
<1>11. D \in Seq(ToSet(D))
  <2> DEFINE T == ToSet(D)
  <2>1. \A k \in 1 .. n : D[k] \in T
    BY <1>10 DEF ToSet
  <2>2. D = [k \in 1 .. n |-> D[k]]
    BY <1>1, <1>9
  <2> HIDE DEF T
  <2>3. D \in [1 .. n -> T] /\ n \in Nat
    BY <1>9, <2>1, <2>2
  <2>4. D \in Seq(T)
    BY ONLY <2>3
  <2> QED BY <2>4 DEF T
<1>12. ASSUME NEW k \in DOMAIN D PROVE IsDivergence(D[k])
  <2> PICK b \in Blamed : D[k] = DivergenceRow(b)
    BY <1>9, <1>10
  <2>1. b[1] \in DOMAIN divergences /\ b[2] \in DOMAIN divergences[b[1]].minority
    BY <1>2
  <2>3. divergences[b[1]].at \in Nat /\ divergences[b[1]].minority \in Seq(Endpoint)
    BY <2>1, DivergencesTyped
  <2>4. divergences[b[1]].minority[b[2]] \in Endpoint
    BY <2>1, <2>3
  <2> QED BY <2>1, <2>3, <2>4 DEF DivergenceRow, IsDivergence
<1>13. ASSUME DOMAIN divergences = {} PROVE DOMAIN D = {}
  BY <1>2, <1>9, <1>10, <1>13
<1> QED BY <1>11, <1>12, <1>13 DEF D

-----------------------------------------------------------------------------
(* The incidents of the report, merged with the divergences.               *)

\* A row that tells of a run.
IsRow(inc) ==
  IsIncident(inc) /\ \E r \in Runs(Series(inc.endpoint)) : Tells(inc, Series(inc.endpoint), r)

\* t has the rows of out and, besides, only divergences.
HasRows(t) ==
  /\ \E m \in Nat : DOMAIN t = 1 .. m
  /\ \A k \in DOMAIN t : IsRow(t[k]) \/ (IsDivergence(t[k]) /\ DOMAIN divergences # {})
  /\ \A l \in DOMAIN out : \E k \in DOMAIN t : t[k] = out[l]
  /\ \A k, l \in DOMAIN t : k # l => t[k].polls \cap t[l].polls = {}

\* Appending the divergences loses no incident.
LEMMA JoinedHasRows ==
  ASSUME Passes, Scanned, Done
  PROVE  HasRows(out \o DivergenceRows)
<1> DEFINE D == DivergenceRows
           U == ToSet(out) \cup ToSet(D)
           t == out \o D
           m == Len(out)
           n == Len(D)
<1>1. /\ D \in Seq(ToSet(D)) /\ \A k \in DOMAIN D : IsDivergence(D[k])
      /\ DOMAIN divergences = {} => DOMAIN D = {}
  BY DivergenceRowsTyped DEF Passes
<1>2. /\ out \in Seq(ToSet(out))
      /\ \A k \in DOMAIN out : IsRow(out[k])
      /\ \A k, l \in DOMAIN out : k # l => out[k].polls \cap out[l].polls = {}
  BY DoneTable DEF IsRow
<1> HIDE DEF D
<1>3. out \in Seq(U) /\ D \in Seq(U)
  <2> DEFINE A == ToSet(out)
             B == ToSet(D)
  <2>1. A \subseteq U /\ B \subseteq U /\ out \in Seq(A) /\ D \in Seq(B)
    BY <1>1, <1>2
  <2> HIDE DEF A, B, U
  <2> QED BY <2>1
<1> HIDE DEF U
<1>4. /\ m \in Nat /\ n \in Nat /\ DOMAIN out = 1 .. m /\ DOMAIN D = 1 .. n
      /\ t \in Seq(U) /\ Len(t) = m + n
      /\ \A k \in 1 .. m + n : t[k] = IF k <= m THEN out[k] ELSE D[k - m]
  <2>1. m \in Nat /\ n \in Nat /\ DOMAIN out = 1 .. m /\ DOMAIN D = 1 .. n
    BY <1>3
  <2> QED BY <1>3, <2>1, ConcatProperties
<1>5. DOMAIN t = 1 .. m + n /\ m + n \in Nat
  BY <1>4
<1> HIDE DEF t, m, n
<1>6. \A k \in 1 .. m : k \in DOMAIN t /\ t[k] = out[k] /\ k \in DOMAIN out
  BY <1>4, <1>5
<1>7. \A k \in DOMAIN t : \/ k \in 1 .. m /\ t[k] = out[k]
                          \/ k \notin 1 .. m /\ \E l \in DOMAIN D : t[k] = D[l]
  <2> SUFFICES ASSUME NEW k \in DOMAIN t, k \notin 1 .. m PROVE \E l \in DOMAIN D : t[k] = D[l]
    BY <1>6
  <2>1. k \in 1 .. m + n /\ ~(k <= m) /\ k - m \in DOMAIN D
    BY <1>4, <1>5
  <2> QED BY <1>4, <2>1
<1>8. \A k \in DOMAIN t : IsRow(t[k]) \/ (IsDivergence(t[k]) /\ DOMAIN divergences # {})
  BY <1>1, <1>2, <1>6, <1>7
<1>9. \A l \in DOMAIN out : \E k \in DOMAIN t : t[k] = out[l]
  BY <1>4, <1>6
<1>10. ASSUME NEW k \in DOMAIN t, NEW l \in DOMAIN t, k # l PROVE t[k].polls \cap t[l].polls = {}
  <2>1. CASE k \in 1 .. m /\ l \in 1 .. m
    BY <1>2, <1>6, <1>10, <2>1
  <2>2. CASE k \notin 1 .. m
    <3>1. t[k].polls = {}
      BY <1>1, <1>7, <2>2 DEF IsDivergence
    <3> QED BY <3>1
  <2>3. CASE l \notin 1 .. m
    <3>1. t[l].polls = {}
      BY <1>1, <1>7, <2>3 DEF IsDivergence
    <3> QED BY <3>1
  <2> QED BY <2>1, <2>2, <2>3
<1>11. HasRows(t)
  BY <1>5, <1>8, <1>9, <1>10 DEF HasRows
<1> QED BY <1>11 DEF t, D

\* Nor does sorting the merged table.
LEMMA MergedHasRows ==
  ASSUME Passes, Scanned, Done
  PROVE  HasRows(Merged)
<1> DEFINE t == out \o DivergenceRows
           w == Merged
<1>1. HasRows(t)
  BY JoinedHasRows
<1>2. w = StableSort(t, Before)
  BY DEF Merged
<1> HIDE DEF t, w
<1>3. PICK m \in Nat : DOMAIN t = 1 .. m
  BY <1>1 DEF HasRows
<1>4. \A k \in 1 .. m : t[k].start \in Int /\ t[k].endpoint \in Int
  <2>1. \A e \in Endpoint : e \in Int
    BY AuditConstants
  <2>2. ASSUME NEW k \in 1 .. m PROVE t[k].start \in Nat /\ t[k].endpoint \in Endpoint
    BY <1>1, <1>3 DEF HasRows, IsRow, IsDivergence, IsIncident
  <2> QED BY <2>1, <2>2
<1>5. PICK order : IsRearranged(w, t, m, order)
  BY <1>2, <1>3, <1>4, RowsSorted
<1>6. /\ DOMAIN w = 1 .. m
      /\ \A i \in 1 .. m : order[i] \in 1 .. m /\ w[i] = t[order[i]]
      /\ \A i, k \in 1 .. m : order[i] = order[k] => i = k
      /\ \A k \in 1 .. m : \E i \in 1 .. m : order[i] = k
  BY <1>5 DEF IsRearranged
<1>7. \A k \in DOMAIN w : IsRow(w[k]) \/ (IsDivergence(w[k]) /\ DOMAIN divergences # {})
  BY <1>1, <1>3, <1>6 DEF HasRows
<1>8. ASSUME NEW l \in DOMAIN out PROVE \E k \in DOMAIN w : w[k] = out[l]
  <2>1. PICK k \in 1 .. m : t[k] = out[l]
    BY <1>1, <1>3 DEF HasRows
  <2>2. PICK i \in 1 .. m : order[i] = k
    BY <1>6
  <2>3. i \in DOMAIN w /\ w[i] = t[k]
    BY <1>6, <2>2
  <2> QED BY <2>1, <2>3
<1>9. ASSUME NEW k \in DOMAIN w, NEW l \in DOMAIN w, k # l PROVE w[k].polls \cap w[l].polls = {}
  <2>1. order[k] \in DOMAIN t /\ order[l] \in DOMAIN t /\ order[k] # order[l]
        /\ w[k] = t[order[k]] /\ w[l] = t[order[l]]
    BY <1>3, <1>6, <1>9
  <2>2. t[order[k]].polls \cap t[order[l]].polls = {}
    BY <1>1, <2>1 DEF HasRows
  <2> QED BY <2>1, <2>2
<1>10. HasRows(w)
  BY <1>6, <1>7, <1>8, <1>9 DEF HasRows
<1> QED BY <1>10 DEF w

\* What a row says of the samples it is made of.
LEMMA RowSamples ==
  ASSUME points \in Seq(Point), NEW inc, IsRow(inc)
  PROVE  /\ inc.polls # {} /\ inc.polls \subseteq Of(inc.endpoint)
            /\ inc.kind \in {"unavailable", "lag"}
         /\ \A i \in inc.polls : Kind(points[i]) = inc.kind
         /\ inc.samples = Cardinality(inc.polls)
         /\ \E i \in inc.polls : inc.blocks = points[i].lag[1]
         /\ \E i \in inc.polls : inc.seconds = points[i].lag[2]
         /\ \E i \in inc.polls : inc.start = points[i].at
         /\ \E i \in inc.polls : inc.end = points[i].at
<1> DEFINE e == inc.endpoint
           s == Series(e)
<1>1. PICK r \in Runs(s) : Tells(inc, s, r)
  BY DEF IsRow
<1>2. /\ r[1] \in 1 .. r[2] /\ r[2] \in 1 .. Len(s) /\ KindAt(s, r[1]) # "none" /\ Len(s) \in Nat
  BY RunFields
<1>3. /\ inc.polls = Stretch(s, r[1], r[2]) /\ inc.polls \subseteq Of(e)
         /\ inc.kind = KindAt(s, r[1])
      /\ \A i \in inc.polls : Kind(points[i]) = inc.kind
  BY <1>1, RunPolls
<1>4. TellsOf(inc, Stretch(s, r[1], r[2]), s[r[1]], s[r[2]])
  BY <1>1, TellsOfStretch
<1> HIDE DEF s
<1>5. s[r[1]] \in inc.polls /\ s[r[2]] \in inc.polls
  <2>1. r[1] \in r[1] .. r[2] /\ r[2] \in r[1] .. r[2]
    BY <1>2
  <2> QED BY <1>3, <2>1 DEF Stretch
<1>6. /\ inc.samples = Cardinality(inc.polls)
      /\ inc.start = points[s[r[1]]].at /\ inc.end = points[s[r[2]]].at
      /\ \E i \in inc.polls : inc.blocks = points[i].lag[1]
      /\ \E i \in inc.polls : inc.seconds = points[i].lag[2]
  BY <1>3, <1>4 DEF TellsOf, IsPeak
<1>7. inc.kind \in {"unavailable", "lag"}
  BY <1>2, <1>3, KindOfSample DEF KindAt
<1> QED BY <1>3, <1>5, <1>6, <1>7

\* The run that a breaching sample is in.
LEMMA RunOfSample ==
  ASSUME points \in Seq(Point), AreRules(rules), rules.samples <= 1, NEW e, NEW i \in Of(e),
         Kind(points[i]) # "none"
  PROVE  \E r \in Runs(Series(e)) : i \in Stretch(Series(e), r[1], r[2])
<1> DEFINE s == Series(e)
           n == Len(s)
<1>1. IsSeries(s, e)
  BY SeriesIsSeries
<1> HIDE DEF s
<1>2. n \in Nat /\ \E m \in 1 .. n : s[m] = i
  BY <1>1 DEF IsSeries
<1>3. PICK m \in 1 .. n : s[m] = i
  BY <1>2
<1> HIDE DEF n
<1> DEFINE kind == KindAt(s, m)
           ends == {0} \cup {o \in 1 .. m - 1 : KindAt(s, o) # kind}
           goOn == {o \in m .. n : \A l \in m .. o : KindAt(s, l) = kind}
<1>4. kind # "none"
  BY <1>3 DEF KindAt
<1>5. PICK b \in ends : \A o \in ends : o <= b
  <2>0. m \in Int /\ 0 \in Int /\ n \in Int
    BY <1>2
  <2>1. ends \subseteq 0 .. m /\ 0 .. m \subseteq Int /\ 0 \in ends
    BY <2>0
  <2> HIDE DEF ends
  <2>3. IsFiniteSet(0 .. m)
    BY ONLY <2>0, FS_Interval
  <2>2. IsFiniteSet(ends) /\ ends \in SUBSET Int /\ ends # {}
    BY <2>1, <2>3, FS_Subset
  <2> QED BY <2>2, LargestExists
<1>6. PICK c \in goOn : \A o \in goOn : o <= c
  <2>0. 0 \in Int /\ n \in Int
    BY <1>2
  <2>1. goOn \subseteq 0 .. n /\ 0 .. n \subseteq Int
    BY <1>2
  <2>4. IsFiniteSet(0 .. n)
    BY ONLY <2>0, FS_Interval
  <2>2. m \in goOn
    <3>1. \A l \in m .. m : l = m
      BY <1>2
    <3>2. m \in m .. n
      BY <1>2
    <3> QED BY <3>1, <3>2
  <2> HIDE DEF goOn
  <2>3. IsFiniteSet(goOn) /\ goOn \in SUBSET Int /\ goOn # {}
    BY <2>1, <2>2, <2>4, FS_Subset
  <2> QED BY <2>3, LargestExists
<1> HIDE DEF kind
<1>7. /\ b \in 0 .. m - 1 /\ b + 1 \in 1 .. m /\ (b > 0 => KindAt(s, b) # kind) /\ m \in Int
      /\ \A o \in 1 .. m - 1 : o > b => KindAt(s, o) = kind
  BY <1>2, <1>5
<1>8. /\ c \in m .. n /\ \A l \in m .. c : KindAt(s, l) = kind
  BY <1>6
<1>9. c < n => KindAt(s, c + 1) # kind
  <2> SUFFICES ASSUME c < n, KindAt(s, c + 1) = kind PROVE FALSE
    OBVIOUS
  <2>1. c + 1 \in m .. n /\ \A l \in m .. c + 1 : l \in m .. c \/ l = c + 1
    BY <1>2, <1>8
  <2>2. c + 1 \in goOn
    BY <1>8, <2>1
  <2> QED BY <1>2, <1>6, <1>8, <2>2
<1>10. \A l \in b + 1 .. c : KindAt(s, l) = kind
  <2> SUFFICES ASSUME NEW l \in b + 1 .. c PROVE KindAt(s, l) = kind
    OBVIOUS
  <2>1. l \in m .. c \/ (l \in 1 .. m - 1 /\ l > b)
    BY <1>2, <1>7, <1>8
  <2> QED BY <1>7, <1>8, <2>1
<1> HIDE DEF ends, goOn
<1> DEFINE a == b + 1
           r == <<a, c>>
<1>11. /\ a \in 1 .. n /\ c \in 1 .. n /\ a <= c /\ a - 1 = b /\ m \in a .. c
       /\ c - a + 1 >= rules.samples
  BY <1>2, <1>7, <1>8 DEF AreRules
<1>12. KindAt(s, a) = kind
  <2>1. a \in a .. c
    BY <1>11
  <2> QED BY <1>10, <2>1
<1>13. /\ KindAt(s, a) # "none"
       /\ a > 1 => KindAt(s, a - 1) # KindAt(s, a)
       /\ c < n => KindAt(s, c + 1) # KindAt(s, a)
       /\ \A l \in a .. c : KindAt(s, l) = KindAt(s, a)
  <2>1. a > 1 => b > 0
    BY <1>7
  <2> QED BY <1>4, <1>7, <1>9, <1>10, <1>11, <1>12, <2>1
<1>14. r \in Runs(s)
  <2>1. r \in (1 .. n) \X (1 .. n) /\ r[1] = a /\ r[2] = c
    BY <1>11
  <2> HIDE DEF a, r
  <2> QED BY <1>11, <1>13, <2>1 DEF Runs, n
<1>15. i \in Stretch(s, r[1], r[2])
  BY <1>3, <1>11 DEF Stretch
<1> QED BY <1>14, <1>15 DEF s

-----------------------------------------------------------------------------
(* Both passes together.                                                   *)

\* Both passes and the report.
FullInv == AuditInv /\ Scanned

\* It holds of the first state.
LEMMA FullInvInit == AuditInit => FullInv
BY PassesInit, ScanInvInit DEF FullInv, AuditInv, ScanInv

\* Every step of the audit keeps it.
LEMMA FullInvStep == FullInv /\ [AuditNext]_auditVars => FullInv'
BY AuditInvStep, ScannedStep DEF FullInv, AuditInv

\* The report, once it is made, and its tables.
LEMMA TablesOfReport ==
  ASSUME FullInv, Made
  PROVE  /\ AuditInv /\ points \in Seq(Point) /\ AreRules(rules)
         /\ report.summaries = Summaries /\ DOMAIN Summaries = Measured
         /\ report.findings = Findings(Summaries)
         /\ HasRows(report.incidents)
         /\ \A e : \A r \in Runs(Series(e)) : e \in Endpoint =>
              \E k \in DOMAIN report.incidents : Tells(report.incidents[k], Series(e), r)
<1>1. /\ points \in Seq(Point) /\ AreRules(rules) /\ report = Result /\ Done
         /\ DOMAIN Summaries = Measured
  BY RowsOfReport DEF FullInv
<1>2. Passes /\ Scanned /\ AuditInv
  BY DEF FullInv, AuditInv
<1>3. /\ report.summaries = Summaries /\ report.findings = Findings(Summaries)
      /\ report.incidents = Merged
  BY <1>1 DEF Result
<1>4. HasRows(report.incidents)
  BY <1>1, <1>2, <1>3, MergedHasRows
<1>5. ASSUME NEW e \in Endpoint, NEW r \in Runs(Series(e))
      PROVE  \E k \in DOMAIN report.incidents : Tells(report.incidents[k], Series(e), r)
  <2>1. PICK l \in DOMAIN out : Tells(out[l], Series(e), r)
    BY <1>1, <1>2, DoneTable
  <2>2. PICK k \in DOMAIN report.incidents : report.incidents[k] = out[l]
    BY <1>4 DEF HasRows
  <2> QED BY <2>1, <2>2
<1> QED BY <1>1, <1>2, <1>3, <1>4, <1>5

\* What the row of an endpoint counts and bounds.
LEMMA RowOfEndpoint ==
  ASSUME FullInv, Made, NEW e \in Measured
  PROVE  LET row == report.summaries[e]
             S == Of(e)
         IN  /\ IsFiniteSet(S) /\ S # {} /\ S \subseteq DOMAIN points
             /\ row.samples = Cardinality(S) /\ row.ok = Cardinality(HealthyOf(e))
             /\ \A c \in ErrClass : row.errors[c] = Cardinality({i \in FailedOf(e) : points[i].class = c})
             /\ row.staleShare[1] = Cardinality(StaleIn(S))
             /\ row.leaderShare[1] = Cardinality(LeadingIn(S))
             /\ \A i \in S : row.first <= points[i].at /\ points[i].at <= row.last
             /\ \A i \in S : points[i].lag[1] <= row.lagBlocksMax /\ points[i].lag[2] <= row.lagSecondsMax
<1> DEFINE acc == byEndpoint[e]
           row == report.summaries[e]
           S == Of(e)
<1>1. /\ Describes(acc, S) /\ Summaries[e] = SummaryOf(acc)
      /\ IsFiniteSet(S) /\ S # {} /\ S \subseteq DOMAIN points /\ points \in Seq(Point)
  BY RowsOfReport DEF FullInv
<1>2. row = SummaryOf(acc)
  BY <1>1, TablesOfReport
<1> HIDE DEF acc, row
<1>3. IsAccumulator(acc) /\ Counts(acc, S) /\ Bounds(acc, S)
  BY <1>1 DEF Describes
<1>4. HealthyIn(S) = HealthyOf(e)
  BY DEF HealthyIn, HealthyOf
<1>5. \A c : FailedIn(S, c) = {i \in FailedOf(e) : points[i].class = c}
  BY DEF FailedIn, FailedOf, HealthyOf
<1>6. /\ row.samples = acc.samples /\ row.ok = acc.ok /\ row.errors = acc.errors
      /\ row.staleShare[1] = acc.stale /\ row.leaderShare[1] = acc.leaders
      /\ row.first = acc.first /\ row.last = acc.last
      /\ row.lagBlocksMax = acc.lagBlocksMax /\ row.lagSecondsMax = acc.lagSecondsMax
  BY <1>2 DEF SummaryOf
<1>7. ASSUME NEW i \in S
      PROVE  points[i].lag[1] <= row.lagBlocksMax /\ points[i].lag[2] <= row.lagSecondsMax
  <2>1. CASE points[i].class = OK
    BY <1>3, <1>6, <2>1 DEF Bounds, HealthyIn
  <2>2. CASE points[i].class # OK
    <3>1. points[i] \in Point
      BY <1>1
    <3>2. points[i].lag = <<0, 0>>
      BY <2>2, <3>1, PointFields
    <3>3. acc.lagBlocksMax \in Nat /\ acc.lagSecondsMax \in Nat
      BY <1>3 DEF IsAccumulator
    <3> QED BY <1>6, <3>2, <3>3
  <2> QED BY <2>1, <2>2
<1>8. /\ row.samples = Cardinality(S) /\ row.ok = Cardinality(HealthyOf(e))
      /\ \A c \in ErrClass : row.errors[c] = Cardinality({i \in FailedOf(e) : points[i].class = c})
      /\ row.staleShare[1] = Cardinality(StaleIn(S))
      /\ row.leaderShare[1] = Cardinality(LeadingIn(S))
  BY <1>3, <1>4, <1>5, <1>6 DEF Counts
<1>9. \A i \in S : row.first <= points[i].at /\ points[i].at <= row.last
  BY <1>3, <1>6 DEF Bounds
<1> QED BY <1>1, <1>7, <1>8, <1>9 DEF row

\* A lag is one of blocks when there is no other threshold.
LEMMA LagIsStale ==
  ASSUME AreRules(rules), rules.seconds = 0, NEW p
  PROVE  Kind(p) = "lag" <=> p.class = OK /\ Stale(p)
BY DEF Kind, Breached, Stale, AreRules

(***************************************************************************)
(* The findings (writeFindings, report.go) do not deny what the incident   *)
(* table shows, nor claim that a leader never led, and they name every     *)
(* divergence of the table unless there is no sample at all.               *)
(***************************************************************************)
THEOREM FindingsMatch == AuditSpec => []FindingsMatchIncidents
<1>1. FullInv => FindingsMatchIncidents
  <2> SUFFICES ASSUME FullInv, Made PROVE FindingsMatchIncidents
    BY DEF FindingsMatchIncidents
  <2>1. /\ points \in Seq(Point) /\ AreRules(rules)
        /\ report.findings = Findings(Summaries) /\ report.summaries = Summaries
        /\ DOMAIN Summaries = Measured /\ HasRows(report.incidents)
    BY TablesOfReport
  <2>4. Measured = {} => report.findings = {NoSamples}
    BY <2>1 DEF Findings
  <2>5. Measured # {} => report.findings = LinesOf(Summaries)
    BY <2>1 DEF Findings
  <2>6. ASSUME NEW d \in DOMAIN divergences PROVE <<"divergence", d>> \in LinesOf(Summaries)
    BY DEF LinesOf
  <2>2. ASSUME report.findings = {}, rules.seconds = 0, NEW k \in DOMAIN report.incidents
        PROVE  report.incidents[k].kind = "unavailable"
    <3> DEFINE inc == report.incidents[k]
    <3>0. LinesOf(Summaries) = {}
      BY <2>2, <2>4, <2>5
    <3>1. DOMAIN divergences = {}
      BY <2>6, <3>0
    <3>2. IsRow(inc)
      BY <2>1, <3>1 DEF HasRows
    <3> HIDE DEF inc
    <3>3. /\ inc.polls # {} /\ inc.polls \subseteq Of(inc.endpoint)
             /\ inc.kind \in {"unavailable", "lag"}
          /\ \A i \in inc.polls : Kind(points[i]) = inc.kind
      BY <2>1, <3>2, RowSamples
    <3>4. inc.kind # "lag"
      <4> SUFFICES ASSUME inc.kind = "lag" PROVE FALSE
        OBVIOUS
      <4> PICK e : e = inc.endpoint
        OBVIOUS
      <4>1. PICK i \in Of(e) : Kind(points[i]) = "lag"
        BY <3>3
      <4>2. i \in StaleIn(Of(e))
        BY <2>1, <2>2, <4>1, LagIsStale DEF StaleIn
      <4>3. e \in Measured
        BY <4>1 DEF Of, Measured
      <4>4. IsFiniteSet(StaleIn(Of(e)))
        BY <4>3, RowOfEndpoint, KindsAreParts
      <4>5. Cardinality(StaleIn(Of(e))) \in Nat /\ Cardinality(StaleIn(Of(e))) # 0
        BY <4>2, <4>4, FS_CardinalityType, FS_EmptySet
      <4>6. Summaries[e].staleShare[1] > 0
        <5>1. Summaries[e].staleShare[1] = Cardinality(StaleIn(Of(e)))
          BY <2>1, <4>3, RowOfEndpoint
        <5> QED BY <4>5, <5>1
      <4>7. <<"stale", e>> \in LinesOf(Summaries)
        BY <2>1, <4>3, <4>6 DEF LinesOf
      <4> QED BY <3>0, <4>7
    <3> QED BY <3>3, <3>4 DEF inc
  <2>3. ASSUME NEW e \in Measured
        PROVE  <<"neverLed", e>> \in report.findings
                 <=> /\ HealthyOf(e) # {}
                     /\ \A i \in HealthyOf(e) : LagAt(i) > 0 \/ points[i].best = 0
    <3> DEFINE row == Summaries[e]
    <3>1. <<"neverLed", e>> \in report.findings <=> row.leaderShare[1] = 0 /\ row.ok > 0
      BY <2>1, <2>5 DEF LinesOf
    <3>2. /\ IsFiniteSet(Of(e)) /\ Of(e) \subseteq DOMAIN points
          /\ row.ok = Cardinality(HealthyOf(e))
             /\ row.leaderShare[1] = Cardinality(LeadingIn(Of(e)))
      BY <2>1, RowOfEndpoint
    <3> HIDE DEF row
    <3>3. HealthyIn(Of(e)) = HealthyOf(e)
      BY DEF HealthyIn, HealthyOf
    <3>4. IsFiniteSet(HealthyOf(e)) /\ IsFiniteSet(LeadingIn(Of(e)))
      BY <3>2, <3>3, KindsAreParts
    <3>5. row.ok > 0 <=> HealthyOf(e) # {}
      <4>1. row.ok \in Nat /\ (row.ok = 0 <=> HealthyOf(e) = {})
        BY <3>2, <3>4, FS_CardinalityType, FS_EmptySet
      <4> QED BY <4>1
    <3>6. row.leaderShare[1] = 0 <=> LeadingIn(Of(e)) = {}
      BY <3>2, <3>4, FS_EmptySet
    <3>7. LeadingIn(Of(e)) = {}
            <=> \A i \in HealthyOf(e) : LagAt(i) > 0 \/ points[i].best = 0
      <4>1. \A i \in Of(e) : points[i].lag[1] \in Nat /\ points[i].best \in Nat
        <5>1. \A i \in Of(e) : points[i] \in Point
          BY <2>1, <3>2
        <5> QED BY <5>1, PointFields
      <4>2. LeadingIn(Of(e)) = {i \in HealthyOf(e) : points[i].best > 0 /\ LagAt(i) = 0}
        BY DEF LeadingIn, HealthyOf, Leads, LagAt
      <4>3. HealthyOf(e) \subseteq Of(e)
        BY DEF HealthyOf
      <4> QED BY <4>1, <4>2, <4>3 DEF LagAt
    <3> QED BY <3>1, <3>5, <3>6, <3>7
  <2>7. ASSUME NEW k \in DOMAIN report.incidents, report.incidents[k].kind = "divergence",
               Measured # {}
        PROVE  \E d \in DOMAIN divergences :
                 /\ <<"divergence", d>> \in report.findings
                 /\ divergences[d].at = report.incidents[k].start
    <3> DEFINE inc == report.incidents[k]
    <3>1. ~IsRow(inc)
      BY <2>1, <2>7, RowSamples
    <3>2. IsDivergence(inc)
      BY <2>1, <3>1 DEF HasRows
    <3> HIDE DEF inc
    <3>3. PICK d \in DOMAIN divergences : divergences[d].at = inc.start
      BY <3>2 DEF IsDivergence
    <3> QED BY <2>5, <2>6, <2>7, <3>3 DEF inc
  <2> QED BY <2>2, <2>3, <2>4, <2>7 DEF FindingsMatchIncidents
<1> QED BY <1>1, FullInvInit, FullInvStep, PTL DEF AuditSpec

(***************************************************************************)
(* The endpoint table and the incident table, made of the same samples by  *)
(* separate passes (Aggregator.Add and scanSeries), never contradict each  *)
(* other: counts, members, peaks and windows agree.                        *)
(***************************************************************************)
THEOREM TablesTellOneStory == AuditSpec => []TablesAgree
<1>1. FullInv => TablesAgree
  <2> SUFFICES ASSUME FullInv, Made PROVE TablesAgree
    BY DEF TablesAgree
  <2> DEFINE table == report.incidents
  <2>1. /\ points \in Seq(Point) /\ AreRules(rules) /\ HasRows(table)
        /\ \A e : \A r \in Runs(Series(e)) : e \in Endpoint =>
             \E k \in DOMAIN table : Tells(table[k], Series(e), r)
    BY TablesOfReport
  <2>2. ASSUME NEW k \in DOMAIN table, NEW l \in DOMAIN table, k # l
        PROVE  table[k].polls \cap table[l].polls = {}
    BY <2>1, <2>2 DEF HasRows
  <2>3. ASSUME NEW k \in DOMAIN table, table[k].kind # "divergence" PROVE IsRow(table[k])
    BY <2>1, <2>3 DEF HasRows, IsDivergence
  <2> HIDE DEF table
  <2>4. ASSUME NEW e \in Measured, NEW kind \in {"unavailable", "lag"}
        PROVE  /\ PollsIn(kind, e) \subseteq {i \in Of(e) : Kind(points[i]) = kind}
               /\ rules.samples <= 1 => PollsIn(kind, e) = {i \in Of(e) : Kind(points[i]) = kind}
    <3>1. \A i : i \in PollsIn(kind, e) <=>
                   \E k \in DOMAIN table : table[k].kind = kind /\ table[k].endpoint = e /\ i \in table[k].polls
      BY DEF PollsIn, table
    <3>2. ASSUME NEW i \in PollsIn(kind, e) PROVE i \in Of(e) /\ Kind(points[i]) = kind
      <4>1. PICK k \in DOMAIN table : table[k].kind = kind /\ table[k].endpoint = e /\ i \in table[k].polls
        BY <3>1
      <4>2. IsRow(table[k])
        BY <2>3, <4>1
      <4> QED BY <2>1, <4>1, <4>2, RowSamples
    <3>3. ASSUME rules.samples <= 1, NEW i \in Of(e), Kind(points[i]) = kind
          PROVE  i \in PollsIn(kind, e)
      <4>1. PICK r \in Runs(Series(e)) : i \in Stretch(Series(e), r[1], r[2])
        BY <2>1, <3>3, RunOfSample
      <4>2. e \in Endpoint
        BY <2>1, PointsTyped DEF Measured
      <4>3. PICK k \in DOMAIN table : Tells(table[k], Series(e), r)
        BY <2>1, <4>1, <4>2
      <4>4. i \in table[k].polls /\ table[k].endpoint = e /\ table[k].kind = kind
        BY <2>1, <3>3, <4>1, <4>3, RunPolls
      <4> QED BY <3>1, <4>4
    <3> QED BY <3>2, <3>3
  <2>5. ASSUME NEW e \in Measured
        PROVE  /\ {i \in Of(e) : Kind(points[i]) = "unavailable"} = FailedOf(e)
               /\ {i \in Of(e) : Kind(points[i]) = "lag"} \subseteq HealthyOf(e)
               /\ rules.seconds = 0 => {i \in Of(e) : Kind(points[i]) = "lag"} = StaleIn(Of(e))
    <3>1. {i \in Of(e) : Kind(points[i]) = "unavailable"} = FailedOf(e)
      BY KindOfSample DEF FailedOf, HealthyOf
    <3>2. {i \in Of(e) : Kind(points[i]) = "lag"} \subseteq HealthyOf(e)
      BY DEF Kind, HealthyOf
    <3>3. rules.seconds = 0 => {i \in Of(e) : Kind(points[i]) = "lag"} = StaleIn(Of(e))
      BY <2>1, LagIsStale DEF StaleIn
    <3> QED BY <3>1, <3>2, <3>3
  <2>6. ASSUME NEW e \in Measured, NEW k \in DOMAIN table, table[k].endpoint = e, table[k].kind # "divergence"
        PROVE  LET inc == table[k]
                   row == report.summaries[e]
               IN  /\ inc.samples = Cardinality(inc.polls)
                   /\ inc.blocks <= row.lagBlocksMax /\ inc.seconds <= row.lagSecondsMax
                   /\ row.first <= inc.start /\ inc.end <= row.last
    <3> DEFINE inc == table[k]
               row == report.summaries[e]
    <3>1. IsRow(inc) /\ inc.endpoint = e
      BY <2>3, <2>6
    <3> HIDE DEF inc
    <3>2. /\ inc.polls \subseteq Of(e) /\ inc.samples = Cardinality(inc.polls)
          /\ \E i \in inc.polls : inc.blocks = points[i].lag[1]
          /\ \E i \in inc.polls : inc.seconds = points[i].lag[2]
          /\ \E i \in inc.polls : inc.start = points[i].at
          /\ \E i \in inc.polls : inc.end = points[i].at
      BY <2>1, <3>1, RowSamples
    <3>3. /\ \A i \in Of(e) : row.first <= points[i].at /\ points[i].at <= row.last
          /\ \A i \in Of(e) : points[i].lag[1] <= row.lagBlocksMax /\ points[i].lag[2] <= row.lagSecondsMax
      BY RowOfEndpoint
    <3> HIDE DEF row
    <3> QED BY <3>2, <3>3 DEF inc, row
  <2>7. ASSUME NEW e \in Measured
        PROVE  LET row == report.summaries[e]
               IN  /\ row.samples = Cardinality(Of(e)) /\ row.ok = Cardinality(HealthyOf(e))
                   /\ \A c \in ErrClass :
                        row.errors[c] = Cardinality({i \in FailedOf(e) : points[i].class = c})
                   /\ PollsIn("unavailable", e) \subseteq FailedOf(e)
                   /\ PollsIn("lag", e) \subseteq HealthyOf(e)
                   /\ rules.samples <= 1 => PollsIn("unavailable", e) = FailedOf(e)
                   /\ rules.samples <= 1 /\ rules.seconds = 0
                        => row.staleShare[1] = Cardinality(PollsIn("lag", e))
    <3>1. "unavailable" \in {"unavailable", "lag"} /\ "lag" \in {"unavailable", "lag"}
      OBVIOUS
    <3>2. /\ PollsIn("unavailable", e) \subseteq FailedOf(e)
             /\ PollsIn("lag", e) \subseteq HealthyOf(e)
          /\ rules.samples <= 1 => PollsIn("unavailable", e) = FailedOf(e)
          /\ rules.samples <= 1 /\ rules.seconds = 0 => PollsIn("lag", e) = StaleIn(Of(e))
      BY <2>4, <2>5, <3>1
    <3> QED BY <3>2, RowOfEndpoint
  <2> QED BY <2>2, <2>6, <2>7 DEF TablesAgree, table
<1> QED BY <1>1, FullInvInit, FullInvStep, PTL DEF AuditSpec

=============================================================================
