---------------------------- MODULE EvidenceLog ----------------------------
(***************************************************************************)
(* The evidence log across the runs of the probe that append to it         *)
(* (internal/evidence/evidence.go: Open, Write, Close and Parse), with     *)
(* writes that fail halfway, probes that are killed and machines that lose *)
(* what was not synced.                                                    *)
(*                                                                         *)
(* The file is a sequence of pieces, one per write.  A piece is a whole    *)
(* line; or a bare record, whole but for its newline; or a cut one, of     *)
(* which only the beginning was written.  It is long if with it the line   *)
(* it is on outgrows the buffer of the reader's scanner, 8 MiB, as one of  *)
(* a divergence may: it quotes up to 1 MiB of every cluster's answer, as   *)
(* JSON that escapes some characters sixfold.  The reader is a function of *)
(* the file, so what is said of it holds for a report made at any moment.  *)
(***************************************************************************)
EXTENDS Integers, Sequences, FiniteSets

CONSTANTS MaxRecords,   \* records handed to the log (bound)
          MaxFailures   \* failed writes, kills and power losses (bound)

ASSUME LogAssumption ==
  /\ MaxRecords \in Nat
  /\ MaxFailures \in Nat

VARIABLES file,      \* the pieces on the file
          synced,    \* as many of them survive a power loss
          writer,    \* "closed", "open" or, between write and fsync, "syncing"
          broken,    \* json.Encoder.err: the writer refuses every record
          fresh,     \* nothing was written since the log was opened
          handed,    \* history: records handed to Write so far
          written,   \* history: records whose Write returned nil
          vanished,  \* history: records a power loss took from the file
          failures   \* history: failures so far

vars == <<file, synced, writer, broken, fresh, handed, written, vanished, failures>>

Type == {"divergence", "other"}
Form == {"line", "bare", "cut"}
Record == [id : 1 .. MaxRecords, type : Type]
Piece == [id : 1 .. MaxRecords, type : Type, form : Form, long : BOOLEAN]

-----------------------------------------------------------------------------
(* The writer.                                                             *)

Init ==
  /\ file = <<>>
  /\ synced = 0
  /\ writer = "closed"
  /\ broken = FALSE
  /\ fresh = FALSE
  /\ handed = 0
  /\ written = {}
  /\ vanished = {}
  /\ failures = 0

\* O_APPEND, and a new encoder.
Open ==
  /\ writer = "closed"
  /\ writer' = "open"
  /\ broken' = FALSE
  /\ fresh' = TRUE
  /\ UNCHANGED <<file, synced, handed, written, vanished, failures>>

\* A run hands run_started or a sample to the log before any divergence.
Hand(type) ==
  /\ writer = "open" /\ handed < MaxRecords
  /\ fresh => type # "divergence"
  /\ handed' = handed + 1
  /\ fresh' = FALSE

\* The record at hand, and the file with what may have been written of it.
Current(type) == [id |-> handed', type |-> type]
Written(type, form, long) ==
  [id |-> handed', type |-> type, form |-> form, long |-> long]
Extended(type, forms) ==
  {Append(file, Written(type, form, long)) : form \in forms, long \in BOOLEAN}

\* The record is written whole; Write returns, after a sync if it is of a
\* divergence.
Write(type) ==
  /\ Hand(type) /\ ~broken
  /\ file' \in Extended(type, {"line"})
  /\ IF type = "divergence"
     THEN writer' = "syncing" /\ UNCHANGED written
     ELSE written' = written \cup {Current(type)} /\ UNCHANGED writer
  /\ UNCHANGED <<synced, broken, vanished, failures>>

Sync ==
  /\ writer = "syncing"
  /\ writer' = "open"
  /\ synced' = Len(file)
  /\ written' = written \cup {[id |-> handed, type |-> "divergence"]}
  /\ UNCHANGED <<file, broken, fresh, handed, vanished, failures>>

Fail == failures < MaxFailures /\ failures' = failures + 1

\* What a write that did not complete leaves on the file.
Torn(type) == {file} \cup Extended(type, {"bare", "cut"})

\* The write fails with all, some or none of its bytes on the file, and the
\* encoder keeps the error.
WriteFailsOnce(type) ==
  /\ Fail
  /\ Hand(type) /\ ~broken
  /\ file' \in Torn(type)
  /\ UNCHANGED <<synced, writer, broken, written, vanished>>

WriteFailsUnnoticed(type) ==
  /\ Fail
  /\ Hand(type) /\ ~broken
  /\ file' \in Torn(type)
  /\ broken' = TRUE
  /\ written' = written \cup {Current(type)}
  /\ UNCHANGED <<synced, writer, vanished>>

WriteFails(type) ==
  /\ Fail
  /\ Hand(type) /\ ~broken
  /\ file' \in Torn(type)
  /\ broken' = TRUE
  /\ UNCHANGED <<synced, writer, written, vanished>>

\* The error of an earlier write is returned, nothing is written.
WriteRefused(type) ==
  /\ Hand(type) /\ broken
  /\ UNCHANGED <<file, synced, writer, broken, written, vanished, failures>>

SyncFails ==
  /\ Fail
  /\ writer = "syncing"
  /\ writer' = "open"
  /\ UNCHANGED <<file, synced, broken, fresh, handed, written, vanished>>

Close ==
  /\ writer = "open"
  /\ writer' = "closed"
  /\ synced' \in {synced, Len(file)}    \* its sync may fail
  /\ UNCHANGED <<file, broken, fresh, handed, written, vanished, failures>>

-----------------------------------------------------------------------------
(* The environment.                                                        *)

\* The process dies, between two writes or in the middle of one; what it
\* wrote is with the operating system.
Kill ==
  /\ Fail
  /\ writer # "closed"
  /\ writer' = "closed"
  /\ UNCHANGED <<synced, broken, written, vanished>>
  /\ \/ UNCHANGED <<file, fresh, handed>>
     \/ \E type \in Type :
          /\ ~broken
          /\ Hand(type)
          /\ file' \in Torn(type) \cup Extended(type, {"line"})

\* What may be left of a piece that lost its end.
Remains(piece) ==
  {p \in Piece : /\ p.id = piece.id /\ p.type = piece.type /\ p.form # "line"
                 /\ p.long => piece.long}

\* The machine dies: some of the pieces that were not synced are lost from the
\* end of the file, the first of them perhaps only in part.
PowerLoss ==
  /\ Fail
  /\ writer' = "closed"
  /\ \E n \in synced .. Len(file) :
       /\ \/ file' = SubSeq(file, 1, n)
          \/ /\ n < Len(file)
             /\ file' \in {Append(SubSeq(file, 1, n), p) : p \in Remains(file[n + 1])}
       /\ vanished' = vanished \cup {file[i].id : i \in n + 1 .. Len(file)}
  /\ synced' = Len(file')
  /\ UNCHANGED <<broken, fresh, handed, written>>

Next ==
  \/ Open \/ Sync \/ SyncFails \/ Close
  \/ \E type \in Type : Write(type) \/ WriteFails(type) \/ WriteRefused(type)
  \/ Kill \/ PowerLoss

Spec == Init /\ [][Next]_vars

-----------------------------------------------------------------------------
(* The reader.  Lines end at newlines; a line is a record when it is one   *)
(* whole piece, and malformed otherwise.                                   *)

\* The pieces that begin a line: one per line.
LineStart == {i \in DOMAIN file : i > 1 => file[i - 1].form = "line"}

\* The line that begins with piece i decodes.
Decodes(i) ==
  \/ file[i].form = "line"
  \/ file[i].form = "bare" /\ i = Len(file)

Decoded == {file[i].id : i \in {j \in LineStart : Decodes(j)}}

\* sc.Err: one line that is too long makes Parse return an error, and no bundle.
ParseFails == \E i \in DOMAIN file : file[i].long

\* The records of the bundle Parse returns, and its count of malformed lines.
Parsed == IF ParseFails THEN {} ELSE Decoded
Malformed ==
  IF ParseFails THEN 0 ELSE Cardinality({i \in LineStart : ~Decodes(i)})

-----------------------------------------------------------------------------
TypeOK ==
  /\ file \in Seq(Piece)
  /\ synced \in 0 .. Len(file)
  /\ writer \in {"closed", "open", "syncing"}
  /\ broken \in BOOLEAN /\ fresh \in BOOLEAN
  /\ handed \in 0 .. MaxRecords
  /\ written \subseteq Record /\ vanished \subseteq 1 .. handed
  /\ failures \in 0 .. MaxFailures

(***************************************************************************)
(* "Divergence records are fsynced immediately: they are the expensive     *)
(* findings and must survive a crashing probe" (evidence.go:72-73): once   *)
(* Write has returned, a divergence stands on the file as a line of its    *)
(* own that decodes, through any failures, before it and after it, of the  *)
(* disk, the probe and the machine; and a reader misses it only where      *)
(* Parse says so, with the error for a line that is too long, be it this   *)
(* one or another.  It rests on the encoder refusing to write after a      *)
(* failure, and on no run beginning with a divergence.                     *)
(***************************************************************************)
DivergencesSurvive ==
  \A r \in written : r.type = "divergence" =>
    /\ r.id \in Decoded
    /\ r.id \notin Parsed => ParseFails

(***************************************************************************)
(* Malformed lines "are reported rather than silently dropped"             *)
(* (evidence.go:116-117): short of a power loss, and unless Parse returns  *)
(* an error for the whole log, a record that was written but cannot be     *)
(* read back is accounted for by a malformed line of its own, so that the  *)
(* reader's count bounds what is missing.                                  *)
(***************************************************************************)
LossesAreReported ==
  ~ParseFails =>
    Cardinality({r.id : r \in written} \ (Parsed \cup vanished)) <= Malformed

=============================================================================
