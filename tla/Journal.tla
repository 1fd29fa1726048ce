------------------------------ MODULE Journal ------------------------------
(***************************************************************************)
(* The journal of a run, events.ndjson, and its one append owner           *)
(* (journal.py), with the dashboard's incremental reader of the same file  *)
(* (dashboard/sse.py).                                                     *)
(*                                                                         *)
(* An append assigns the next sequence number, writes a line, fsyncs the   *)
(* file and, if it created it, the directory; only then does the record    *)
(* enter the owner's memory.  Whatever fails on the way poisons the owner. *)
(* A fresh owner accepts the complete lines of the file, cuts an           *)
(* unterminated tail and fsyncs file and directory before it returns.      *)
(*                                                                         *)
(* Abstractions.  A line has two halves, the second one ends in the        *)
(* newline: a write that stops early leaves nothing, a torn line or a      *)
(* complete one, as an OS write may.  The file is its complete lines and   *)
(* its torn tail.  A power failure keeps a prefix of what was written that *)
(* contains what was fsynced (a failed fsync promises nothing, a later one *)
(* that succeeds covers the whole file); a file whose directory entry was  *)
(* never fsynced may be gone.  A cut tail that comes back with the power   *)
(* is the file before the cut, and is not told apart from it.  One owner   *)
(* exists at a time: that is the business of Lifecycle.                    *)
(*                                                                         *)
(* Bounds.  MaxRecords lines are tried, the owner's process ends           *)
(* MaxCrashes times, the power fails MaxPowerFailures times.               *)
(***************************************************************************)
EXTENDS Integers, Sequences

CONSTANTS
  Threads,           \* the threads of the owner's process that append
  MaxRecords, MaxCrashes, MaxPowerFailures

ASSUME ConstantsAssumption ==
  /\ MaxRecords \in Nat /\ MaxCrashes \in Nat /\ MaxPowerFailures \in Nat

\* A line is told by its sequence number and by the attempt to append that wrote it.
Record == [seq : Int, id : Nat]

\* What halves of two lines make: no event of the run carries this number.
Junk == [seq |-> -1, id |-> 0]

VARIABLES
  exists,     \* events.ndjson has a directory entry
  lines,      \* its complete lines
  torn,       \* <<>>, or <<the line whose first half follows them>>
  synced,     \* how many complete lines are on the disk for sure
  named,      \* the directory entry is on the disk for sure
  proc,       \* the owner's process: down, reading, repairing, naming, up
  mem,        \* Journal._events
  poisoned,   \* Journal._poisoned
  pc,         \* thread -> where it is in append; all but one are idle or wait
  new,        \* the line being appended
  creates,    \* new_journal of the append under way
  tried,      \* appends begun so far
  ends,       \* how often the process and how often the power failed
  acked,      \* history: the longest prefix reported to be durable
  adopted,    \* history: the owner started on an empty file it had not created
  seen,       \* tail_events: complete lines behind offset (and expected)
  half,       \* tail_events: pending, <<>> or <<the torn line before offset>>
  shown       \* history: what the client has been sent

file == <<exists, lines, torn, synced, named>>
owner == <<proc, mem, poisoned, pc, new, creates>>
reader == <<seen, half, shown>>
vars == <<file, owner, tried, ends, acked, adopted, reader>>

Idle == [t \in Threads |-> "idle"]

Init ==
  /\ exists = FALSE /\ lines = <<>> /\ torn = <<>>
  /\ synced = 0 /\ named = FALSE
  /\ proc = "down" /\ mem = <<>> /\ poisoned = FALSE
  /\ pc = Idle /\ new = Junk /\ creates = FALSE
  /\ tried = 0 /\ ends = [process |-> 0, power |-> 0]
  /\ acked = 0 /\ adopted = FALSE
  /\ seen = 0 /\ half = <<>> /\ shown = <<>>

-----------------------------------------------------------------------------
(* A fresh owner. *)

\* The file is absent or empty: Journal, and not Journal.load (engine.py:232).
StartEmpty ==
  /\ proc = "down" /\ lines = <<>> /\ torn = <<>>
  /\ proc' = "up" /\ mem' = <<>>
  /\ adopted' = (exists /\ ~named)
  /\ UNCHANGED <<file, poisoned, pc, new, creates, tried, ends, acked, reader>>

\* Journal.load folds the complete lines; a line out of sequence raises instead
\* (FileParses says there is none).
StartLoad ==
  /\ proc = "down" /\ (lines # <<>> \/ torn # <<>>)
  /\ \A i \in DOMAIN lines : lines[i].seq = i - 1
  /\ proc' = "repairing" /\ mem' = lines
  /\ UNCHANGED <<file, poisoned, pc, new, creates, tried, ends, acked, adopted, reader>>

\* Bug: the torn tail stays.
BugKeepTail ==
  /\ proc = "repairing"
  /\ synced' = Len(lines)
  /\ proc' = "naming"
  /\ UNCHANGED <<exists, lines, torn, named, mem, poisoned, pc, new, creates>>
  /\ UNCHANGED <<tried, ends, acked, adopted, reader>>

\* ... cuts the torn tail and fsyncs the file ...
Repair ==
  /\ proc = "repairing"
  /\ torn' = <<>> /\ synced' = Len(lines)
  /\ proc' = "naming"
  /\ UNCHANGED <<exists, lines, named, mem, poisoned, pc, new, creates>>
  /\ UNCHANGED <<tried, ends, acked, adopted, reader>>

\* ... and the directory, and returns: its events are facts from here on.
NameLoaded ==
  /\ proc = "naming"
  /\ named' = TRUE
  /\ proc' = "up" /\ acked' = Len(mem) /\ adopted' = FALSE
  /\ UNCHANGED <<exists, lines, torn, synced, mem, poisoned, pc, new, creates>>
  /\ UNCHANGED <<tried, ends, reader>>

-----------------------------------------------------------------------------
(* Journal.append, under the owner's lock. *)

NextSeq == IF mem = <<>> THEN 0 ELSE mem[Len(mem)].seq + 1

\* Bug: a poisoned owner goes on.
BugIgnorePoison(t) ==
  /\ proc = "up" /\ pc = Idle /\ tried < MaxRecords
  /\ tried' = tried + 1
  /\ new' = [seq |-> NextSeq, id |-> tried + 1]
  /\ creates' = ~exists /\ exists' = TRUE
  /\ pc' = [pc EXCEPT ![t] = "write"]
  /\ UNCHANGED <<lines, torn, synced, named, proc, mem, poisoned>>
  /\ UNCHANGED <<ends, acked, adopted, reader>>

\* The file cannot be opened.
OpenFails(t) ==
  /\ proc = "up" /\ ~poisoned /\ pc = Idle /\ tried < MaxRecords
  /\ tried' = tried + 1
  /\ poisoned' = TRUE
  /\ UNCHANGED <<file, proc, mem, pc, new, creates, ends, acked, adopted, reader>>

\* The lock is free, the owner is sound; the file is opened, and so created.
BeginAppend(t) ==
  /\ proc = "up" /\ ~poisoned /\ pc = Idle /\ tried < MaxRecords
  /\ tried' = tried + 1
  /\ new' = [seq |-> NextSeq, id |-> tried + 1]
  /\ creates' = ~exists /\ exists' = TRUE
  /\ pc' = [pc EXCEPT ![t] = "write"]
  /\ UNCHANGED <<lines, torn, synced, named, proc, mem, poisoned>>
  /\ UNCHANGED <<ends, acked, adopted, reader>>

\* The first half; behind a torn line it makes junk of both.
WriteHalf(t) ==
  /\ pc[t] = "write"
  /\ torn' = IF torn = <<>> THEN <<new>> ELSE <<Junk>>
  /\ pc' = [pc EXCEPT ![t] = "half"]
  /\ UNCHANGED <<exists, lines, synced, named, proc, mem, poisoned, new, creates>>
  /\ UNCHANGED <<tried, ends, acked, adopted, reader>>

WriteRest(t) ==
  /\ pc[t] = "half"
  /\ lines' = lines \o torn /\ torn' = <<>>
  /\ pc' = [pc EXCEPT ![t] = "sync"]
  /\ UNCHANGED <<exists, synced, named, proc, mem, poisoned, new, creates>>
  /\ UNCHANGED <<tried, ends, acked, adopted, reader>>

\* The record enters the memory and append returns its number.
Acknowledge(t) ==
  /\ mem' = Append(mem, new) /\ acked' = Len(mem) + 1
  /\ pc' = [pc EXCEPT ![t] = "idle"]
  /\ UNCHANGED <<exists, lines, torn, proc, poisoned, new, creates>>
  /\ UNCHANGED <<tried, ends, adopted, reader>>

SyncFile(t) ==
  /\ pc[t] = "sync" /\ ~creates
  /\ synced' = Len(lines) /\ UNCHANGED named
  /\ Acknowledge(t)

\* The append that created the file fsyncs its directory as well.
SyncNewFile(t) ==
  /\ pc[t] = "sync" /\ creates
  /\ synced' = Len(lines)
  /\ pc' = [pc EXCEPT ![t] = "name"]
  /\ UNCHANGED <<exists, lines, torn, named, proc, mem, poisoned, new, creates>>
  /\ UNCHANGED <<tried, ends, acked, adopted, reader>>

\* Bug: the directory of a new file is not fsynced.
BugUnnamed(t) ==
  /\ pc[t] = "name"
  /\ UNCHANGED <<named, synced>>
  /\ Acknowledge(t)

\* ... and the directory entry is on the disk as well.
SyncDirectory(t) ==
  /\ pc[t] = "name"
  /\ named' = TRUE /\ UNCHANGED synced
  /\ Acknowledge(t)

\* Whichever call raised, what is written stays and the owner is poisoned.
AppendFails(t) ==
  /\ pc[t] # "idle"
  /\ poisoned' = TRUE
  /\ pc' = [pc EXCEPT ![t] = "idle"]
  /\ UNCHANGED <<file, proc, mem, new, creates, tried, ends, acked, adopted, reader>>

-----------------------------------------------------------------------------
(* Failures. *)

Forget == /\ proc' = "down" /\ mem' = <<>> /\ poisoned' = FALSE
          /\ pc' = Idle /\ new' = Junk /\ creates' = FALSE

\* The process ends; the kernel keeps the file.
Crash ==
  /\ proc # "down" /\ ends.process < MaxCrashes
  /\ ends' = [ends EXCEPT !.process = @ + 1]
  /\ Forget
  /\ UNCHANGED <<file, tried, acked, adopted, reader>>

\* The dashboard is on the same machine; its client keeps what it was shown.
PowerFails ==
  /\ ends.power < MaxPowerFailures
  /\ ends' = [ends EXCEPT !.power = @ + 1]
  /\ Forget
  /\ seen' = 0 /\ half' = <<>>
  /\ UNCHANGED <<tried, adopted, shown>>

\* The disk has a prefix of what was written, which may end within a line.
LoseTail ==
  /\ PowerFails
  /\ \E n \in synced..Len(lines) :
       /\ lines' = SubSeq(lines, 1, n)
       /\ torn' \in {<<>>, IF n < Len(lines) THEN <<lines[n + 1]>> ELSE torn}
  /\ UNCHANGED <<exists, synced, named, acked>>

\* The file was never entered in its directory.
LoseFile ==
  /\ PowerFails
  /\ exists /\ ~named
  /\ exists' = FALSE /\ lines' = <<>> /\ torn' = <<>> /\ synced' = 0
  /\ acked' = 0
  /\ UNCHANGED named

-----------------------------------------------------------------------------
(* tail_events, for one client that stays interested. *)

\* The file is shorter than the reader's offset.
Shrunk ==
  \/ Len(lines) < seen
  \/ Len(lines) = seen /\ torn = <<>> /\ half # <<>>

From == IF Shrunk THEN 0 ELSE seen
Pending == IF Shrunk THEN <<>> ELSE half

\* What a torn line that was read before makes of the line that now follows it.
Glued(h) ==
  IF lines[From + 1] = h THEN h ELSE [h EXCEPT !.id = 0]

\* The complete lines a poll finds behind From.
Arrived ==
  [i \in 1..(Len(lines) - From) |->
     IF i = 1 /\ Pending # <<>> THEN Glued(Pending[1]) ELSE lines[From + i]]

\* Bug: lines are sent again when the reader starts over.
BugResend(s) == s

\* Bug: the line after the cursor is taken for one that was sent.
BugSkipOne(s) == SubSeq(s, Len(shown) - From + 2, Len(s))

\* Of those, the ones beyond the client's cursor.
Unseen(s) == SubSeq(s, Len(shown) - From + 1, Len(s))

Poll ==
  /\ exists
  /\ seen' = Len(lines)
  /\ half' = IF Len(lines) > From \/ Pending = <<>> THEN torn ELSE Pending
  /\ shown' = shown \o Unseen(Arrived)
  /\ UNCHANGED <<file, owner, tried, ends, acked, adopted>>

\* The stream ends: the line it glued does not parse, or the connection broke.
\* The client comes back with the last id it has seen.
Reconnect ==
  /\ seen' = 0 /\ half' = <<>>
  /\ UNCHANGED <<file, owner, tried, ends, acked, adopted, shown>>

-----------------------------------------------------------------------------
Load == StartEmpty \/ StartLoad \/ Repair \/ NameLoaded

AppendStep(t) ==
  \/ BeginAppend(t) \/ WriteHalf(t) \/ WriteRest(t)
  \/ SyncFile(t) \/ SyncNewFile(t) \/ SyncDirectory(t)

Next ==
  \/ Load
  \/ \E t \in Threads : AppendStep(t) \/ AppendFails(t) \/ OpenFails(t)
  \/ Crash \/ LoseTail \/ LoseFile
  \/ Poll \/ Reconnect

Spec == Init /\ [][Next]_vars

\* The dashboard polls for as long as its client is there; nothing else is owed.
FairSpec == Spec /\ WF_vars(Poll)

-----------------------------------------------------------------------------
(* Properties. *)

TypeOK ==
  /\ exists \in BOOLEAN /\ named \in BOOLEAN
  /\ lines \in Seq(Record) /\ torn \in Seq(Record) /\ Len(torn) <= 1
  /\ synced \in 0..Len(lines)
  /\ proc \in {"down", "repairing", "naming", "up"}
  /\ mem \in Seq(Record) /\ poisoned \in BOOLEAN
  /\ pc \in [Threads -> {"idle", "write", "half", "sync", "name"}]
  /\ new \in Record /\ creates \in BOOLEAN
  /\ tried \in 0..MaxRecords
  /\ ends \in [process : 0..MaxCrashes, power : 0..MaxPowerFailures]
  /\ acked \in 0..Len(lines) /\ adopted \in BOOLEAN
  /\ seen \in Nat /\ half \in Seq(Record) /\ Len(half) <= 1 /\ shown \in Seq(Record)

\* Every complete line is a record at its place, and a torn one is the next: what
\* any load of the file accepts (journal.py:127-141) after any failures.
FileParses ==
  /\ \A i \in DOMAIN lines : lines[i].seq = i - 1
  /\ torn # <<>> => torn[1].seq = Len(lines)

\* An owner folds what a fresh one would fold: its memory is the file, short of
\* at most the one line that is being appended or that poisoned it.
MemoryIsTheFile ==
  proc = "up" =>
    /\ Len(mem) <= Len(lines) /\ mem = SubSeq(lines, 1, Len(mem))
    /\ Len(lines) <= Len(mem) + 1
    /\ (~poisoned /\ pc = Idle) => (lines = mem /\ torn = <<>>)

\* What was reported durable is on the disk, with the name of its file.  An owner
\* that adopts an empty file of another one is the exception: neither it nor its
\* appends fsync the directory.
AckedIsDurable ==
  acked > 0 => acked <= synced /\ (named \/ adopted)

\* The reader sends each position once, in order, over truncations and reconnects.
TailInOrder == \A i \in DOMAIN shown : shown[i].seq = i - 1

\* What was acknowledged is shown in the end, unless an adopted file vanished.
TailCatchesUp ==
  \A n \in 1..MaxRecords : (acked >= n) ~> (Len(shown) >= n \/ acked < n)

\* Over crashes, power failures and poisoned owners the file is a log that grows
\* and keeps what it promised (an adopted file promises nothing until it is loaded).
Log == INSTANCE DurableLog WITH
         log <- lines,
         promised <- IF adopted THEN 0 ELSE acked

ImplementsLog == Log!Spec
=============================================================================
