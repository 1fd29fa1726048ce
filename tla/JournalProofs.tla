--------------------------- MODULE JournalProofs ---------------------------
(***************************************************************************)
(* The journal file is a log: proved for every number of threads, records, *)
(* crashes and power failures.  The inductive invariant says how far the   *)
(* file and the owner's memory are apart at every step of an append, of a  *)
(* load and after a failure, and what of it is on the disk.                *)
(***************************************************************************)
EXTENDS Journal, SequenceTheorems, TLAPS

\* One thread at most is within append.
OneAppends ==
  \A t, u \in Threads : pc[t] # "idle" /\ pc[u] # "idle" => t = u

\* Nobody appends but to an owner that is up.
UpToAppend == proc # "up" => pc = Idle /\ ~poisoned

\* How the memory of an owner that starts compares with the file.
Starting ==
  /\ proc \in {"repairing", "naming"} => mem = lines
  /\ proc = "naming" => torn = <<>> /\ synced = Len(lines)

\* How they compare while a record is appended.
Appending ==
  \A t \in Threads : pc[t] # "idle" =>
    /\ ~poisoned /\ exists /\ new.seq = Len(mem)
    /\ pc[t] = "write" => lines = mem /\ torn = <<>>
    /\ pc[t] = "half" => lines = mem /\ torn = <<new>>
    /\ pc[t] \in {"sync", "name"} => lines = Append(mem, new) /\ torn = <<>>
    /\ pc[t] = "name" => synced = Len(lines)

\* How they compare between two appends, and after one that failed.
Resting ==
  proc = "up" =>
    /\ poisoned => lines = mem \/ lines = Append(mem, new)
    /\ ~poisoned /\ pc = Idle => lines = mem /\ torn = <<>>

\* A file without a durable name is being created by the append under way, was
\* adopted empty, or belongs to an owner that is poisoned.
Nameless ==
  proc = "up" /\ exists /\ ~named /\ ~adopted => poisoned \/ (creates /\ pc # Idle)

\* The inductive invariant of the file and its owner.
IInv ==
  /\ TypeOK /\ FileParses /\ AckedIsDurable
  /\ OneAppends /\ UpToAppend /\ Starting /\ Appending /\ Resting /\ Nameless

\* The reader has sent all lines behind its offset, in order, and the torn line
\* it holds back is the next one.
ReaderInv ==
  /\ TailInOrder /\ seen <= Len(shown)
  /\ half # <<>> => half[1].seq = seen

-----------------------------------------------------------------------------
(* Facts about records and sequences of them.                              *)

\* The record that stands for a glued line is a record.
LEMMA JunkIsRecord == Junk \in Record
BY DEF Junk, Record

\* The empty log is a log.
LEMMA NoRecords == <<>> \in Seq(Record) /\ Len(<<>>) = 0
BY EmptySeq

\* Adding one record to a log.
LEMMA Appended ==
  ASSUME NEW s \in Seq(Record), NEW r \in Record
  PROVE  /\ Append(s, r) \in Seq(Record) /\ Len(Append(s, r)) = Len(s) + 1
         /\ s \o <<r>> = Append(s, r)
         /\ \A i \in 1..Len(s) : Append(s, r)[i] = s[i]
         /\ Append(s, r)[Len(s) + 1] = r
         /\ SubSeq(Append(s, r), 1, Len(s)) = s
<1>1. /\ Append(s, r) \in Seq(Record) /\ Len(Append(s, r)) = Len(s) + 1
      /\ \A i \in 1..Len(s) : Append(s, r)[i] = s[i]
      /\ Append(s, r)[Len(s) + 1] = r
  BY AppendProperties
<1>2. s \o <<r>> = Append(s, r)
  BY AppendIsConcat
<1>3. SubSeq(Append(s, r), 1, Len(s)) = s
  <2> DEFINE a == Append(s, r)
  <2>1. Len(s) \in Nat
    BY LenProperties
  <2>2. \A i \in 1..Len(s) : a[i] = s[i] /\ s[i] \in Record
    BY <1>1, ElementOfSeq
  <2> HIDE DEF a
  <2>3. /\ SubSeq(a, 1, Len(s)) \in Seq(Record)
        /\ Len(SubSeq(a, 1, Len(s))) = Len(s)
        /\ \A i \in 1..Len(s) : SubSeq(a, 1, Len(s))[i] = a[i]
    BY <2>1, <2>2, SubSeqProperties
  <2>4. SubSeq(a, 1, Len(s)) = s
    BY <2>2, <2>3, SeqEqual
  <2> QED BY <2>4 DEF a
<1> QED BY <1>1, <1>2, <1>3

\* Cutting a log to its first n records.
LEMMA Prefix ==
  ASSUME NEW s \in Seq(Record), NEW n \in 0..Len(s)
  PROVE  /\ SubSeq(s, 1, n) \in Seq(Record) /\ Len(SubSeq(s, 1, n)) = n
         /\ \A i \in 1..n : SubSeq(s, 1, n)[i] = s[i]
<1>1. Len(s) \in Nat /\ \A i \in 1..n : s[i] \in Record
  BY LenProperties, ElementOfSeq
<1> QED BY <1>1, SubSeqProperties

\* An interval from 1 tells its upper bound.
LEMMA SameBound ==
  ASSUME NEW a \in Nat, NEW b \in Nat, 1..a = 1..b
  PROVE  a = b
<1>1. (a >= 1 => a \in 1..b) /\ (b >= 1 => b \in 1..a)
  OBVIOUS
<1> QED BY <1>1

\* The next sequence number of a memory that agrees with its file.
LEMMA NextIsLength ==
  ASSUME TypeOK, FileParses, lines = mem
  PROVE  NextSeq = Len(mem)
<1>1. CASE mem = <<>>
  BY <1>1 DEF NextSeq
<1>2. CASE mem # <<>>
  <2>1. Len(mem) \in DOMAIN mem /\ Len(mem) \in Nat
    BY <1>2, LenProperties, EmptySeq DEF TypeOK
  <2> QED BY <1>2, <2>1 DEF NextSeq, FileParses
<1> QED BY <1>1, <1>2

-----------------------------------------------------------------------------
(* The invariant is inductive: a lemma for each part of the next-state     *)
(* relation.                                                               *)

LEMMA InitIInv == Init => IInv
<1> SUFFICES ASSUME Init PROVE IInv
  OBVIOUS
<1>1. /\ lines \in Seq(Record) /\ torn \in Seq(Record) /\ Len(torn) <= 1
      /\ mem \in Seq(Record) /\ half \in Seq(Record) /\ Len(half) <= 1
      /\ shown \in Seq(Record)
      /\ synced \in 0..Len(lines) /\ acked \in 0..Len(lines)
  BY NoRecords DEF Init
<1>2. /\ ends \in [process : 0..MaxCrashes, power : 0..MaxPowerFailures]
      /\ tried \in 0..MaxRecords
  BY ConstantsAssumption DEF ConstantsAssumption, Init
<1>3. TypeOK
  BY <1>1, <1>2, JunkIsRecord DEF Init, TypeOK, Idle
<1> QED BY <1>3, NoRecords DEF Init, IInv, FileParses, AckedIsDurable, OneAppends,
     UpToAppend, Starting, Appending, Resting, Nameless, Idle

\* A fresh owner leaves the complete lines alone.
LEMMA LoadStep ==
  ASSUME IInv, Load
  PROVE  IInv'
<1> USE DEF IInv
<1>1. CASE StartEmpty
  <2>1. TypeOK'
    BY <1>1 DEF StartEmpty, TypeOK, file, reader
  <2>2. (FileParses /\ AckedIsDurable)'
    BY <1>1, EmptySeq DEF StartEmpty, FileParses, AckedIsDurable, file, TypeOK
  <2>3. (OneAppends /\ UpToAppend /\ Starting /\ Appending /\ Resting /\ Nameless)'
    BY <1>1 DEF StartEmpty, OneAppends, UpToAppend, Starting, Appending, Resting,
       Nameless, Idle, file
  <2> QED BY <2>1, <2>2, <2>3
<1>2. CASE StartLoad
  <2>1. TypeOK'
    BY <1>2 DEF StartLoad, TypeOK, file, reader
  <2>2. (FileParses /\ AckedIsDurable)'
    BY <1>2 DEF StartLoad, FileParses, AckedIsDurable, file
  <2>3. (OneAppends /\ UpToAppend /\ Starting /\ Appending /\ Resting /\ Nameless)'
    BY <1>2 DEF StartLoad, OneAppends, UpToAppend, Starting, Appending, Resting,
       Nameless, Idle, file
  <2> QED BY <2>1, <2>2, <2>3
<1>3. CASE Repair
  <2>1. TypeOK'
    BY <1>3, EmptySeq, LenProperties DEF Repair, TypeOK, reader
  <2>2. (FileParses /\ AckedIsDurable)'
    BY <1>3 DEF Repair, FileParses, AckedIsDurable, TypeOK
  <2>3. (OneAppends /\ UpToAppend /\ Starting /\ Appending /\ Resting /\ Nameless)'
    BY <1>3 DEF Repair, OneAppends, UpToAppend, Starting, Appending, Resting,
       Nameless, Idle
  <2> QED BY <2>1, <2>2, <2>3
<1>4. CASE NameLoaded
  <2>1. TypeOK'
    BY <1>4, LenProperties DEF NameLoaded, TypeOK, reader, Starting
  <2>2. (FileParses /\ AckedIsDurable)'
    BY <1>4, LenProperties DEF NameLoaded, FileParses, AckedIsDurable, Starting, TypeOK
  <2>3. (OneAppends /\ UpToAppend /\ Starting /\ Appending /\ Resting /\ Nameless)'
    BY <1>4 DEF NameLoaded, OneAppends, UpToAppend, Starting, Appending, Resting,
       Nameless, Idle
  <2> QED BY <2>1, <2>2, <2>3
<1> QED BY <1>1, <1>2, <1>3, <1>4 DEF Load

\* An append starts on a file that agrees with the memory.
LEMMA BeginStep ==
  ASSUME IInv, NEW t \in Threads, BeginAppend(t)
  PROVE  IInv'
<1> USE DEF IInv
<1>1. lines = mem /\ torn = <<>> /\ NextSeq = Len(mem) /\ Len(mem) \in Nat
  BY NextIsLength, LenProperties DEF BeginAppend, Resting, TypeOK
<1>2. TypeOK'
  BY <1>1, ConstantsAssumption
  DEF ConstantsAssumption, BeginAppend, TypeOK, Record, reader
<1>3. (FileParses /\ AckedIsDurable)'
  BY DEF BeginAppend, FileParses, AckedIsDurable
<1>4. (OneAppends /\ UpToAppend /\ Starting /\ Nameless)'
  BY DEF BeginAppend, OneAppends, UpToAppend, Starting, Nameless, Idle, TypeOK
<1>5. (Appending /\ Resting)'
  BY <1>1 DEF BeginAppend, Appending, Resting, Idle, TypeOK
<1> QED BY <1>2, <1>3, <1>4, <1>5

\* The two halves of a line are written behind the lines the memory knows.
LEMMA WriteStep ==
  ASSUME IInv, NEW t \in Threads, WriteHalf(t) \/ WriteRest(t)
  PROVE  IInv'
<1> USE DEF IInv
<1>0. proc = "up" /\ ~poisoned /\ lines = mem /\ new.seq = Len(mem) /\ exists
      /\ lines \in Seq(Record) /\ new \in Record /\ Len(lines) \in Nat
  BY LenProperties DEF WriteHalf, WriteRest, Appending, UpToAppend, Idle, TypeOK
<1>1. CASE WriteHalf(t)
  <2>1. torn = <<>> /\ torn' = <<new>> /\ UNCHANGED <<lines, mem, new>>
    BY <1>1 DEF WriteHalf, Appending
  <2>2. TypeOK'
    BY <1>0, <1>1, <2>1 DEF WriteHalf, TypeOK, reader
  <2>3. (FileParses /\ AckedIsDurable)'
    BY <1>0, <1>1, <2>1 DEF WriteHalf, FileParses, AckedIsDurable
  <2>4. (OneAppends /\ UpToAppend /\ Starting /\ Appending /\ Resting /\ Nameless)'
    BY <1>0, <1>1, <2>1 DEF WriteHalf, OneAppends, UpToAppend, Starting, Appending,
       Resting, Nameless, Idle, TypeOK
  <2> QED BY <2>2, <2>3, <2>4
<1>2. CASE WriteRest(t)
  <2>a. torn = <<new>> /\ torn' = <<>> /\ UNCHANGED <<mem, new>>
    BY <1>2 DEF WriteRest, Appending
  <2>b. lines' = mem \o <<new>>
    BY <1>0, <1>2, <2>a DEF WriteRest
  <2>1. /\ torn = <<new>> /\ torn' = <<>> /\ UNCHANGED <<mem, new>>
        /\ lines' = Append(mem, new)
    BY <1>0, <2>a, <2>b, Appended
  <2>2. /\ lines' \in Seq(Record) /\ Len(lines') = Len(lines) + 1
        /\ \A i \in 1..Len(lines) : lines'[i] = lines[i]
        /\ lines'[Len(lines) + 1] = new
    BY <1>0, <2>1, Appended
  <2>3. DOMAIN lines = 1..Len(lines) /\ DOMAIN lines' = 1..Len(lines')
    BY <1>0, <2>2, LenProperties
  <2>4. TypeOK'
    BY <1>0, <1>2, <2>1, <2>2, EmptySeq DEF WriteRest, TypeOK, reader
  <2>5. FileParses'
    BY <1>0, <2>1, <2>2, <2>3 DEF FileParses
  <2>6. AckedIsDurable'
    BY <1>2 DEF WriteRest, AckedIsDurable
  <2>7. (OneAppends /\ UpToAppend /\ Starting /\ Appending /\ Resting /\ Nameless)'
    BY <1>0, <1>2, <2>1 DEF WriteRest, OneAppends, UpToAppend, Starting, Appending,
       Resting, Nameless, Idle, TypeOK
  <2> QED BY <2>4, <2>5, <2>6, <2>7
<1> QED BY <1>1, <1>2

\* An append is acknowledged when its line, and its file's name, are safe.
LEMMA SyncStep ==
  ASSUME IInv, NEW t \in Threads, SyncFile(t) \/ SyncNewFile(t) \/ SyncDirectory(t)
  PROVE  IInv'
<1> USE DEF IInv
<1>0. /\ proc = "up" /\ ~poisoned /\ exists /\ torn = <<>>
      /\ lines = Append(mem, new) /\ mem \in Seq(Record) /\ new \in Record
      /\ Len(lines) = Len(mem) + 1 /\ Len(mem) \in Nat
  BY Appended, LenProperties
  DEF SyncFile, SyncNewFile, SyncDirectory, Appending, UpToAppend, Idle, TypeOK
<1>1. CASE SyncNewFile(t)
  <2>1. TypeOK'
    BY <1>0, <1>1 DEF SyncNewFile, TypeOK, reader
  <2>2. (FileParses /\ AckedIsDurable)'
    BY <1>0, <1>1 DEF SyncNewFile, FileParses, AckedIsDurable, TypeOK
  <2>3. (OneAppends /\ UpToAppend /\ Starting /\ Appending /\ Resting /\ Nameless)'
    BY <1>0, <1>1 DEF SyncNewFile, OneAppends, UpToAppend, Starting, Appending,
       Resting, Nameless, Idle, TypeOK
  <2> QED BY <2>1, <2>2, <2>3
<1>2. CASE SyncFile(t) \/ SyncDirectory(t)
  <2>1. /\ Acknowledge(t) /\ synced' = Len(lines) /\ (named' \/ adopted)
    BY <1>0, <1>2 DEF SyncFile, SyncDirectory, Appending, Nameless, Idle
  <2>2. named' \in BOOLEAN
    BY <1>2 DEF SyncFile, SyncDirectory, TypeOK
  <2>3. TypeOK'
    BY <1>0, <2>1, <2>2 DEF Acknowledge, TypeOK, reader
  <2>4. (FileParses /\ AckedIsDurable)'
    BY <1>0, <2>1 DEF Acknowledge, FileParses, AckedIsDurable
  <2>5. \A u \in Threads : pc'[u] = "idle"
    BY <1>2, <2>1 DEF SyncFile, SyncDirectory, Acknowledge, OneAppends, TypeOK
  <2>6. (OneAppends /\ UpToAppend /\ Starting /\ Appending)'
    BY <1>0, <2>1, <2>5
    DEF Acknowledge, OneAppends, UpToAppend, Starting, Appending
  <2>7. (Resting /\ Nameless)'
    BY <1>0, <2>1 DEF Acknowledge, Resting, Nameless
  <2> QED BY <2>3, <2>4, <2>6, <2>7
<1> QED BY <1>1, <1>2

\* A failed append leaves the line, or its beginning, to the next owner.
LEMMA FailStep ==
  ASSUME IInv, NEW t \in Threads, AppendFails(t)
  PROVE  IInv'
<1> USE DEF IInv
<1>1. proc = "up" /\ (lines = mem \/ lines = Append(mem, new))
  BY DEF AppendFails, Appending, UpToAppend, Idle, TypeOK
<1>2. TypeOK'
  BY DEF AppendFails, TypeOK, file, reader
<1>3. (FileParses /\ AckedIsDurable)'
  BY DEF AppendFails, FileParses, AckedIsDurable, file
<1>4. (OneAppends /\ UpToAppend /\ Starting /\ Appending /\ Resting /\ Nameless)'
  BY <1>1 DEF AppendFails, OneAppends, UpToAppend, Starting, Appending, Resting,
     Nameless, Idle, TypeOK, file
<1> QED BY <1>2, <1>3, <1>4

\* An append that cannot open the file only poisons the owner.
LEMMA OpenFailsStep ==
  ASSUME IInv, NEW t \in Threads, OpenFails(t)
  PROVE  IInv'
<1> USE DEF IInv
<1>1. TypeOK'
  BY ConstantsAssumption DEF ConstantsAssumption, OpenFails, TypeOK, file, reader
<1>2. (FileParses /\ AckedIsDurable)'
  BY DEF OpenFails, FileParses, AckedIsDurable, file
<1>3. (OneAppends /\ UpToAppend /\ Starting /\ Appending /\ Resting /\ Nameless)'
  BY DEF OpenFails, OneAppends, UpToAppend, Starting, Appending, Resting, Nameless,
     Idle, TypeOK, file
<1> QED BY <1>1, <1>2, <1>3

\* The end of the process takes the memory with it; the machine's end takes what
\* was not fsynced.
LEMMA FailureStep ==
  ASSUME IInv, Crash \/ LoseTail \/ LoseFile
  PROVE  IInv'
<1> USE DEF IInv
<1>1. /\ (OneAppends /\ UpToAppend /\ Starting /\ Appending /\ Resting /\ Nameless)'
      /\ proc' = "down" /\ poisoned' = FALSE /\ pc' = Idle /\ creates' = FALSE
  BY DEF Crash, LoseTail, LoseFile, PowerFails, Forget, OneAppends, UpToAppend,
     Starting, Appending, Resting, Nameless, Idle
<1>2. mem' \in Seq(Record) /\ new' \in Record
  BY JunkIsRecord, NoRecords DEF Crash, LoseTail, LoseFile, PowerFails, Forget
<1>3. pc' \in [Threads -> {"idle", "write", "half", "sync", "name"}]
  BY <1>1 DEF Idle
<1>4. /\ ends' \in [process : 0..MaxCrashes, power : 0..MaxPowerFailures]
      /\ UNCHANGED <<tried, adopted>>
  <2>1. MaxCrashes \in Nat /\ MaxPowerFailures \in Nat
    BY ConstantsAssumption DEF ConstantsAssumption
  <2>2. /\ ends.process \in 0..MaxCrashes /\ ends.power \in 0..MaxPowerFailures
        /\ ends = [process |-> ends.process, power |-> ends.power]
    BY DEF TypeOK
  <2>3. \/ ends' = [ends EXCEPT !.process = @ + 1] /\ ends.process < MaxCrashes
        \/ ends' = [ends EXCEPT !.power = @ + 1] /\ ends.power < MaxPowerFailures
    BY DEF Crash, LoseTail, LoseFile, PowerFails
  <2>4. \/ ends' = [process |-> ends.process + 1, power |-> ends.power]
        \/ ends' = [process |-> ends.process, power |-> ends.power + 1]
    BY <2>2, <2>3
  <2>5. ends' \in [process : 0..MaxCrashes, power : 0..MaxPowerFailures]
    BY <2>1, <2>2, <2>3, <2>4
  <2> QED BY <2>5 DEF Crash, LoseTail, LoseFile, PowerFails
<1>5. /\ seen' \in Nat /\ half' \in Seq(Record) /\ Len(half') <= 1
      /\ shown' \in Seq(Record)
  <2>1. CASE Crash
    BY <2>1 DEF Crash, TypeOK, reader
  <2>2. CASE PowerFails
    BY <2>2, NoRecords DEF PowerFails, TypeOK
  <2> QED BY <2>1, <2>2 DEF LoseTail, LoseFile
<1>6. CASE Crash
  <2>1. TypeOK'
    BY <1>1, <1>2, <1>3, <1>4, <1>5, <1>6 DEF Crash, TypeOK, file
  <2>2. (FileParses /\ AckedIsDurable)'
    BY <1>6 DEF Crash, FileParses, AckedIsDurable, file
  <2> QED BY <1>1, <2>1, <2>2
<1>7. CASE LoseTail
  <2>1. PICK n \in synced..Len(lines) :
          /\ lines' = SubSeq(lines, 1, n)
          /\ torn' \in {<<>>, IF n < Len(lines) THEN <<lines[n + 1]>> ELSE torn}
    BY <1>7 DEF LoseTail
  <2>2. /\ Len(lines) \in Nat /\ synced \in Nat /\ n \in 0..Len(lines)
        /\ lines \in Seq(Record) /\ DOMAIN lines = 1..Len(lines)
        /\ \A i \in 1..Len(lines) : lines[i] \in Record
    BY LenProperties, ElementOfSeq DEF TypeOK
  <2>3. /\ lines' \in Seq(Record) /\ Len(lines') = n
        /\ \A i \in 1..n : lines'[i] = lines[i]
    BY <2>1, <2>2, Prefix
  <2>4. DOMAIN lines' = 1..n
    BY <2>3, LenProperties
  <2>5. \/ torn' = <<>>
        \/ n < Len(lines) /\ torn' = <<lines[n + 1]>> /\ lines[n + 1] \in Record
        \/ n = Len(lines) /\ torn' = torn
    <3>1. CASE n < Len(lines)
      <4>1. n + 1 \in 1..Len(lines)
        BY <2>2, <3>1
      <4> QED BY <2>1, <2>2, <3>1, <4>1
    <3>2. CASE ~(n < Len(lines))
      <4>1. n \in Nat /\ Len(lines) \in Nat /\ n <= Len(lines)
        BY <2>2
      <4>2. n = Len(lines)
        BY <3>2, <4>1
      <4>3. torn' = <<>> \/ torn' = torn
        BY <2>1, <3>2
      <4> QED BY <4>2, <4>3
    <3> QED BY <3>1, <3>2
  <2>6. torn' \in Seq(Record) /\ Len(torn') <= 1
    <3>1. \A r \in Record : <<r>> \in Seq(Record) /\ Len(<<r>>) <= 1
      OBVIOUS
    <3>2. torn \in Seq(Record) /\ Len(torn) <= 1
      BY DEF TypeOK
    <3>3. CASE torn' = <<>>
      BY <3>3, NoRecords
    <3>4. CASE torn' = <<lines[n + 1]>> /\ lines[n + 1] \in Record
      BY <3>1, <3>4
    <3> QED BY <2>5, <3>2, <3>3, <3>4
  <2>7. FileParses'
    <3>1. \A i \in DOMAIN lines' : lines'[i].seq = i - 1
      BY <2>2, <2>3, <2>4 DEF FileParses
    <3>2. torn' # <<>> => torn'[1].seq = n
      <4>1. CASE n < Len(lines) /\ torn' = <<lines[n + 1]>>
        <5>1. n + 1 \in DOMAIN lines
          BY <2>2, <4>1
        <5>2. lines[n + 1].seq = n
          BY <2>2, <5>1 DEF FileParses
        <5> QED BY <4>1, <5>2
      <4>2. CASE n = Len(lines) /\ torn' = torn
        BY <4>2 DEF FileParses
      <4> QED BY <2>5, <4>1, <4>2
    <3> QED BY <2>3, <3>1, <3>2 DEF FileParses
  <2>8. AckedIsDurable' /\ acked' \in 0..Len(lines') /\ synced' \in 0..Len(lines')
    <3>1. UNCHANGED <<synced, named, acked, adopted>> /\ acked \in Nat /\ n >= synced
      BY <1>7, <2>1, <2>2 DEF LoseTail, PowerFails, TypeOK
    <3>2. acked <= synced
      BY <2>2, <3>1 DEF AckedIsDurable
    <3> QED BY <2>2, <2>3, <3>1, <3>2 DEF AckedIsDurable
  <2>9. TypeOK'
    BY <1>1, <1>2, <1>3, <1>4, <1>5, <1>7, <2>3, <2>6, <2>8 DEF LoseTail, TypeOK
  <2> QED BY <1>1, <2>7, <2>8, <2>9
<1>8. CASE LoseFile
  <2>1. lines' = <<>> /\ torn' = <<>> /\ synced' = 0 /\ acked' = 0 /\ exists' = FALSE
        /\ UNCHANGED named
    BY <1>8 DEF LoseFile
  <2>2. TypeOK'
    <3>1. /\ lines' \in Seq(Record) /\ torn' \in Seq(Record) /\ Len(torn') <= 1
          /\ synced' \in 0..Len(lines') /\ acked' \in 0..Len(lines')
      BY <2>1, NoRecords
    <3>2. exists' \in BOOLEAN /\ named' \in BOOLEAN
      BY <2>1 DEF TypeOK
    <3>3. tried' \in 0..MaxRecords /\ adopted' \in BOOLEAN
      BY <1>4 DEF TypeOK
    <3> QED BY <1>1, <1>2, <1>3, <1>4, <1>5, <3>1, <3>2, <3>3 DEF TypeOK
  <2>3. (FileParses /\ AckedIsDurable)'
    BY <2>1 DEF FileParses, AckedIsDurable
  <2> QED BY <1>1, <2>2, <2>3
<1> QED BY <1>6, <1>7, <1>8

-----------------------------------------------------------------------------
(* The dashboard's reader.                                                 *)

\* Where a poll starts, and the torn line it continues.
LEMMA PollStarts ==
  ASSUME TypeOK, ReaderInv
  PROVE  /\ From \in Nat /\ From <= Len(lines) /\ From <= Len(shown)
         /\ Pending \in Seq(Record) /\ Len(Pending) <= 1
         /\ Pending # <<>> => Pending[1] \in Record /\ Pending[1].seq = From
<1>1. /\ Len(lines) \in Nat /\ Len(shown) \in Nat /\ seen \in Nat
      /\ half \in Seq(Record) /\ Len(half) <= 1
  BY LenProperties DEF TypeOK
<1>2. CASE Shrunk
  BY <1>1, <1>2, NoRecords DEF From, Pending
<1>3. CASE ~Shrunk
  <2>1. From = seen /\ Pending = half
    BY <1>3 DEF From, Pending
  <2>2. seen <= Len(lines)
    BY <1>1, <1>3 DEF Shrunk
  <2>3. half # <<>> => half[1] \in Record
    <3>1. half # <<>> => 1 \in 1..Len(half)
      BY <1>1, EmptySeq
    <3> QED BY <1>1, <3>1, ElementOfSeq
  <2> QED BY <1>1, <2>1, <2>2, <2>3 DEF ReaderInv
<1> QED BY <1>2, <1>3

\* The lines a poll finds carry the numbers of their places, glued or not.
LEMMA ArrivedInOrder ==
  ASSUME TypeOK, FileParses, ReaderInv
  PROVE  /\ Arrived \in Seq(Record) /\ Len(Arrived) = Len(lines) - From
         /\ \A i \in 1..(Len(lines) - From) :
              Arrived[i] \in Record /\ Arrived[i].seq = From + i - 1
<1> DEFINE n == Len(lines) - From
<1>1. /\ From \in Nat /\ n \in Nat /\ Len(lines) \in Nat
      /\ DOMAIN lines = 1..Len(lines)
      /\ \A i \in 1..Len(lines) : lines[i] \in Record /\ lines[i].seq = i - 1
  BY PollStarts, LenProperties, ElementOfSeq DEF TypeOK, FileParses
<1>2. ASSUME NEW i \in 1..n
      PROVE  Arrived[i] \in Record /\ Arrived[i].seq = From + i - 1
  <2>1. From + i \in 1..Len(lines)
    BY <1>1
  <2>2. CASE i = 1 /\ Pending # <<>>
    <3>1. Pending[1] \in Record /\ Pending[1].seq = From
      BY <2>2, PollStarts
    <3>2. Glued(Pending[1]) \in Record /\ Glued(Pending[1]).seq = From
      BY <3>1 DEF Glued, Record
    <3> QED BY <1>1, <2>2, <3>2 DEF Arrived
  <2>3. CASE ~(i = 1 /\ Pending # <<>>)
    <3>1. Arrived[i] = lines[From + i]
      BY <2>3 DEF Arrived
    <3>2. lines[From + i] \in Record /\ lines[From + i].seq = From + i - 1
      BY <1>1, <2>1
    <3> QED BY <3>1, <3>2
  <2> QED BY <2>2, <2>3
<1>3. Arrived \in [1..n -> Record]
  BY <1>2 DEF Arrived
<1>4. Arrived \in Seq(Record)
  BY <1>1, <1>3, SeqDef
<1>5. Len(Arrived) = n
  <2>1. 1..Len(Arrived) = 1..n /\ Len(Arrived) \in Nat
    BY <1>3, <1>4, LenProperties
  <2> QED BY <1>1, <2>1, SameBound
<1> QED BY <1>2, <1>4, <1>5

\* A poll sends the lines behind what was sent, and no other.
LEMMA PollInOrder ==
  ASSUME TypeOK, FileParses, ReaderInv, Poll
  PROVE  ReaderInv' /\ shown' \in Seq(Record)
<1> DEFINE n == Len(lines) - From
           m == Len(shown) - From + 1
           u == SubSeq(Arrived, m, n)
<1>1. /\ From \in Nat /\ n \in Nat /\ m \in Nat \ {0} /\ Len(shown) \in Nat
      /\ Len(lines) \in Nat /\ Len(Arrived) = n /\ shown \in Seq(Record)
  <2>1. Len(lines) \in Nat /\ Len(shown) \in Nat /\ shown \in Seq(Record)
    BY LenProperties DEF TypeOK
  <2> QED BY <2>1, PollStarts, ArrivedInOrder
<1>2. \A i \in 1..n : Arrived[i] \in Record /\ Arrived[i].seq = From + i - 1
  BY ArrivedInOrder
<1>3. /\ u \in Seq(Record) /\ Len(u) = IF m <= n THEN n - m + 1 ELSE 0
      /\ \A i \in 1..(n - m + 1) : u[i] = Arrived[m + i - 1]
  <2>1. \A i \in m..n : Arrived[i] \in Record
    BY <1>1, <1>2
  <2>2. m \in Int /\ n \in Int
    BY <1>1
  <2> HIDE DEF m, n
  <2> QED BY <2>1, <2>2, SubSeqProperties
<1>4. shown' = shown \o u /\ seen' = Len(lines)
  BY <1>1 DEF Poll, Unseen
<1> HIDE DEF u
<1>5. /\ shown' \in Seq(Record) /\ Len(shown') = Len(shown) + Len(u)
      /\ \A i \in 1..(Len(shown) + Len(u)) :
           shown'[i] = IF i <= Len(shown) THEN shown[i] ELSE u[i - Len(shown)]
  BY <1>1, <1>3, <1>4, ConcatProperties
<1>6. seen' <= Len(shown')
  BY <1>1, <1>3, <1>4, <1>5
<1>7. ASSUME NEW i \in DOMAIN shown'
      PROVE  shown'[i].seq = i - 1
  <2>1. i \in 1..(Len(shown) + Len(u)) /\ Len(u) \in Nat
    BY <1>1, <1>3, <1>5, LenProperties
  <2>2. CASE i <= Len(shown)
    <3>1. i \in DOMAIN shown
      BY <1>1, <2>1, <2>2, LenProperties
    <3> QED BY <1>5, <2>1, <2>2, <3>1 DEF ReaderInv, TailInOrder
  <2>3. CASE ~(i <= Len(shown))
    <3> DEFINE j == i - Len(shown)
    <3>1. j \in 1..Len(u) /\ m <= n /\ Len(u) = n - m + 1
      BY <1>1, <1>3, <2>1, <2>3
    <3>2. shown'[i] = Arrived[m + j - 1]
      BY <1>3, <1>5, <2>1, <2>3, <3>1
    <3>3. m + j - 1 \in 1..n
      BY <1>1, <3>1
    <3>4. Arrived[m + j - 1].seq = From + (m + j - 1) - 1
      BY <1>2, <3>3
    <3> QED BY <1>1, <2>1, <3>2, <3>4
  <2> QED BY <2>2, <2>3
<1>8. half' # <<>> => half'[1].seq = seen'
  <2>1. CASE half' = torn
    BY <1>4, <2>1 DEF FileParses
  <2>2. CASE half' = Pending /\ ~(Len(lines) > From)
    <3>1. From = Len(lines)
      BY <1>1, <2>2
    <3> QED BY <1>4, <2>2, <3>1, PollStarts
  <2> QED BY <2>1, <2>2 DEF Poll
<1> QED BY <1>5, <1>6, <1>7, <1>8 DEF ReaderInv, TailInOrder

\* The reader disturbs nothing.
LEMMA ReaderStep ==
  ASSUME IInv, ReaderInv, Poll \/ Reconnect
  PROVE  IInv' /\ ReaderInv'
<1> USE DEF IInv
<1>1. UNCHANGED <<file, owner, tried, ends, acked, adopted>>
  BY DEF Poll, Reconnect
<1>2. /\ seen' \in Nat /\ half' \in Seq(Record) /\ Len(half') <= 1
      /\ shown' \in Seq(Record) /\ ReaderInv'
  <2>1. CASE Poll
    <3>1. seen' \in Nat
      BY <2>1, LenProperties DEF Poll, TypeOK
    <3>2. half' = torn \/ half' = Pending
      BY <2>1 DEF Poll
    <3>3. half' \in Seq(Record) /\ Len(half') <= 1
      BY <3>2, PollStarts DEF TypeOK
    <3> QED BY <2>1, <3>1, <3>3, PollInOrder
  <2>2. CASE Reconnect
    BY <2>2, NoRecords, LenProperties DEF Reconnect, TypeOK, ReaderInv, TailInOrder
  <2> QED BY <2>1, <2>2
<1>3. TypeOK'
  BY <1>1, <1>2 DEF TypeOK, file, owner
<1>4. (FileParses /\ AckedIsDurable)'
  BY <1>1 DEF FileParses, AckedIsDurable, file, owner
<1>5. (OneAppends /\ UpToAppend /\ Starting /\ Appending /\ Resting /\ Nameless)'
  BY <1>1 DEF OneAppends, UpToAppend, Starting, Appending, Resting, Nameless, Idle,
     file, owner
<1> QED BY <1>2, <1>3, <1>4, <1>5

-----------------------------------------------------------------------------
(* The theorems.                                                           *)

\* Only a poll or a failure touches what the reader knows.
LEMMA ReaderKept ==
  ASSUME TypeOK, ReaderInv, UNCHANGED reader \/ PowerFails
  PROVE  ReaderInv'
<1>1. CASE UNCHANGED reader
  BY <1>1 DEF reader, ReaderInv, TailInOrder
<1>2. CASE PowerFails
  BY <1>2, LenProperties DEF PowerFails, ReaderInv, TailInOrder, TypeOK
<1> QED BY <1>1, <1>2

\* The invariants of the file and of its reader hold in every state.
THEOREM IInvHolds == Spec => [](IInv /\ ReaderInv)
<1>1. Init => IInv /\ ReaderInv
  BY InitIInv, NoRecords DEF Init, ReaderInv, TailInOrder
<1>2. IInv /\ ReaderInv /\ [Next]_vars => (IInv /\ ReaderInv)'
  <2> SUFFICES ASSUME IInv, ReaderInv, [Next]_vars PROVE IInv' /\ ReaderInv'
    OBVIOUS
  <2>0. TypeOK
    BY DEF IInv
  <2>1. CASE Load
    BY <2>0, <2>1, LoadStep, ReaderKept
    DEF Load, StartEmpty, StartLoad, Repair, NameLoaded
  <2>2. CASE \E t \in Threads : AppendStep(t) \/ AppendFails(t) \/ OpenFails(t)
    <3> PICK t \in Threads : AppendStep(t) \/ AppendFails(t) \/ OpenFails(t)
      BY <2>2
    <3>1. IInv'
      BY BeginStep, WriteStep, SyncStep, FailStep, OpenFailsStep DEF AppendStep
    <3>2. UNCHANGED reader
      BY DEF AppendStep, BeginAppend, WriteHalf, WriteRest, SyncFile, SyncNewFile,
         SyncDirectory, Acknowledge, AppendFails, OpenFails
    <3> QED BY <2>0, <3>1, <3>2, ReaderKept
  <2>3. CASE Crash \/ LoseTail \/ LoseFile
    BY <2>0, <2>3, FailureStep, ReaderKept DEF Crash, LoseTail, LoseFile
  <2>4. CASE Poll \/ Reconnect
    BY <2>4, ReaderStep
  <2>5. CASE UNCHANGED vars
    <3>1. TypeOK'
      BY <2>0, <2>5 DEF vars, file, owner, reader, TypeOK
    <3>2. (FileParses /\ AckedIsDurable)'
      BY <2>5 DEF vars, file, owner, IInv, FileParses, AckedIsDurable
    <3>3. (OneAppends /\ UpToAppend /\ Starting /\ Appending /\ Resting /\ Nameless)'
      BY <2>5 DEF vars, file, owner, IInv, OneAppends, UpToAppend, Starting, Appending,
         Resting, Nameless, Idle
    <3>4. ReaderInv'
      BY <2>0, <2>5, ReaderKept DEF vars
    <3> QED BY <3>1, <3>2, <3>3, <3>4 DEF IInv
  <2> QED BY <2>1, <2>2, <2>3, <2>4, <2>5 DEF Next
<1> QED BY <1>1, <1>2, PTL DEF Spec

\* The variables of the journal keep their types.
THEOREM TypesHold == Spec => []TypeOK
<1>1. IInv => TypeOK
  BY DEF IInv
<1> QED BY <1>1, IInvHolds, PTL

\* The file always parses: complete lines are numbered by their places, the torn
\* one is the next, whatever was cut short, lost or retried.
THEOREM FileParsesHolds == Spec => []FileParses
<1>1. IInv => FileParses
  BY DEF IInv
<1> QED BY <1>1, IInvHolds, PTL

\* What append or load reported is on the disk, but for adopted empty files.
THEOREM AckedIsDurableHolds == Spec => []AckedIsDurable
<1>1. IInv => AckedIsDurable
  BY DEF IInv
<1> QED BY <1>1, IInvHolds, PTL

\* The owner's memory is the file, short of at most the line in flight.
THEOREM MemoryIsTheFileHolds == Spec => []MemoryIsTheFile
<1>1. IInv => MemoryIsTheFile
  <2> SUFFICES ASSUME IInv, proc = "up" PROVE MemoryIsTheFile
    BY DEF MemoryIsTheFile
  <2>1. /\ mem \in Seq(Record) /\ new \in Record /\ Len(mem) \in Nat
        /\ pc \in [Threads -> {"idle", "write", "half", "sync", "name"}]
    BY LenProperties DEF IInv, TypeOK
  <2>2. lines = mem \/ lines = Append(mem, new)
    <3>1. CASE pc = Idle
      BY <3>1 DEF IInv, Resting
    <3>2. CASE pc # Idle
      <4>1. PICK t \in Threads : pc[t] # "idle"
        BY <2>1, <3>2 DEF Idle
      <4> QED BY <2>1, <4>1 DEF IInv, Appending
    <3> QED BY <3>1, <3>2
  <2>3. Len(mem) <= Len(lines) /\ Len(lines) <= Len(mem) + 1
    BY <2>1, <2>2, Appended
  <2>4. mem = SubSeq(lines, 1, Len(mem))
    BY <2>1, <2>2, Appended, SubSeqFull
  <2>5. ~poisoned /\ pc = Idle => lines = mem /\ torn = <<>>
    BY DEF IInv, Resting
  <2> QED BY <2>3, <2>4, <2>5 DEF MemoryIsTheFile
<1> QED BY <1>1, IInvHolds, PTL

\* A client of the dashboard is sent every position once and in order.
THEOREM TailInOrderHolds == Spec => []TailInOrder
<1>1. ReaderInv => TailInOrder
  BY DEF ReaderInv
<1> QED BY <1>1, IInvHolds, PTL

-----------------------------------------------------------------------------
(* The journal implements DurableLog.                                      *)

\* What the log of DurableLog is promised.
promise == IF adopted THEN 0 ELSE acked

\* While the lines stay, a promise that does not shrink is a step of the log.
LEMMA LinesKept ==
  ASSUME UNCHANGED lines, promise' \in promise..Len(lines)
  PROVE  [Log!Next]_(Log!vars)
BY DEF promise, Log!Next, Log!Promise, Log!vars

\* Every step of the journal is a step of the log or leaves it alone.
LEMMA LogStep ==
  ASSUME IInv, IInv', [Next]_vars
  PROVE  [Log!Next]_(Log!vars)
<1>0. /\ lines \in Seq(Record) /\ Len(lines) \in Nat
      /\ promise \in 0..Len(lines) /\ acked \in 0..Len(lines) /\ acked' \in 0..Len(lines')
      /\ adopted \in BOOLEAN /\ adopted' \in BOOLEAN
  BY LenProperties DEF IInv, TypeOK, promise
<1> HIDE DEF IInv
<1>1. CASE UNCHANGED <<lines, acked, adopted>>
  <2>1. promise' = promise
    BY <1>1 DEF promise
  <2> QED BY <1>0, <1>1, <2>1, LinesKept
<1>2. CASE StartEmpty
  <2>1. lines = <<>> /\ UNCHANGED <<lines, acked>>
    BY <1>2 DEF StartEmpty, file
  <2>2. promise' = promise
    BY <1>0, <2>1, NoRecords DEF promise
  <2> QED BY <1>0, <2>1, <2>2, LinesKept
<1>3. CASE NameLoaded
  <2>1. mem = lines
    BY <1>3 DEF NameLoaded, IInv, Starting
  <2>2. UNCHANGED lines /\ promise' = Len(lines)
    BY <1>3, <2>1 DEF NameLoaded, promise
  <2> QED BY <1>0, <2>2, LinesKept
<1>4. ASSUME NEW t \in Threads, WriteRest(t)
      PROVE  [Log!Next]_(Log!vars)
  <2>1. lines = mem /\ torn = <<new>> /\ new \in Record /\ lines' = lines \o torn
        /\ UNCHANGED <<acked, adopted>>
    BY <1>4 DEF WriteRest, IInv, Appending, TypeOK
  <2>2. lines' = Append(lines, new)
    BY <1>0, <2>1, Appended
  <2>3. Len(lines') = Len(lines) + 1 /\ SubSeq(lines', 1, Len(lines)) = lines
    BY <1>0, <2>1, <2>2, Appended
  <2> QED BY <2>1, <2>3 DEF Log!Next, Log!Add
<1>5. ASSUME NEW t \in Threads, SyncFile(t) \/ SyncDirectory(t)
      PROVE  [Log!Next]_(Log!vars)
  <2>1. Acknowledge(t) /\ pc[t] \in {"sync", "name"}
    BY <1>5 DEF SyncFile, SyncDirectory
  <2>2. /\ lines = Append(mem, new) /\ mem \in Seq(Record) /\ new \in Record
    BY <2>1 DEF IInv, Appending, TypeOK
  <2>3. /\ UNCHANGED <<lines, adopted>> /\ acked' = Len(lines)
    BY <2>1, <2>2, Appended DEF Acknowledge
  <2>4. promise' \in promise..Len(lines)
    BY <1>0, <2>3 DEF promise
  <2> QED BY <2>3, <2>4, LinesKept
<1>6. CASE LoseTail
  <2>1. PICK n \in synced..Len(lines) : lines' = SubSeq(lines, 1, n)
    BY <1>6 DEF LoseTail
  <2>2. UNCHANGED <<acked, adopted, synced>> /\ synced \in 0..Len(lines)
    BY <1>6 DEF LoseTail, PowerFails, IInv, TypeOK
  <2>3. acked > 0 => acked <= synced
    BY DEF IInv, AckedIsDurable
  <2>4. n \in promise..Len(lines)
    BY <1>0, <2>2, <2>3 DEF promise
  <2> QED BY <2>1, <2>2, <2>4 DEF promise, Log!Next, Log!Lose
<1>7. CASE LoseFile
  <2>1. ~named /\ lines' = <<>> /\ acked' = 0 /\ UNCHANGED adopted
    BY <1>7 DEF LoseFile, PowerFails
  <2>2. acked > 0 => adopted
    BY <2>1 DEF IInv, AckedIsDurable
  <2>3. promise = 0 /\ promise' = 0
    BY <1>0, <2>1, <2>2 DEF promise
  <2>4. lines' = SubSeq(lines, 1, 0) /\ 0 \in promise..Len(lines)
    BY <1>0, <2>1, <2>3, SubSeqEmpty
  <2> QED BY <2>3, <2>4 DEF promise, Log!Next, Log!Lose
<1>8. CASE Next
  <2>1. CASE StartLoad \/ Repair
    BY <1>1, <2>1 DEF StartLoad, Repair, file
  <2>2. CASE \E t \in Threads : AppendStep(t) \/ AppendFails(t) \/ OpenFails(t)
    <3> PICK t \in Threads : AppendStep(t) \/ AppendFails(t) \/ OpenFails(t)
      BY <2>2
    <3>1. CASE \/ BeginAppend(t) \/ WriteHalf(t) \/ SyncNewFile(t)
               \/ AppendFails(t) \/ OpenFails(t)
      BY <1>1, <3>1 DEF BeginAppend, WriteHalf, SyncNewFile, AppendFails, OpenFails, file
    <3> QED BY <1>4, <1>5, <3>1 DEF AppendStep
  <2>3. CASE Crash \/ Poll \/ Reconnect
    BY <1>1, <2>3 DEF Crash, Poll, Reconnect, file
  <2> QED BY <1>2, <1>3, <1>6, <1>7, <1>8, <2>1, <2>2, <2>3 DEF Next, Load
<1>9. CASE UNCHANGED vars
  BY <1>1, <1>9 DEF vars, file
<1> QED BY <1>8, <1>9

\* Over crashes, power failures and poisoned owners the file is a log that keeps
\* what it promised.
THEOREM ImplementsLogHolds == Spec => ImplementsLog
<1>1. Init => Log!Init
  BY DEF Init, Log!Init
<1>2. IInv /\ IInv' /\ [Next]_vars => [Log!Next]_(Log!vars)
  BY LogStep
<1> QED BY <1>1, <1>2, IInvHolds, PTL DEF Spec, ImplementsLog, Log!Spec
=============================================================================
