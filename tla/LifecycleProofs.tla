-------------------------- MODULE LifecycleProofs --------------------------
(***************************************************************************)
(* A run has one owner at a time and one answer to a question: proved for  *)
(* any number of processes, questions, answers and crashes.  All of it     *)
(* rests on the lock: who is past its acquisition has it, so whoever adds  *)
(* to the journal knows all of it.                                         *)
(***************************************************************************)
EXTENDS Lifecycle, SequenceTheorems, TLAPS

Event == [seq : Nat, kind : Kinds, q : Questions \cup {None}, text : Procs \cup {None}]

\* Places behind the opening of the run, and all places that need the lock.
Opened == {"choose", "link", "drive", "stopping", "complete"}
Holding == Opened \cup {"probing", "meta", "job", "load", "open"}

\* Who is at such a place has the lock, and so is alone.
Exclusive == \A p \in Procs : pc[p] \in Holding => lock = p

\* The owner of the run has folded all of its journal.
Abreast ==
  \A p \in Procs :
    /\ pc[p] \in Opened => log # <<>> /\ mem[p] = Len(log)
    /\ pc[p] = "open" => log = <<>> /\ mem[p] = 0
    /\ pc[p] \in Opened \cup {"job", "load", "open"} => meta
    /\ pc[p] = "stopping" => ~Finished
    /\ pc[p] = "complete" => Finished

\* Threads wait for pending questions only, and there are none in a finished run.
Waiting ==
  /\ live \subseteq Pending
  /\ Recorded("asked") \subseteq Questions
  /\ Settled \subseteq Recorded("asked")
  /\ Finished => Pending = {}

\* The journal repeats the answer file.
Repeated ==
  \A i \in DOMAIN log :
    log[i].kind = "answered" =>
      log[i].q \in Questions /\ log[i].text = files[log[i].q] /\ log[i].text # None

\* Who was told that it answered wrote the file, and selects no other question.
Given ==
  \A p \in Procs :
    /\ pc[p] \in {"delivering", "link"} => target[p] \in Questions
    /\ told[p] \in {"delivered", "answered"} =>
         /\ target[p] \in Questions /\ files[target[p]] = p
         /\ pc[p] \in {"drive", "stopping", "complete", "ended"}

\* The inductive invariant of a run and the processes around it.
IInv ==
  /\ TypeOK /\ Exclusive /\ Abreast /\ LogIsContiguous
  /\ Waiting /\ Repeated /\ Given

-----------------------------------------------------------------------------
(* What a record adds to the journal and to its fold. *)

\* The log after a record.
LEMMA LogGrows ==
  ASSUME TypeOK, NEW p \in Procs, NEW kind \in Kinds,
         NEW q \in Questions \cup {None}, NEW text \in Procs \cup {None},
         Record(p, kind, q, text)
  PROVE  /\ log' \in Seq(Event) /\ Len(log') = Len(log) + 1
         /\ \A i \in 1..Len(log) : log'[i] = log[i]
         /\ log'[Len(log) + 1] = [seq |-> mem[p], kind |-> kind, q |-> q, text |-> text]
         /\ mem' \in [Procs -> Nat] /\ mem' = [mem EXCEPT ![p] = mem[p] + 1]
<1> DEFINE e == [seq |-> mem[p], kind |-> kind, q |-> q, text |-> text]
<1>1. log \in Seq(Event) /\ mem \in [Procs -> Nat]
  BY DEF TypeOK, Event
<1>2. e \in Event
  BY <1>1 DEF Event
<1>3. log' = Append(log, e) /\ mem' = [mem EXCEPT ![p] = mem[p] + 1]
  BY DEF Record
<1> HIDE DEF e
<1>4. /\ Append(log, e) \in Seq(Event) /\ Len(Append(log, e)) = Len(log) + 1
      /\ \A i \in 1..Len(log) : Append(log, e)[i] = log[i]
      /\ Append(log, e)[Len(log) + 1] = e
  BY <1>1, <1>2, AppendProperties
<1>5. mem' \in [Procs -> Nat]
  BY <1>1, <1>3
<1> QED BY <1>3, <1>4, <1>5 DEF e

\* The fold after a record.
LEMMA FoldGrows ==
  ASSUME TypeOK, NEW p \in Procs, NEW kind \in Kinds,
         NEW q \in Questions \cup {None}, NEW text \in Procs \cup {None},
         Record(p, kind, q, text)
  PROVE  /\ Recorded(kind)' = Recorded(kind) \cup {q}
         /\ \A k \in Kinds \ {kind} : Recorded(k)' = Recorded(k)
         /\ Finished' <=> (Finished \/ kind = "finished")
<1> DEFINE n == Len(log) + 1
<1>1. /\ DOMAIN log = 1..Len(log) /\ DOMAIN log' = 1..n /\ Len(log) \in Nat
      /\ \A i \in DOMAIN log : log'[i] = log[i] /\ i \in DOMAIN log'
      /\ n \in DOMAIN log' /\ log'[n].q = q /\ log'[n].kind = kind
      /\ \A i \in DOMAIN log' : i \in DOMAIN log \/ i = n
  <2>1. log \in Seq(Event) /\ log' \in Seq(Event) /\ Len(log') = n
    BY LogGrows DEF TypeOK, Event
  <2>2. DOMAIN log = 1..Len(log) /\ DOMAIN log' = 1..n /\ Len(log) \in Nat
    BY <2>1, LenProperties
  <2>3. /\ \A i \in 1..Len(log) : log'[i] = log[i]
        /\ log'[n] = [seq |-> mem[p], kind |-> kind, q |-> q, text |-> text]
    BY LogGrows
  <2>4. log'[n].q = q /\ log'[n].kind = kind
    BY <2>3
  <2>5. n \in DOMAIN log' /\ \A i \in DOMAIN log' : i \in DOMAIN log \/ i = n
    BY <2>2
  <2>6. \A i \in DOMAIN log : log'[i] = log[i] /\ i \in DOMAIN log'
    BY <2>2, <2>3
  <2> QED BY <2>2, <2>4, <2>5, <2>6
<1> HIDE DEF n
<1>2. Recorded(kind)' = Recorded(kind) \cup {q}
  BY <1>1 DEF Recorded
<1>3. ASSUME NEW k \in Kinds \ {kind} PROVE Recorded(k)' = Recorded(k)
  BY <1>1 DEF Recorded
<1>4. Finished' <=> (Finished \/ kind = "finished")
  BY <1>1 DEF Finished
<1> QED BY <1>2, <1>3, <1>4

\* A step that leaves the log alone leaves its fold alone.
LEMMA FoldKept ==
  ASSUME UNCHANGED log
  PROVE  /\ \A k \in Kinds : Recorded(k)' = Recorded(k)
         /\ Settled' = Settled /\ Pending' = Pending /\ Finished' = Finished
BY DEF Recorded, Settled, Pending, Finished, Kinds

-----------------------------------------------------------------------------
(* The invariant is inductive. *)

LEMMA InitIInv == Init => IInv
<1> SUFFICES ASSUME Init PROVE IInv
  OBVIOUS
<1>1. log = <<>> /\ Len(log) = 0 /\ DOMAIN log = {} /\ log \in Seq(Event)
  BY EmptySeq DEF Init
<1>2. (\A k \in Kinds : Recorded(k) = {}) /\ ~Finished
  BY <1>1 DEF Recorded, Finished
<1>3. TypeOK
  BY <1>1, ConstantsAssumption DEF Init, TypeOK, Event, ConstantsAssumption
<1>4. Exclusive /\ Abreast /\ Given
  BY ConstantsAssumption
  DEF Init, Exclusive, Abreast, Given, Opened, Holding, ConstantsAssumption
<1>5. LogIsContiguous /\ Repeated
  BY <1>1 DEF Init, LogIsContiguous, Repeated
<1>6. Waiting
  BY <1>2 DEF Init, Waiting, Settled, Pending, Kinds
<1> QED BY <1>3, <1>4, <1>5, <1>6 DEF IInv

\* What a step that adds nothing to the journal still has to show.
LEMMA Quiet ==
  ASSUME IInv, UNCHANGED log, meta => meta', completed' => Finished,
         live' \subseteq Pending,
         \A q \in Questions : files[q] # None => files'[q] = files[q],
         TypeOK', Exclusive', Abreast', Given'
  PROVE  IInv'
<1>1. LogIsContiguous'
  <2>1. LogIsContiguous
    BY DEF IInv
  <2> QED BY <2>1, FoldKept DEF LogIsContiguous
<1>2. Waiting'
  <2>1. Waiting
    BY DEF IInv
  <2> QED BY <2>1, FoldKept DEF Waiting, Kinds
<1>3. Repeated'
  BY DEF IInv, Repeated
<1> QED BY <1>1, <1>2, <1>3 DEF IInv

\* What a step of p still has to show of the lock ...
LEMMA LockKept ==
  ASSUME IInv, NEW p \in Procs,
         \A r \in Procs \ {p} : pc'[r] = pc[r],
         lock' = lock \/ lock \in {None, p},
         pc'[p] \in Holding => lock' = p
  PROVE  Exclusive'
<1> SUFFICES ASSUME NEW r \in Procs, pc'[r] \in Holding PROVE lock' = r
  BY DEF Exclusive
<1>1. CASE r = p
  BY <1>1
<1>2. CASE r # p
  <2>1. lock = r
    BY <1>2 DEF IInv, Exclusive
  <2>2. lock # p /\ lock # None
    BY <1>2, <2>1, ConstantsAssumption DEF ConstantsAssumption
  <2> QED BY <2>1, <2>2
<1> QED BY <1>1, <1>2

\* ... and of the answers that were given.
Honest(r) ==
  /\ pc[r] \in {"delivering", "link"} => target[r] \in Questions
  /\ told[r] \in {"delivered", "answered"} =>
       /\ target[r] \in Questions /\ files[target[r]] = r
       /\ pc[r] \in {"drive", "stopping", "complete", "ended"}

LEMMA AnswersKept ==
  ASSUME IInv, NEW p \in Procs,
         \A r \in Procs \ {p} :
           pc'[r] = pc[r] /\ told'[r] = told[r] /\ target'[r] = target[r],
         \A q \in Questions : files[q] # None => files'[q] = files[q],
         Honest(p)'
  PROVE  Given'
<1> SUFFICES ASSUME NEW r \in Procs PROVE Honest(r)'
  BY DEF Given, Honest
<1>1. Honest(r) /\ r # None
  BY ConstantsAssumption DEF IInv, Given, Honest, ConstantsAssumption
<1>2. CASE r = p
  BY <1>2
<1>3. CASE r # p
  <2>1. pc'[r] = pc[r] /\ told'[r] = told[r] /\ target'[r] = target[r]
    BY <1>3
  <2>2. target[r] \in Questions /\ files[target[r]] = r =>
          files'[target[r]] = r
    BY <1>1
  <2> QED BY <1>1, <2>1, <2>2 DEF Honest
<1> QED BY <1>2, <1>3

Places == {"probe", "probing", "reading", "delivering", "construct", "meta", "job",
           "load", "open", "choose", "link", "drive", "stopping", "complete", "ended"}
Reports == {"nothing", "not live", "refused", "delivered", "answered", "locked out",
            "interrupted", "completed"}

\* Deliver: a probe of the lock, and an answer for a run that is taken to be live.
LEMMA DeliverStep ==
  ASSUME IInv, NEW p \in Procs, Deliver(p)
  PROVE  IInv'
<1> USE DEF Deliver, ProbeFree, ProbeReleases, ProbeTaken, SelectLive, Select,
            SelectNone, DeliverLive, Goto, Exit
<1>1. None \notin Procs \cup Questions /\ TypeOK
  BY ConstantsAssumption DEF ConstantsAssumption, IInv
<1>2. UNCHANGED <<meta, job, log, completed, mem, live>>
  OBVIOUS
<1>3. Finished' = Finished
  BY <1>2, FoldKept
<1>4. /\ pc' \in [Procs -> Places] /\ told' \in [Procs -> Reports]
      /\ lock' \in Procs \cup {None} /\ files' \in [Questions -> Procs \cup {None}]
      /\ target' \in [Procs -> Questions \cup {None}]
  BY DEF IInv, TypeOK, Waiting, Pending, Places, Reports
<1>5. TypeOK'
  BY <1>1, <1>2, <1>4 DEF TypeOK, Places, Reports
<1>6. \A q \in Questions : files[q] # None => files'[q] = files[q]
  BY <1>1 DEF TypeOK, Unanswered
<1>7. \A r \in Procs \ {p} :
        pc'[r] = pc[r] /\ told'[r] = told[r] /\ target'[r] = target[r]
  BY <1>1 DEF TypeOK
<1>8. /\ lock' = lock \/ lock \in {None, p}
      /\ pc'[p] \in Holding => lock' = p
  BY <1>1 DEF TypeOK, IInv, Exclusive, Holding, Opened
<1>9. Abreast'
  <2>1. \E place \in {"probing", "reading", "delivering", "construct", "ended"} :
          Goto(p, place)
    OBVIOUS
  <2> HIDE DEF Deliver, Goto
  <2>2. Abreast
    BY DEF IInv
  <2>3. pc'[p] \in {"probing", "reading", "delivering", "construct", "ended"}
    BY <1>1, <2>1 DEF TypeOK, Goto
  <2> QED BY <1>1, <1>2, <1>3, <1>7, <2>2, <2>3 DEF TypeOK, Abreast, Opened
<1>10. Honest(p)'
  <2>1. Honest(p)
    BY DEF IInv, Given, Honest
  <2>2. CASE ProbeFree(p) \/ ProbeReleases(p) \/ ProbeTaken(p)
    BY <1>1, <2>1, <2>2 DEF TypeOK, Honest
  <2>3. CASE SelectLive(p)
    BY <1>1, <2>1, <2>3 DEF IInv, TypeOK, Waiting, Pending, Honest
  <2>4. CASE DeliverLive(p)
    BY <1>1, <2>1, <2>4 DEF TypeOK, Unanswered, Honest
  <2> QED BY <2>2, <2>3, <2>4
<1> HIDE DEF Deliver
<1> QED
  BY <1>2, <1>5, <1>6, <1>7, <1>8, <1>9, <1>10, LockKept, AnswersKept, Quiet
  DEF IInv, LogIsContiguous, Waiting

\* What Prepare does up to the first record and to the answer it carries.
Quietly(p) ==
  \/ Construct(p) \/ LockedOut(p) \/ WriteMeta(p) \/ WriteJob(p)
  \/ Load(p) \/ SelectOwned(p) \/ LinkOwned(p)

\* Prepare, without Open.
LEMMA PrepareStep ==
  ASSUME IInv, NEW p \in Procs, Quietly(p)
  PROVE  IInv'
<1> USE DEF Quietly, Construct, LockedOut, WriteMeta, WriteJob, Load, SelectOwned,
            LinkOwned, Select, SelectNone, Goto, Exit
<1>1. None \notin Procs \cup Questions /\ TypeOK
  BY ConstantsAssumption DEF ConstantsAssumption, IInv
<1>2. UNCHANGED <<log, completed, live>> /\ (meta => meta')
  <2>1. UNCHANGED <<log, completed, live>>
    OBVIOUS
  <2>2. UNCHANGED meta \/ meta' = TRUE
    OBVIOUS
  <2> HIDE DEF Quietly
  <2>3. meta => meta'
    BY <2>2, Zenon
  <2> QED BY <2>1, <2>3
<1>3. Finished' = Finished
  BY <1>2, FoldKept
<1>4. /\ pc' \in [Procs -> Places] /\ told' \in [Procs -> Reports]
      /\ lock' \in Procs \cup {None} /\ files' \in [Questions -> Procs \cup {None}]
      /\ target' \in [Procs -> Questions \cup {None}]
      /\ {meta', job'} \subseteq BOOLEAN /\ mem' \in [Procs -> Nat]
  <2>1. Len(log) \in Nat
    BY <1>1, LenProperties DEF TypeOK
  <2>2. mem' \in [Procs -> Nat]
    BY <1>1, <2>1 DEF TypeOK
  <2>3. pc' \in [Procs -> Places]
    BY <1>1 DEF TypeOK, Places
  <2>4. target' \in [Procs -> Questions \cup {None}]
    BY <1>1 DEF IInv, TypeOK, Waiting, Pending
  <2>5. told' \in [Procs -> Reports] /\ lock' \in Procs \cup {None}
    BY <1>1 DEF TypeOK, Reports
  <2>6. files' \in [Questions -> Procs \cup {None}]
    BY <1>1 DEF TypeOK
  <2>7. {meta', job'} \subseteq BOOLEAN
    BY <1>1 DEF TypeOK
  <2> QED BY <2>2, <2>3, <2>4, <2>5, <2>6, <2>7
<1>5. TypeOK'
  BY <1>1, <1>2, <1>4 DEF TypeOK, Places, Reports
<1>6. \A q \in Questions : files[q] # None => files'[q] = files[q]
  BY <1>1 DEF TypeOK, Unanswered
<1>7. \A r \in Procs \ {p} :
        /\ pc'[r] = pc[r] /\ told'[r] = told[r] /\ target'[r] = target[r]
        /\ mem'[r] = mem[r]
  BY <1>1 DEF TypeOK
<1>8. /\ lock' = lock \/ lock \in {None, p}
      /\ pc'[p] \in Holding => lock' = p
  BY <1>1 DEF TypeOK, IInv, Exclusive, Holding, Opened
<1>9. Abreast'
  <2> SUFFICES ASSUME NEW r \in Procs
               PROVE  /\ pc'[r] \in Opened => log # <<>> /\ mem'[r] = Len(log)
                      /\ pc'[r] = "open" => log = <<>> /\ mem'[r] = 0
                      /\ pc'[r] \in Opened \cup {"job", "load", "open"} => meta'
                      /\ pc'[r] = "stopping" => ~Finished
                      /\ pc'[r] = "complete" => Finished
    BY <1>2, <1>3 DEF Abreast
  <2>1. /\ pc[r] \in Opened => log # <<>> /\ mem[r] = Len(log)
        /\ pc[r] = "open" => log = <<>> /\ mem[r] = 0
        /\ pc[r] \in Opened \cup {"job", "load", "open"} => meta
        /\ pc[r] = "stopping" => ~Finished
        /\ pc[r] = "complete" => Finished
    BY DEF IInv, Abreast
  <2>2. CASE r = p
    <3>1. log = <<>> => Len(log) = 0
      BY EmptySeq
    <3> QED BY <1>1, <1>2, <2>1, <2>2, <3>1 DEF TypeOK, Opened
  <2>3. CASE r # p
    <3> HIDE DEF Quietly
    <3> QED BY <1>2, <1>7, <2>1, <2>3
  <2> QED BY <2>2, <2>3
<1>10. Honest(p)'
  <2>1. Honest(p)
    BY DEF IInv, Given, Honest
  <2>2. CASE SelectOwned(p)
    BY <1>1, <2>1, <2>2 DEF IInv, TypeOK, Waiting, Pending, Honest
  <2>3. CASE LinkOwned(p)
    BY <1>1, <2>1, <2>3 DEF TypeOK, Unanswered, Honest
  <2> QED BY <1>1, <2>1, <2>2, <2>3 DEF TypeOK, Honest
<1> HIDE DEF Quietly
<1> QED
  BY <1>2, <1>5, <1>6, <1>7, <1>8, <1>9, <1>10, LockKept, AnswersKept, Quiet
  DEF IInv, LogIsContiguous, Waiting

\* The ends of a drive that add nothing to the journal.
Ends(p) == Stop(p) \/ FindFinished(p) \/ Complete(p) \/ Crash(p)

LEMMA EndStep ==
  ASSUME IInv, NEW p \in Procs, Ends(p)
  PROVE  IInv'
<1> USE DEF Ends, Stop, FindFinished, Complete, Crash, Goto, Exit
<1>1. None \notin Procs \cup Questions /\ TypeOK
  BY ConstantsAssumption DEF ConstantsAssumption, IInv
<1>2. UNCHANGED <<meta, job, log, files, mem, target>>
  OBVIOUS
<1>3. Finished' = Finished
  BY <1>2, FoldKept
<1>4. /\ pc' \in [Procs -> Places] /\ told' \in [Procs -> Reports]
      /\ lock' \in Procs \cup {None} /\ completed' \in BOOLEAN
      /\ live' \subseteq live
  BY <1>1 DEF TypeOK, Places, Reports
<1>5. TypeOK'
  BY <1>1, <1>2, <1>4 DEF TypeOK, Places, Reports
<1>6. completed' => Finished
  BY <1>1 DEF IInv, Abreast, LogIsContiguous
<1>7. \A r \in Procs \ {p} : pc'[r] = pc[r] /\ told'[r] = told[r]
  BY <1>1 DEF TypeOK
<1>8. /\ lock' = lock \/ lock \in {None, p}
      /\ pc'[p] \in Holding => lock' = p
  BY <1>1 DEF TypeOK, IInv, Exclusive, Holding, Opened
<1>9. Abreast'
  BY <1>1, <1>2, <1>3 DEF IInv, TypeOK, Abreast, Opened
<1>10. Honest(p)'
  <2>1. Honest(p)
    BY DEF IInv, Given, Honest
  <2> QED BY <1>1, <2>1 DEF TypeOK, Honest
<1> HIDE DEF Ends
<1> QED
  BY <1>2, <1>4, <1>5, <1>6, <1>7, <1>8, <1>9, <1>10, LockKept, AnswersKept, Quiet
  DEF IInv, Waiting

\* What a record makes of the questions.
LEMMA QuestionsGrow ==
  ASSUME TypeOK, NEW p \in Procs, NEW kind \in Kinds,
         NEW q \in Questions \cup {None}, NEW text \in Procs \cup {None},
         Record(p, kind, q, text)
  PROVE  /\ Recorded("asked")' =
              IF kind = "asked" THEN Recorded("asked") \cup {q} ELSE Recorded("asked")
         /\ Settled' =
              IF kind \in {"answered", "failed"} THEN Settled \cup {q} ELSE Settled
         /\ Pending' = Recorded("asked")' \ Settled'
         /\ Finished' <=> (Finished \/ kind = "finished")
<1>1. {"asked", "answered", "failed"} \subseteq Kinds
  BY DEF Kinds
<1>2. /\ Recorded(kind)' = Recorded(kind) \cup {q}
      /\ \A k \in Kinds \ {kind} : Recorded(k)' = Recorded(k)
      /\ Finished' <=> (Finished \/ kind = "finished")
  BY FoldGrows
<1>3. Recorded("asked")' =
        IF kind = "asked" THEN Recorded("asked") \cup {q} ELSE Recorded("asked")
  BY <1>1, <1>2
<1>4. Recorded("answered")' =
        IF kind = "answered" THEN Recorded("answered") \cup {q} ELSE Recorded("answered")
  BY <1>1, <1>2
<1>5. Recorded("failed")' =
        IF kind = "failed" THEN Recorded("failed") \cup {q} ELSE Recorded("failed")
  BY <1>1, <1>2
<1> QED BY <1>2, <1>3, <1>4, <1>5 DEF Settled, Pending

\* A record of the lock's owner, and what it still has to show.
LEMMA Recording ==
  ASSUME IInv, NEW p \in Procs, NEW kind \in Kinds,
         NEW q \in Questions \cup {None}, NEW text \in Procs \cup {None},
         Record(p, kind, q, text),
         pc[p] \in Holding, mem[p] = Len(log), meta, ~Finished,
         kind = "opened" <=> log = <<>>,
         kind = "answered" => q \in Questions /\ text = files[q] /\ text # None,
         UNCHANGED <<meta, completed, files>>,
         \A r \in Procs \ {p} : pc'[r] = pc[r],
         pc'[p] \in {"choose", "drive", "stopping", "complete", "ended"},
         pc'[p] = "stopping" => kind # "finished",
         pc'[p] = "complete" => kind = "finished"
  PROVE  LogIsContiguous' /\ Repeated' /\ Abreast'
<1> DEFINE n == Len(log) + 1
<1>1. /\ log' \in Seq(Event) /\ Len(log') = n
      /\ \A i \in 1..Len(log) : log'[i] = log[i]
      /\ log'[n] = [seq |-> mem[p], kind |-> kind, q |-> q, text |-> text]
      /\ mem' \in [Procs -> Nat] /\ mem' = [mem EXCEPT ![p] = mem[p] + 1]
  BY LogGrows DEF IInv
<1>2. Len(log) \in Nat /\ DOMAIN log = 1..Len(log) /\ DOMAIN log' = 1..n
  BY <1>1, LenProperties DEF IInv, TypeOK
<1>3. Finished' <=> kind = "finished"
  BY FoldGrows DEF IInv
<1>4. /\ log'[n].seq = n - 1 /\ log'[n].kind = kind
      /\ log'[n].q = q /\ log'[n].text = text
  BY <1>1, <1>2
<1>5. log' # <<>> /\ (log = <<>> <=> n = 1)
  <2>1. log \in Seq(Event)
    BY DEF IInv, TypeOK, Event
  <2>2. (log = <<>> <=> Len(log) = 0) /\ (log' = <<>> <=> Len(log') = 0)
    BY <1>1, <2>1, EmptySeq
  <2> QED BY <1>1, <1>2, <2>2
<1>6. LogIsContiguous /\ \A i \in DOMAIN log : log[i].kind # "finished"
  BY DEF IInv, Finished
<1> HIDE DEF n
<1>7. \A i \in DOMAIN log' : i = n \/ (i \in DOMAIN log /\ i < n /\ log'[i] = log[i])
  BY <1>1, <1>2 DEF n
<1>8. LogIsContiguous'
  <2>1. \A i \in DOMAIN log' : log'[i].seq = i - 1
    BY <1>4, <1>6, <1>7 DEF LogIsContiguous
  <2>2. \A i \in DOMAIN log' : log'[i].kind = "opened" <=> i = 1
    <3>1. \A i \in DOMAIN log : log[i].kind = "opened" <=> i = 1
      BY <1>6 DEF LogIsContiguous
    <3> QED BY <1>4, <1>5, <1>7, <3>1
  <2>3. \A i \in DOMAIN log' : log'[i].kind = "finished" => i = Len(log')
    BY <1>1, <1>6, <1>7 DEF n
  <2>4. ~completed
    BY <1>6 DEF LogIsContiguous
  <2> QED BY <2>1, <2>2, <2>3, <2>4 DEF LogIsContiguous
<1>9. Repeated'
  <2>1. \A i \in DOMAIN log :
          log[i].kind = "answered" =>
            log[i].q \in Questions /\ log[i].text = files[log[i].q] /\ log[i].text # None
    BY DEF IInv, Repeated
  <2> QED BY <1>4, <1>7, <2>1 DEF Repeated
<1>10. Abreast'
  <2> SUFFICES ASSUME NEW r \in Procs
               PROVE  /\ pc'[r] \in Opened => log' # <<>> /\ mem'[r] = Len(log')
                      /\ pc'[r] = "open" => log' = <<>> /\ mem'[r] = 0
                      /\ pc'[r] \in Opened \cup {"job", "load", "open"} => meta'
                      /\ pc'[r] = "stopping" => ~Finished'
                      /\ pc'[r] = "complete" => Finished'
    BY DEF Abreast
  <2>1. CASE r = p
    <3>1. mem'[p] = Len(log')
      BY <1>1, <1>2 DEF n
    <3> QED BY <1>3, <1>5, <2>1, <3>1
  <2>2. CASE r # p
    <3>1. pc[r] \notin Holding
      BY <2>2 DEF IInv, Exclusive
    <3> QED BY <2>2, <3>1 DEF Holding, Opened
  <2> QED BY <2>1, <2>2
<1> QED BY <1>8, <1>9, <1>10

\* All that a step has to show that adds a record.
LEMMA RecordStep ==
  ASSUME IInv, NEW p \in Procs, NEW kind \in Kinds,
         NEW q \in Questions \cup {None}, NEW text \in Procs \cup {None},
         Record(p, kind, q, text),
         pc[p] \in Opened \cup {"open"}, ~Finished,
         kind = "opened" <=> pc[p] = "open",
         kind = "answered" => q \in Questions /\ text = files[q] /\ text # None,
         UNCHANGED <<meta, job, completed, files, target>>,
         \A r \in Procs \ {p} : pc'[r] = pc[r] /\ told'[r] = told[r],
         pc' \in [Procs -> Places], told' \in [Procs -> Reports],
         pc'[p] \in {"choose", "drive", "stopping", "complete", "ended"},
         pc'[p] = "stopping" => kind # "finished",
         pc'[p] = "complete" => kind = "finished",
         told'[p] = told[p] \/ told'[p] = "interrupted",
         pc'[p] = "choose" => pc[p] = "open",
         lock' = IF pc'[p] = "ended" THEN None ELSE lock,
         Waiting', live' \subseteq Questions
  PROVE  IInv'
<1>1. lock = p
  BY DEF IInv, Exclusive, Holding
<1>2. mem[p] = Len(log) /\ meta /\ (pc[p] = "open" <=> log = <<>>)
  <2>1. Len(<<>>) = 0
    OBVIOUS
  <2> QED BY <2>1 DEF IInv, Abreast, Opened
<1>3. LogIsContiguous' /\ Repeated' /\ Abreast'
  BY <1>2, Recording DEF Holding, Opened
<1>4. TypeOK'
  <2>1. log' \in Seq(Event) /\ mem' \in [Procs -> Nat]
    BY LogGrows DEF IInv
  <2>2. lock' \in Procs \cup {None}
    BY <1>1
  <2>3. TypeOK
    BY DEF IInv
  <2> QED BY <2>1, <2>2, <2>3 DEF TypeOK, Event, Places, Reports
<1>5. Exclusive'
  <2>1. pc'[p] \in Holding => lock' = p
    BY <1>1 DEF Holding, Opened
  <2> QED BY <1>1, <2>1, LockKept
<1>6. Given'
  <2>1. Honest(p)
    BY DEF IInv, Given, Honest
  <2>2. Honest(p)'
    BY <2>1 DEF Honest, Opened
  <2> QED BY <2>2, AnswersKept
<1> QED BY <1>3, <1>4, <1>5, <1>6 DEF IInv

\* Open: there is no question yet.
LEMMA OpenStep ==
  ASSUME IInv, NEW p \in Procs, Open(p)
  PROVE  IInv'
<1>1. None \notin Procs \cup Questions /\ TypeOK /\ "opened" \in Kinds
  BY ConstantsAssumption DEF ConstantsAssumption, IInv, Kinds
<1>2. /\ pc[p] = "open" /\ Record(p, "opened", None, None)
      /\ pc' = [pc EXCEPT ![p] = IF Role[p] = "answer" THEN "choose" ELSE "drive"]
      /\ UNCHANGED <<meta, job, files, completed, lock, live, target, told>>
  BY DEF Open, Goto
<1>3. log = <<>> /\ ~Finished
  <2>1. log = <<>>
    BY <1>2 DEF IInv, Abreast
  <2>2. DOMAIN log = {}
    BY <2>1, EmptySeq
  <2> QED BY <2>1, <2>2 DEF Finished
<1>4. /\ pc' \in [Procs -> Places] /\ pc'[p] \in {"choose", "drive"}
      /\ \A r \in Procs \ {p} : pc'[r] = pc[r]
  BY <1>1, <1>2 DEF TypeOK, Places
<1>5. Waiting'
  <2>1. /\ Recorded("asked")' = Recorded("asked") /\ Settled' = Settled
        /\ Pending' = Recorded("asked")' \ Settled' /\ ~Finished'
    BY <1>1, <1>2, <1>3, QuestionsGrow
  <2>2. Pending' = Pending
    BY <2>1 DEF Pending
  <2> QED BY <1>2, <2>1, <2>2 DEF IInv, Waiting
<1>6. told' \in [Procs -> Reports] /\ live' \subseteq Questions
  BY <1>1, <1>2 DEF TypeOK, Reports
<1> QED BY <1>1, <1>2, <1>3, <1>4, <1>5, <1>6, RecordStep

\* Ask, Answered, FailAsk: the questions of a run that is driven.
Questioning(p, q) == Ask(p, q) \/ Answered(p, q) \/ FailAsk(p, q)

LEMMA QuestionStep ==
  ASSUME IInv, NEW p \in Procs, NEW q \in Questions, Questioning(p, q)
  PROVE  IInv'
<1>1. /\ None \notin Procs \cup Questions /\ TypeOK /\ Waiting
      /\ {"asked", "answered", "failed"} \subseteq Kinds
  BY ConstantsAssumption DEF ConstantsAssumption, IInv, Kinds
<1>2. /\ pc[p] \in {"drive", "stopping"} /\ pc[p] \in Opened
      /\ UNCHANGED <<meta, job, files, completed, lock, pc, target, told>>
  BY DEF Questioning, Ask, Answered, FailAsk, Opened
<1>3. /\ pc' \in [Procs -> Places] /\ told' \in [Procs -> Reports]
      /\ pc'[p] \in {"drive", "stopping"}
  BY <1>1, <1>2 DEF TypeOK, Places, Reports
<1>4. CASE Ask(p, q)
  <2>1. /\ ~Finished /\ q \notin Recorded("asked")
        /\ Record(p, "asked", q, None) /\ live' = live \cup {q}
    BY <1>4 DEF Ask
  <2>2. Waiting'
    <3>1. /\ Recorded("asked")' = Recorded("asked") \cup {q} /\ Settled' = Settled
          /\ Pending' = Recorded("asked")' \ Settled' /\ ~Finished'
      BY <1>1, <2>1, QuestionsGrow
    <3> QED BY <1>1, <2>1, <3>1 DEF Waiting, Pending
  <2>3. live' \subseteq Questions
    BY <1>1, <2>1 DEF TypeOK
  <2> QED BY <1>1, <1>2, <1>3, <2>1, <2>2, <2>3, RecordStep
<1>5. CASE Answered(p, q)
  <2>1. /\ q \in live /\ files[q] # None /\ files[q] \in Procs \cup {None}
        /\ Record(p, "answered", q, files[q]) /\ live' = live \ {q}
    BY <1>1, <1>5 DEF Answered, Notices, TypeOK
  <2>2. q \in Pending /\ ~Finished
    BY <1>1, <2>1 DEF Waiting
  <2>3. Waiting'
    <3>1. /\ Recorded("asked")' = Recorded("asked") /\ Settled' = Settled \cup {q}
          /\ Pending' = Recorded("asked")' \ Settled' /\ ~Finished'
      BY <1>1, <2>1, <2>2, QuestionsGrow
    <3> QED BY <1>1, <2>1, <2>2, <3>1 DEF Waiting, Pending
  <2>4. live' \subseteq Questions
    BY <1>1, <2>1 DEF TypeOK
  <2> QED BY <1>1, <1>2, <1>3, <2>1, <2>2, <2>3, <2>4, RecordStep
<1>6. CASE FailAsk(p, q)
  <2>1. q \in live /\ Record(p, "failed", q, None) /\ live' = live \ {q}
    BY <1>6 DEF FailAsk
  <2>2. q \in Pending /\ ~Finished
    BY <1>1, <2>1 DEF Waiting
  <2>3. Waiting'
    <3>1. /\ Recorded("asked")' = Recorded("asked") /\ Settled' = Settled \cup {q}
          /\ Pending' = Recorded("asked")' \ Settled' /\ ~Finished'
      BY <1>1, <2>1, <2>2, QuestionsGrow
    <3> QED BY <1>1, <2>1, <2>2, <3>1 DEF Waiting, Pending
  <2>4. live' \subseteq Questions
    BY <1>1, <2>1 DEF TypeOK
  <2> QED BY <1>1, <1>2, <1>3, <2>1, <2>2, <2>3, <2>4, RecordStep
<1> QED BY <1>4, <1>5, <1>6 DEF Questioning

\* Interrupt, Finish: the last record of a drive.
Closing(p) == Interrupt(p) \/ Finish(p)

LEMMA CloseStep ==
  ASSUME IInv, NEW p \in Procs, Closing(p)
  PROVE  IInv'
<1>1. /\ None \notin Procs \cup Questions /\ TypeOK /\ Waiting
      /\ {"interrupted", "finished"} \subseteq Kinds
  BY ConstantsAssumption DEF ConstantsAssumption, IInv, Kinds
<1>2. /\ pc[p] \in {"drive", "stopping"} /\ pc[p] \in Opened
      /\ UNCHANGED <<meta, job, files, completed, live, target>>
  BY DEF Closing, Interrupt, Finish, Exit, Goto, Opened
<1>3. live' \subseteq Questions /\ lock = p
  BY <1>1, <1>2 DEF TypeOK, IInv, Exclusive, Holding
<1>4. CASE Interrupt(p)
  <2>1. /\ pc[p] = "stopping" /\ Record(p, "interrupted", None, None)
        /\ pc' = [pc EXCEPT ![p] = "ended"] /\ lock' = None
        /\ told' = [told EXCEPT ![p] =
                      IF told[p] = "nothing" THEN "interrupted" ELSE told[p]]
    BY <1>3, <1>4 DEF Interrupt, Exit, Goto
  <2>2. /\ pc' \in [Procs -> Places] /\ told' \in [Procs -> Reports]
        /\ pc'[p] = "ended" /\ (told'[p] = told[p] \/ told'[p] = "interrupted")
        /\ \A r \in Procs \ {p} : pc'[r] = pc[r] /\ told'[r] = told[r]
    BY <1>1, <2>1 DEF TypeOK, Places, Reports
  <2>3. ~Finished
    BY <2>1 DEF IInv, Abreast
  <2>4. Waiting'
    <3>1. /\ Recorded("asked")' = Recorded("asked") /\ Settled' = Settled
          /\ Pending' = Recorded("asked")' \ Settled' /\ ~Finished'
      BY <1>1, <2>1, <2>3, QuestionsGrow
    <3>2. Pending' = Pending
      BY <3>1 DEF Pending
    <3> QED BY <1>1, <1>2, <3>1, <3>2 DEF Waiting
  <2> QED BY <1>1, <1>2, <1>3, <2>1, <2>2, <2>3, <2>4, RecordStep
<1>5. CASE Finish(p)
  <2>1. /\ ~Finished /\ Pending = {} /\ Record(p, "finished", None, None)
        /\ pc' = [pc EXCEPT ![p] = "complete"] /\ UNCHANGED <<lock, told>>
    BY <1>5 DEF Finish, Goto
  <2>2. /\ pc' \in [Procs -> Places] /\ told' \in [Procs -> Reports]
        /\ pc'[p] = "complete" /\ told'[p] = told[p]
        /\ \A r \in Procs \ {p} : pc'[r] = pc[r] /\ told'[r] = told[r]
    BY <1>1, <2>1 DEF TypeOK, Places, Reports
  <2>3. Waiting'
    <3>1. /\ Recorded("asked")' = Recorded("asked") /\ Settled' = Settled
          /\ Pending' = Recorded("asked")' \ Settled'
      BY <1>1, <2>1, QuestionsGrow
    <3>2. Pending' = Pending
      BY <3>1 DEF Pending
    <3> QED BY <1>1, <1>2, <2>1, <3>1, <3>2 DEF Waiting
  <2> QED BY <1>1, <1>2, <1>3, <2>1, <2>2, <2>3, RecordStep
<1> QED BY <1>4, <1>5 DEF Closing

\* Replay: a frame of a resumed run waits again.
LEMMA ReplayStep ==
  ASSUME IInv, NEW p \in Procs, NEW q \in Questions, Replay(p, q)
  PROVE  IInv'
<1>1. /\ q \in Pending /\ live' = live \cup {q}
      /\ UNCHANGED <<meta, job, log, files, completed, lock, pc, mem, target, told>>
  BY DEF Replay
<1>2. live' \subseteq Pending /\ live' \subseteq Questions /\ (completed => Finished)
  BY <1>1 DEF IInv, Waiting, TypeOK, LogIsContiguous
<1>3. TypeOK' /\ Exclusive' /\ Given'
  BY <1>1, <1>2 DEF IInv, TypeOK, Exclusive, Given
<1>4. Abreast'
  BY <1>1, FoldKept DEF IInv, Abreast
<1> QED BY <1>1, <1>2, <1>3, <1>4, Quiet

\* Every step preserves the invariant.
LEMMA NextIInv == IInv /\ [Next]_vars => IInv'
<1> SUFFICES ASSUME IInv, [Next]_vars PROVE IInv'
  OBVIOUS
<1>1. CASE UNCHANGED vars
  <2>1. UNCHANGED <<meta, job, log, files, completed, lock, pc, mem, live, target, told>>
    BY <1>1 DEF vars
  <2>2. live' \subseteq Pending /\ (completed => Finished)
    BY <2>1 DEF IInv, Waiting, LogIsContiguous
  <2>3. TypeOK' /\ Exclusive' /\ Given'
    BY <2>1 DEF IInv, TypeOK, Exclusive, Given
  <2>4. Abreast'
    BY <2>1, FoldKept DEF IInv, Abreast
  <2> QED BY <2>1, <2>2, <2>3, <2>4, Quiet
<1>2. ASSUME NEW p \in Procs, Deliver(p) PROVE IInv'
  BY <1>2, DeliverStep
<1>3. ASSUME NEW p \in Procs, Prepare(p) PROVE IInv'
  BY <1>3, PrepareStep, OpenStep DEF Prepare, Quietly
<1>4. ASSUME NEW p \in Procs, Drive(p) PROVE IInv'
  BY <1>4, QuestionStep, CloseStep, EndStep DEF Drive, Questioning, Closing, Ends
<1>5. ASSUME NEW p \in Procs, Stop(p) \/ Crash(p) PROVE IInv'
  BY <1>5, EndStep DEF Ends
<1>6. ASSUME NEW p \in Procs, NEW q \in Questions, Replay(p, q) PROVE IInv'
  BY <1>6, ReplayStep
<1> QED BY <1>1, <1>2, <1>3, <1>4, <1>5, <1>6 DEF Next

\* The invariant holds of every run of the model.
THEOREM IInvHolds == Spec => []IInv
BY InitIInv, NextIInv, PTL DEF Spec

\* Types: every variable stays in its domain, whoever runs, answers and crashes.
THEOREM TypesHold == Spec => []TypeOK
<1>1. IInv => TypeOK
  BY DEF IInv
<1> QED BY <1>1, IInvHolds, PTL

\* run.lock: the processes that resume, answer and crash never mix their records, so
\* that the journal loads again and says what run.json and completed.json say.
THEOREM LogIsContiguousHolds == Spec => []LogIsContiguous
<1>1. IInv => LogIsContiguous
  BY DEF IInv
<1> QED BY <1>1, IInvHolds, PTL

\* os.link: of all who answer a question one is told so, and its answer is recorded.
THEOREM OneAnswerEachHolds == Spec => []OneAnswerEach
<1>1. IInv => OneAnswerEach
  <2> SUFFICES ASSUME IInv, NEW p \in Procs, told[p] \in {"delivered", "answered"}
               PROVE  /\ files[target[p]] = p
                      /\ \A i \in DOMAIN log :
                           log[i].kind = "answered" /\ log[i].q = target[p] =>
                             log[i].text = p
    BY DEF OneAnswerEach
  <2>1. files[target[p]] = p
    BY DEF IInv, Given
  <2> QED BY <2>1 DEF IInv, Repeated
<1> QED BY <1>1, IInvHolds, PTL

\* The lock itself: two processes are never both past its acquisition.
THEOREM OneOwner ==
  Spec => [](\A p, r \in Procs : pc[p] \in Holding /\ pc[r] \in Holding => p = r)
<1>1. IInv => \A p, r \in Procs : pc[p] \in Holding /\ pc[r] \in Holding => p = r
  BY DEF IInv, Exclusive
<1> QED BY <1>1, IInvHolds, PTL
=============================================================================
