----------------------- MODULE WorkerSupervisorProofs -----------------------
(***************************************************************************)
(* A session is reaped by one thread at a time and reported once, a frame  *)
(* has two live attempts in two named cases only, and none outlives its    *)
(* frame or the shutdown but in the named ones: proved for any number of   *)
(* frames, attempts, stops, signals and restarts.  The first rests on the  *)
(* table of leases: what is in it was never reaped, and who takes a lease  *)
(* out of it is alone with the session.  The second rests on the handle:   *)
(* an attempt that is there when the next one begins has none, or the      *)
(* frame exited while another thread was reaping it.  The third rests on   *)
(* both: a session that is there is in the table or with who took it out.  *)
(***************************************************************************)
EXTENDS WorkerSupervisor, FiniteSetTheorems, TLAPS

\* The places of a launching thread, the states of the main thread, and a reap.
Places == {"idle", "pushed", "prepared", "spawned", "writing", "doomed",
           "overdue", "waiting", "stopping", "failing", "stopped",
           "failed", "finishing", "finished", "returned", "joining", "joined",
           "done", "aborted"}
Mains == {"off", "sweeping", "up", "signalled", "shutting", "waiting", "over"}
Reap == [by : {"nobody", "launch", "main", "join", "budget"},
         at : {"idle", "term", "kill", "report"}]

\* Nobody has begun to reap the session of k.
Untouched(k) == facts[k] = 0 /\ reap[k] = Nobody

\* The sessions that are being reaped.
Reaped == {k \in Keys : ~Reaps("nobody", k)}

\* What is leased, and what is about to be, is untouched.
LeasesUntouched ==
  \A k \in Keys :
    /\ k \in leases => Untouched(k)
    /\ pc[k] = "pushed" => Untouched(k) /\ k \notin leases
    /\ k[2] > latest[k[1]] => Untouched(k) /\ k \notin leases /\ pc[k] = "idle"

\* An engine that is off or sweeps has no leases and launches nothing; what the
\* sweep will adopt is untouched.
SweepsUntouched ==
  main \in {"off", "sweeping"} =>
    /\ leases = {} /\ pc = Idle
    /\ main = "off" => reap = [k \in Keys |-> Nobody]
    /\ main = "sweeping" =>
         \A k \in todo.main : Untouched(k) /\ k[2] <= latest[k[1]]

\* A session that is being reaped was not reported yet.
NotYetReported ==
  \A k \in Keys :
    /\ facts[k] <= 1
    /\ Reaps("nobody", k) => reap[k] = Nobody
    /\ ~Reaps("nobody", k) => facts[k] = 0

\* The inductive invariant of the leases and their reaps.
IInv ==
  /\ TypeOK /\ LeasesUntouched /\ SweepsUntouched /\ NotYetReported
  /\ reaping = Cardinality(Reaped)

-----------------------------------------------------------------------------
(* The count of the reaps under way. *)

\* An attempt is one of a frame, and has a number.
LEMMA KeyParts ==
  ASSUME NEW k \in Keys
  PROVE  k[1] \in Frames /\ k[2] \in Nat
BY ConstantsAssumption DEF Keys, ConstantsAssumption

\* There are finitely many attempts, so finitely many reaps.
LEMMA ReapedIsFinite == IsFiniteSet(Reaped)
<1>1. IsFiniteSet(1..MaxAttempts)
  BY ConstantsAssumption, FS_Interval DEF ConstantsAssumption
<1>2. IsFiniteSet(Keys)
  BY <1>1, ConstantsAssumption, FS_Product DEF ConstantsAssumption, Keys
<1> QED BY <1>2, FS_Subset DEF Reaped

\* Who begins to reap an untouched session counts it once.
LEMMA TakeCounts ==
  ASSUME IInv, NEW k \in Keys, NEW who \in {"launch", "main", "join", "budget"},
         Untouched(k), Take(who, k)
  PROVE  /\ reaping' \in Nat /\ reaping' = Cardinality(Reaped')
         /\ reap' \in [Keys -> Reap] /\ reap'[k] = [by |-> who, at |-> "term"]
         /\ \A l \in Keys \ {k} : reap'[l] = reap[l]
<1>1. /\ reap \in [Keys -> Reap] /\ reaping \in Nat
      /\ reaping = Cardinality(Reaped)
  BY DEF IInv, TypeOK, Reap
<1>2. /\ reap' = [reap EXCEPT ![k] = [by |-> who, at |-> "term"]]
      /\ reaping' = reaping + 1
  BY DEF Take
<1>3. /\ reap' \in [Keys -> Reap] /\ reap'[k] = [by |-> who, at |-> "term"]
      /\ \A l \in Keys \ {k} : reap'[l] = reap[l]
  BY <1>1, <1>2 DEF Reap
<1>4. Reaped' = Reaped \cup {k} /\ k \notin Reaped
  BY <1>3 DEF Reaped, Reaps, Untouched, Nobody
<1>5. Cardinality(Reaped \cup {k}) = Cardinality(Reaped) + 1
  BY <1>4, ReapedIsFinite, FS_AddElement
<1> QED BY <1>1, <1>2, <1>3, <1>4, <1>5

\* Who is done with a session no longer counts.
LEMMA ReleaseCounts ==
  ASSUME IInv, NEW k \in Keys, ~Reaps("nobody", k), Release(k)
  PROVE  /\ reaping' \in Nat /\ reaping' = Cardinality(Reaped')
         /\ reap' \in [Keys -> Reap] /\ reap'[k] = Nobody
         /\ \A l \in Keys \ {k} : reap'[l] = reap[l]
<1>1. /\ reap \in [Keys -> Reap] /\ reaping \in Nat
      /\ reaping = Cardinality(Reaped)
  BY DEF IInv, TypeOK, Reap
<1>2. reap' = [reap EXCEPT ![k] = Nobody] /\ reaping' = reaping - 1
  BY DEF Release
<1>3. /\ reap' \in [Keys -> Reap] /\ reap'[k] = Nobody
      /\ \A l \in Keys \ {k} : reap'[l] = reap[l]
  BY <1>1, <1>2 DEF Reap, Nobody
<1>4. Reaped' = Reaped \ {k} /\ k \in Reaped
  BY <1>3 DEF Reaped, Reaps, Nobody
<1>5. /\ IsFiniteSet(Reaped \ {k})
      /\ Cardinality(Reaped \ {k}) = Cardinality(Reaped) - 1
  BY <1>4, ReapedIsFinite, FS_RemoveElement
<1>6. Cardinality(Reaped \ {k}) \in Nat
  BY <1>5, FS_CardinalityType
<1> QED BY <1>1, <1>2, <1>3, <1>4, <1>5, <1>6

\* Nobody reaps anything at the beginning.
LEMMA NoneReaped ==
  ASSUME reap = [k \in Keys |-> Nobody]
  PROVE  Cardinality(Reaped) = 0 /\ reap \in [Keys -> Reap]
<1>1. Reaped = {}
  BY DEF Reaped, Reaps, Nobody
<1>2. reap \in [Keys -> Reap]
  BY DEF Reap, Nobody
<1> QED BY <1>1, <1>2, FS_EmptySet

-----------------------------------------------------------------------------
(* The invariant is inductive. *)

\* Nothing is leased, reaped or swept at the beginning.
LEMMA InitIInv == Init => IInv
<1> SUFFICES ASSUME Init PROVE IInv
  OBVIOUS
<1>1. TypeOK
  <2>1. reap \in [Keys -> Reap]
    BY NoneReaped DEF Init
  <2>2. /\ sess \in [Keys -> {"none", "running", "orphans", "gone"}]
        /\ handle \in [Keys -> {"none", "engine", "adapter"}]
        /\ facts \in [Keys -> Nat] /\ latest \in [Frames -> Nat]
        /\ pc \in [Keys -> Places]
    BY DEF Init, Idle, Places
  <2>3. todo \in [main : SUBSET Keys, join : SUBSET Keys] /\ ends \in 0..MaxCrashes
    BY ConstantsAssumption DEF Init, ConstantsAssumption
  <2>4. leases \subseteq Keys /\ known \subseteq Keys /\ reason \subseteq Keys
        /\ hasty \subseteq Keys /\ exited \subseteq Frames
        /\ closed \in BOOLEAN /\ main \in Mains /\ reaping \in Nat
    BY DEF Init, Mains
  <2> QED BY <2>1, <2>2, <2>3, <2>4 DEF TypeOK, Reap, Places, Mains
<1>2. LeasesUntouched /\ SweepsUntouched /\ NotYetReported
  BY DEF Init, LeasesUntouched, SweepsUntouched, NotYetReported, Untouched,
         Reaps, Nobody, Idle
<1>3. reaping = Cardinality(Reaped)
  BY NoneReaped DEF Init
<1> QED BY <1>1, <1>2, <1>3 DEF IInv

\* What a step still has to show that leaves leases, reaps and facts alone.
LEMMA TableKept ==
  ASSUME IInv, TypeOK', UNCHANGED <<leases, reap, reaping, facts, latest>>,
         \A k \in Keys : pc'[k] = pc[k] \/ (pc[k] # "idle" /\ pc'[k] # "pushed"),
         main' \in {"off", "sweeping"} => main' = main /\ todo'.main \subseteq todo.main
  PROVE  IInv'
<1>1. LeasesUntouched'
  BY DEF IInv, LeasesUntouched, Untouched
<1>2. NotYetReported' /\ (reaping = Cardinality(Reaped))'
  BY DEF IInv, NotYetReported, Reaps, Reaped
<1>3. SweepsUntouched'
  <2> SUFFICES ASSUME main' \in {"off", "sweeping"} PROVE SweepsUntouched'
    BY DEF SweepsUntouched
  <2>1. /\ leases = {} /\ pc = Idle
        /\ main = "off" => reap = [k \in Keys |-> Nobody]
        /\ main = "sweeping" =>
         \A k \in todo.main : Untouched(k) /\ k[2] <= latest[k[1]]
    BY DEF IInv, SweepsUntouched
  <2>2. pc' = Idle
    BY <2>1 DEF TypeOK, Idle
  <2> QED BY <2>1, <2>2 DEF SweepsUntouched, Untouched
<1> QED BY <1>1, <1>2, <1>3 DEF IInv

\* The steps of a launching thread that only move it on, and of its processes.
Moves(k) ==
  \/ Spawn(k) \/ SpawnFails(k) \/ Publish(k) \/ WriteHandle(k) \/ WriteFails(k)
  \/ Returns(k) \/ Stopped(k) \/ Finished(k) \/ Joined(k) \/ ExitFrame(k)
  \/ JoinTimesOut(k) \/ SystemStep(k)

\* Such a step disturbs no lease.
LEMMA MoveStep ==
  ASSUME IInv, NEW k \in Keys, Moves(k)
  PROVE  IInv'
<1> USE DEF Moves, Spawn, SpawnFails, Publish, WriteHandle, WriteFails, Returns,
            Stopped, Finished, Joined, ExitFrame, JoinTimesOut, SystemStep, LeaderEnds,
            OrphansEnd, AdapterWrites, Step, Goto, table, disk, threads
<1>1. TypeOK /\ k[1] \in Frames
  BY DEF IInv, Keys
<1>2. UNCHANGED <<leases, reap, reaping, facts, latest, main, closed, ends>>
  OBVIOUS
<1>3. /\ sess' \in [Keys -> {"none", "running", "orphans", "gone"}]
      /\ handle' \in [Keys -> {"none", "engine", "adapter"}]
  <2>1. sess' = sess \/ \E s \in {"none", "running", "orphans", "gone"} :
                          sess' = [sess EXCEPT ![k] = s]
    BY <1>1 DEF TypeOK
  <2>2. \/ handle' = handle \/ handle' = [handle EXCEPT ![k] = "engine"]
        \/ handle' = [handle EXCEPT ![k] = "adapter"]
    OBVIOUS
  <2> HIDE DEF Moves
  <2>3. /\ sess \in [Keys -> {"none", "running", "orphans", "gone"}]
        /\ handle \in [Keys -> {"none", "engine", "adapter"}]
    BY <1>1 DEF TypeOK
  <2>4. sess' \in [Keys -> {"none", "running", "orphans", "gone"}]
    BY <2>1, <2>3
  <2>5. handle' \in [Keys -> {"none", "engine", "adapter"}]
    BY <2>2, <2>3
  <2> QED BY <2>4, <2>5
<1>4. /\ pc' \in [Keys -> Places]
      /\ \A l \in Keys : pc'[l] = pc[l] \/ (pc[l] # "idle" /\ pc'[l] # "pushed")
  <2>1. \/ pc' = pc
        \/ pc[k] # "idle" /\ \E to \in Places \ {"pushed"} : pc' = [pc EXCEPT ![k] = to]
    BY DEF Places
  <2> HIDE DEF Moves
  <2>2. pc \in [Keys -> Places]
    BY <1>1 DEF TypeOK, Places
  <2> QED BY <2>1, <2>2
<1>5. todo' \in [main : SUBSET Keys, join : SUBSET Keys] /\ todo'.main = todo.main
  BY <1>1 DEF TypeOK
<1>6. known' \subseteq Keys /\ reason' \subseteq Keys
      /\ hasty' \subseteq Keys /\ exited' \subseteq Frames
  BY <1>1 DEF TypeOK
<1>7. TypeOK'
  BY <1>1, <1>2, <1>3, <1>4, <1>5, <1>6 DEF TypeOK, Places
<1> HIDE DEF Moves
<1> QED BY <1>2, <1>4, <1>5, <1>7, TableKept

\* The steps of the main thread that touch no lease, and the end of the engine.
LEMMA MainMoves ==
  ASSUME IInv, Shutdown \/ MainWaits \/ Signal
  PROVE  IInv'
<1> USE DEF Shutdown, MainWaits, Signal, table, disk, threads
<1>1. TypeOK
  BY DEF IInv
<1>2. /\ UNCHANGED <<sess, handle, exited, known, reason, ends, hasty>>
      /\ UNCHANGED <<leases, reap, reaping, facts, latest>>
  OBVIOUS
<1>3. pc' \in [Keys -> Places] /\ main' \in Mains /\ closed' \in BOOLEAN
      /\ todo' \in [main : SUBSET Keys, join : SUBSET Keys]
  BY <1>1 DEF TypeOK, Places, Mains
<1>4. TypeOK'
  BY <1>1, <1>2, <1>3 DEF TypeOK, Places, Mains
<1>5. \A l \in Keys : pc'[l] = pc[l] \/ (pc[l] # "idle" /\ pc'[l] # "pushed")
  BY <1>1 DEF TypeOK
<1> QED BY <1>2, <1>4, <1>5, TableKept

\* A lease is stopped, finished or adopted: what a step of that kind has to show.
LEMMA TakeStep ==
  ASSUME IInv, NEW k \in Keys, NEW who \in {"launch", "main", "join", "budget"},
         Untouched(k), Take(who, k),
         pc[k] # "pushed", k[2] <= latest[k[1]],
         UNCHANGED <<sess, disk, closed, main, ends, hasty>>,
         reason' \subseteq Keys, known' \subseteq Keys,
         todo' \in [main : SUBSET Keys, join : SUBSET Keys],
         pc' \in [Keys -> Places],
         \A l \in Keys : pc'[l] = pc[l] \/ (pc[l] # "idle" /\ pc'[l] # "pushed"),
         main # "off",
         main = "sweeping" => pc' = pc /\ todo'.main \subseteq todo.main \ {k}
  PROVE  IInv'
<1>1. /\ reaping' \in Nat /\ reaping' = Cardinality(Reaped')
      /\ reap' \in [Keys -> Reap] /\ reap'[k] = [by |-> who, at |-> "term"]
      /\ \A l \in Keys \ {k} : reap'[l] = reap[l]
  BY TakeCounts
<1>2. leases' = leases \ {k} /\ UNCHANGED <<facts, latest, handle, exited>>
  BY DEF Take, disk
<1>3. TypeOK'
  BY <1>1, <1>2 DEF IInv, TypeOK, Reap, Places
<1>4. LeasesUntouched'
  <2> SUFFICES ASSUME NEW l \in Keys
               PROVE  /\ l \in leases' => Untouched(l)'
                      /\ pc'[l] = "pushed" => Untouched(l)' /\ l \notin leases'
                      /\ l[2] > latest[l[1]] =>
                           Untouched(l)' /\ l \notin leases' /\ pc'[l] = "idle"
    BY <1>2 DEF LeasesUntouched
  <2>1. /\ l \in leases => Untouched(l)
        /\ pc[l] = "pushed" => Untouched(l) /\ l \notin leases
        /\ l[2] > latest[l[1]] => Untouched(l) /\ l \notin leases /\ pc[l] = "idle"
    BY DEF IInv, LeasesUntouched
  <2>2. CASE l = k
    <3>1. latest[k[1]] \in Nat /\ k[2] \in Nat /\ k \notin leases'
      BY <1>2, KeyParts DEF IInv, TypeOK
    <3>2. pc'[k] # "pushed" /\ ~(k[2] > latest[k[1]])
      BY <3>1
    <3> QED BY <2>2, <3>1, <3>2
  <2>3. CASE l # k
    BY <1>1, <1>2, <2>1, <2>3 DEF Untouched
  <2> QED BY <2>2, <2>3
<1>5. SweepsUntouched'
  BY <1>1, <1>2 DEF IInv, SweepsUntouched, Untouched
<1>6. NotYetReported'
  <2>1. facts[k] = 0
    BY DEF Untouched
  <2> QED BY <1>1, <1>2, <2>1 DEF IInv, NotYetReported, Reaps
<1> QED BY <1>1, <1>3, <1>4, <1>5, <1>6 DEF IInv

\* A stop of whoever, of the own launch, of a join, of the shutdown, of a timer.
Stops(k) ==
  StopOwn(k) \/ JoinStops(k) \/ MainStops(k) \/ Finish(k) \/ Expire(k)

\* A stop leaves the lease, drops it, or takes it and begins to reap.
LEMMA StopStep ==
  ASSUME IInv, NEW k \in Keys, Stops(k)
  PROVE  IInv'
<1>1. TypeOK /\ k[1] \in Frames
  BY DEF IInv, Keys
<1>2. UNCHANGED <<sess, disk, closed, main, ends, hasty>> /\ known' = known
  BY DEF Stops, StopOwn, JoinStops, MainStops, Finish, Expire, threads, Step,
     StopLease, FinishLease
<1>3. /\ pc' \in [Keys -> Places]
      /\ \A l \in Keys : pc'[l] = pc[l] \/ (pc[l] # "idle" /\ pc'[l] # "pushed")
  BY <1>1 DEF TypeOK, Places, Stops, StopOwn, JoinStops, MainStops, Finish, Expire,
     threads, Step, Goto
<1>4. /\ todo' \in [main : SUBSET Keys, join : SUBSET Keys]
      /\ main \in {"off", "sweeping"} => todo'.main = todo.main
  BY <1>1 DEF TypeOK, Stops, StopOwn, JoinStops, MainStops, Finish, Expire, threads, Step
<1>5. \/ leases' = leases \ {k} /\ k \notin leases' /\ UNCHANGED <<reap, reaping>>
      \/ k \in leases /\ \E who \in {"launch", "main", "join", "budget"} : Take(who, k)
      \/ UNCHANGED <<leases, reap, reaping>>
  BY DEF Stops, StopOwn, JoinStops, MainStops, Finish, Expire, threads, StopLease,
     FinishLease
<1>6. reason' \subseteq Keys
  BY <1>1 DEF TypeOK, Stops, StopOwn, JoinStops, MainStops, Finish, Expire, threads,
     StopLease, FinishLease
<1>7. CASE UNCHANGED <<leases, reap, reaping>>
  <2>1. TypeOK'
    BY <1>1, <1>2, <1>3, <1>4, <1>6, <1>7 DEF TypeOK, Places, disk
  <2>2. UNCHANGED <<facts, latest>>
    BY <1>2 DEF disk
  <2> QED BY <1>2, <1>3, <1>4, <1>7, <2>1, <2>2, TableKept
<1>8. CASE leases' = leases \ {k} /\ UNCHANGED <<reap, reaping>>
  <2>1. TypeOK' /\ UNCHANGED <<facts, latest>>
    BY <1>1, <1>2, <1>3, <1>4, <1>6, <1>8 DEF TypeOK, Places, disk
  <2>2. LeasesUntouched'
    BY <1>3, <1>8, <2>1 DEF IInv, LeasesUntouched, Untouched
  <2>3. NotYetReported' /\ (reaping = Cardinality(Reaped))'
    BY <1>8, <2>1 DEF IInv, NotYetReported, Reaps, Reaped
  <2>4. SweepsUntouched'
    <3> SUFFICES ASSUME main' \in {"off", "sweeping"} PROVE SweepsUntouched'
      BY DEF SweepsUntouched
    <3>1. /\ leases = {} /\ pc = Idle
          /\ main = "off" => reap = [l \in Keys |-> Nobody]
          /\ main = "sweeping" =>
               \A l \in todo.main : Untouched(l) /\ l[2] <= latest[l[1]]
      BY <1>2 DEF IInv, SweepsUntouched
    <3>2. pc' = Idle
      BY <1>3, <3>1 DEF Idle
    <3> QED BY <1>2, <1>4, <1>8, <2>1, <3>1, <3>2 DEF SweepsUntouched, Untouched
  <2> QED BY <2>1, <2>2, <2>3, <2>4 DEF IInv
<1>9. ASSUME NEW who \in {"launch", "main", "join", "budget"}, k \in leases, Take(who, k)
      PROVE  IInv'
  <2>1. Untouched(k) /\ pc[k] # "pushed" /\ ~(k[2] > latest[k[1]])
    BY <1>9 DEF IInv, LeasesUntouched
  <2>2. k[2] <= latest[k[1]]
    <3>1. k[2] \in Nat /\ latest[k[1]] \in Nat
      BY <1>1, KeyParts DEF TypeOK
    <3> QED BY <2>1, <3>1
  <2>3. main \notin {"off", "sweeping"}
    BY <1>9 DEF IInv, SweepsUntouched
  <2> QED BY <1>1, <1>2, <1>3, <1>4, <1>6, <1>9, <2>1, <2>2, <2>3, TakeStep DEF TypeOK
<1> QED BY <1>5, <1>7, <1>8, <1>9

\* The sweep of a resumed engine takes what nobody reaped.
LEMMA AdoptStep ==
  ASSUME IInv, NEW k \in Keys, Adopt(k)
  PROVE  IInv'
<1>1. TypeOK /\ k[1] \in Frames
  BY DEF IInv, Keys
<1>2. /\ main = "sweeping" /\ k \in todo.main /\ Take("main", k)
      /\ todo' = [todo EXCEPT !.main = todo.main \ {k}]
      /\ reason' = reason \cup {k}
      /\ UNCHANGED <<sess, disk, known, closed, pc, main, ends, hasty>>
  BY DEF Adopt
<1>3. Untouched(k) /\ k[2] <= latest[k[1]] /\ pc = Idle
  BY <1>2 DEF IInv, SweepsUntouched
<1>4. todo' \in [main : SUBSET Keys, join : SUBSET Keys]
      /\ todo'.main \subseteq todo.main \ {k} /\ reason' \subseteq Keys
  BY <1>1, <1>2 DEF TypeOK
<1>5. pc[k] = "idle" /\ pc' = pc /\ pc' \in [Keys -> Places] /\ known' \subseteq Keys
  BY <1>1, <1>2, <1>3 DEF TypeOK, Idle, Places
<1> QED BY <1>2, <1>3, <1>4, <1>5, TakeStep

\* A reap goes on, and is over with at most one report.
LEMMA ReapStepKeeps ==
  ASSUME IInv, NEW k \in Keys, ReapStep(k)
  PROVE  IInv'
<1>1. TypeOK /\ reap \in [Keys -> Reap]
  BY DEF IInv, TypeOK, Reap
<1>2. ~Reaps("nobody", k) /\ facts[k] = 0
  <2>1. reap[k].at # "idle"
    BY DEF ReapStep, Terminate, Kill, Report
  <2> QED BY <2>1 DEF IInv, NotYetReported, Nobody
<1>3. ~Untouched(k) /\ main # "off"
  BY <1>2 DEF Untouched, Reaps, Nobody, IInv, SweepsUntouched
<1>4. /\ UNCHANGED <<handle, latest, exited, leases, known, reason, closed>>
      /\ UNCHANGED <<pc, main, todo, ends, hasty>>
  BY DEF ReapStep, Terminate, Kill, Report, Release, disk, threads
<1>5. /\ reap' \in [Keys -> Reap] /\ reaping' \in Nat
      /\ reaping' = Cardinality(Reaped') /\ (Reaps("nobody", k)' => reap'[k] = Nobody)
      /\ \A l \in Keys \ {k} : reap'[l] = reap[l]
  <2>1. CASE Release(k)
    BY <1>2, <2>1, ReleaseCounts
  <2>2. ASSUME NEW at \in {"kill", "report"}, reap' = [reap EXCEPT ![k].at = at],
               reaping' = reaping
        PROVE  /\ reap' \in [Keys -> Reap] /\ reaping' \in Nat
               /\ reaping' = Cardinality(Reaped')
               /\ (Reaps("nobody", k)' => reap'[k] = Nobody)
               /\ \A l \in Keys \ {k} : reap'[l] = reap[l]
    <3>1. /\ reap' \in [Keys -> Reap] /\ reap'[k].by = reap[k].by
          /\ \A l \in Keys \ {k} : reap'[l] = reap[l]
      BY <1>1, <2>2 DEF Reap
    <3>2. Reaped' = Reaped /\ ~Reaps("nobody", k)'
      BY <1>2, <3>1 DEF Reaped, Reaps
    <3>3. reaping \in Nat /\ reaping = Cardinality(Reaped)
      BY DEF IInv, TypeOK
    <3> QED BY <2>2, <3>1, <3>2, <3>3
  <2> QED BY <2>1, <2>2 DEF ReapStep, Terminate, Kill, Report
<1>6. /\ facts' \in [Keys -> Nat] /\ facts'[k] \in {0, 1}
      /\ (~Reaps("nobody", k)' => facts'[k] = 0)
      /\ \A l \in Keys \ {k} : facts'[l] = facts[l]
  <2>1. facts \in [Keys -> Nat]
    BY <1>1 DEF TypeOK
  <2>2. CASE UNCHANGED facts
    BY <1>2, <2>1, <2>2
  <2>3. CASE facts' = [facts EXCEPT ![k] = facts[k] + 1] /\ Release(k)
    <3>1. Reaps("nobody", k)'
      BY <1>1, <2>3 DEF Release, Reaps, Nobody
    <3> QED BY <1>2, <2>1, <2>3, <3>1
  <2> QED BY <2>2, <2>3 DEF ReapStep, Terminate, Kill, Report, disk
<1>7. sess' \in [Keys -> {"none", "running", "orphans", "gone"}]
  BY <1>1 DEF TypeOK, ReapStep, Terminate, Kill, Report
<1>8. TypeOK'
  BY <1>1, <1>4, <1>5, <1>6, <1>7 DEF TypeOK, Reap
<1>9. \A l \in Keys : Untouched(l) => Untouched(l)'
  BY <1>3, <1>5, <1>6 DEF Untouched
<1>10. LeasesUntouched' /\ SweepsUntouched'
  BY <1>3, <1>4, <1>9 DEF IInv, LeasesUntouched, SweepsUntouched, TypeOK
<1>11. NotYetReported'
  BY <1>5, <1>6 DEF IInv, NotYetReported, Reaps
<1> QED BY <1>5, <1>8, <1>10, <1>11 DEF IInv

\* A further attempt is untouched, and so is its lease.
LEMMA PushStep ==
  ASSUME IInv, NEW f \in Frames, Push(f)
  PROVE  IInv'
<1> DEFINE k == <<f, latest[f] + 1>>
<1>1. /\ TypeOK /\ latest[f] \in Nat /\ main \notin {"off", "sweeping"}
      /\ latest' = [latest EXCEPT ![f] = latest[f] + 1] /\ exited' = exited \ {f}
      /\ pc' = [pc EXCEPT ![k] = "pushed"]
      /\ UNCHANGED <<sess, handle, facts, leases, known, reason, reaping, reap>>
      /\ UNCHANGED <<closed, main, todo, ends, hasty>>
  BY DEF IInv, TypeOK, Push, Step, Goto, table
<1>2. latest' \in [Frames -> Nat] /\ latest'[f] = latest[f] + 1
      /\ \A g \in Frames \ {f} : latest'[g] = latest[g]
  <2>1. latest \in [Frames -> Nat] /\ latest[f] + 1 \in Nat
    <3>1. latest \in [Frames -> Nat]
      BY <1>1 DEF TypeOK
    <3> QED BY <3>1
  <2>2. latest' = [latest EXCEPT ![f] = latest[f] + 1]
    BY <1>1
  <2> HIDE DEF k
  <2> QED BY <2>1, <2>2
<1>3. pc' \in [Keys -> Places]
      /\ \A l \in Keys : l # k => pc'[l] = pc[l]
  <2>1. pc \in [Keys -> Places] /\ "pushed" \in Places
    BY <1>1 DEF TypeOK, Places
  <2>2. pc' = [pc EXCEPT ![k] = "pushed"]
    BY <1>1
  <2> HIDE DEF k
  <2> QED BY <2>1, <2>2
<1>4. TypeOK'
  BY <1>1, <1>2, <1>3 DEF TypeOK, Places
<1>5. LeasesUntouched'
  <2> SUFFICES ASSUME NEW l \in Keys
               PROVE  /\ l \in leases => Untouched(l)
                      /\ pc'[l] = "pushed" => Untouched(l) /\ l \notin leases
                      /\ l[2] > latest'[l[1]] =>
                           Untouched(l) /\ l \notin leases /\ pc'[l] = "idle"
    BY <1>1 DEF LeasesUntouched, Untouched
  <2>1. /\ l \in leases => Untouched(l)
        /\ pc[l] = "pushed" => Untouched(l) /\ l \notin leases
        /\ l[2] > latest[l[1]] => Untouched(l) /\ l \notin leases /\ pc[l] = "idle"
    BY DEF IInv, LeasesUntouched
  <2>2. CASE l = k
    <3>1. l[1] = f /\ l[2] = latest[f] + 1
      BY <2>2
    <3>2. l[2] > latest[l[1]] /\ ~(l[2] > latest'[l[1]])
      BY <1>1, <1>2, <3>1
    <3> QED BY <2>1, <3>2
  <2>3. CASE l # k
    <3>1. l[1] \in Frames /\ l[2] \in Nat /\ latest[l[1]] \in Nat
      BY <1>1, KeyParts DEF TypeOK
    <3>2. l[2] > latest'[l[1]] => l[2] > latest[l[1]]
      BY <1>1, <1>2, <3>1
    <3> QED BY <1>3, <2>1, <2>3, <3>2
  <2> QED BY <2>2, <2>3
<1>6. SweepsUntouched' /\ NotYetReported' /\ (reaping = Cardinality(Reaped))'
  BY <1>1 DEF IInv, SweepsUntouched, NotYetReported, Reaps, Reaped
<1> QED BY <1>4, <1>5, <1>6 DEF IInv

\* The lease of a further attempt.
LEMMA PrepareStep ==
  ASSUME IInv, NEW k \in Keys, Prepare(k)
  PROVE  IInv'
<1>1. /\ TypeOK /\ pc[k] = "pushed" /\ leases' \in {leases, leases \cup {k}}
      /\ \E to \in {"returned", "prepared"} : pc' = [pc EXCEPT ![k] = to]
      /\ UNCHANGED <<sess, handle, facts, latest, exited, known, reason, reaping, reap>>
      /\ UNCHANGED <<closed, main, todo, ends, hasty>>
  BY DEF IInv, Prepare, Step, Goto, disk
<1>2. /\ pc' \in [Keys -> Places] /\ pc'[k] \in {"returned", "prepared"}
      /\ \A l \in Keys \ {k} : pc'[l] = pc[l]
  <2>1. pc \in [Keys -> Places] /\ {"returned", "prepared"} \subseteq Places
    BY <1>1 DEF TypeOK, Places
  <2>2. PICK to \in {"returned", "prepared"} : pc' = [pc EXCEPT ![k] = to]
    BY <1>1
  <2> QED BY <2>1, <2>2
<1>3. TypeOK'
  BY <1>1, <1>2 DEF TypeOK, Places
<1>4. Untouched(k) /\ ~(k[2] > latest[k[1]])
  BY <1>1 DEF IInv, LeasesUntouched
<1>5. main \notin {"off", "sweeping"}
  BY <1>1 DEF IInv, SweepsUntouched, Idle
<1>6. LeasesUntouched'
  <2> SUFFICES ASSUME NEW l \in Keys
               PROVE  /\ l \in leases' => Untouched(l)
                      /\ pc'[l] = "pushed" => Untouched(l) /\ l \notin leases'
                      /\ l[2] > latest[l[1]] =>
                           Untouched(l) /\ l \notin leases' /\ pc'[l] = "idle"
    BY <1>1 DEF LeasesUntouched, Untouched
  <2>1. /\ l \in leases => Untouched(l)
        /\ pc[l] = "pushed" => Untouched(l) /\ l \notin leases
        /\ l[2] > latest[l[1]] => Untouched(l) /\ l \notin leases /\ pc[l] = "idle"
    BY DEF IInv, LeasesUntouched
  <2>2. CASE l = k
    BY <1>2, <1>4, <2>2
  <2>3. CASE l # k
    BY <1>1, <1>2, <2>1, <2>3
  <2> QED BY <2>2, <2>3
<1>7. SweepsUntouched' /\ NotYetReported' /\ (reaping = Cardinality(Reaped))'
  BY <1>1, <1>5 DEF IInv, SweepsUntouched, NotYetReported, Reaps, Reaped
<1> QED BY <1>3, <1>6, <1>7 DEF IInv

\* The engine ends with all its leases and reaps, and the next one sweeps.
LEMMA EndStep ==
  ASSUME IInv, End
  PROVE  IInv'
<1>1. /\ TypeOK /\ leases' = {} /\ known' = {} /\ reason' = {} /\ reaping' = 0
      /\ reap' = [k \in Keys |-> Nobody] /\ closed' = FALSE /\ main' = "off"
      /\ pc' = Idle /\ todo' = [main |-> {}, join |-> {}] /\ ends' = ends + 1
      /\ UNCHANGED <<sess, handle, facts, latest, exited, hasty>> /\ ends < MaxCrashes
  BY DEF IInv, End, disk
<1>2. reap' \in [Keys -> Reap] /\ Cardinality(Reaped') = 0
  <2>1. Reaped' = {}
    BY <1>1 DEF Reaped, Reaps, Nobody
  <2> QED BY <1>1, <2>1, FS_EmptySet DEF Reap, Nobody
<1>3. TypeOK'
  <2>1. pc' \in [Keys -> Places]
    BY <1>1 DEF Idle, Places
  <2>2. todo' \in [main : SUBSET Keys, join : SUBSET Keys]
    BY <1>1
  <2>3. ends' \in 0..MaxCrashes
    <3>1. ends \in 0..MaxCrashes /\ MaxCrashes \in Nat
      BY <1>1, ConstantsAssumption DEF TypeOK, ConstantsAssumption
    <3>2. ends' = ends + 1 /\ ends < MaxCrashes
      BY <1>1
    <3> QED BY <3>1, <3>2
  <2>4. {"off", "sweeping"} \subseteq Mains /\ 0 \in Nat
    BY DEF Mains
  <2> QED BY <1>1, <1>2, <2>1, <2>2, <2>3, <2>4 DEF TypeOK, Places, Reap, Mains
<1>4. LeasesUntouched' /\ SweepsUntouched' /\ NotYetReported'
  <2>1. \A k \in Keys : reap'[k] = Nobody /\ pc'[k] = "idle"
    BY <1>1 DEF Idle
  <2>2. \A k \in Keys : facts'[k] <= 1
    BY <1>1 DEF IInv, NotYetReported
  <2>3. \A k \in Keys : k[2] > latest[k[1]] => facts'[k] = 0
    BY <1>1 DEF IInv, LeasesUntouched, Untouched
  <2> QED BY <1>1, <2>1, <2>2, <2>3
          DEF LeasesUntouched, SweepsUntouched, NotYetReported, Untouched, Reaps, Nobody
<1> QED BY <1>1, <1>2, <1>3, <1>4 DEF IInv

\* The next engine will adopt what has no report.
LEMMA RestartStep ==
  ASSUME IInv, Restart
  PROVE  IInv'
<1>1. /\ TypeOK /\ main = "off" /\ main' = "sweeping"
      /\ todo' = [todo EXCEPT !.main = Outstanding]
      /\ UNCHANGED <<sess, handle, facts, latest, exited, leases, known, reason>>
      /\ UNCHANGED <<reaping, reap, closed, pc, ends, hasty>>
  BY DEF IInv, Restart, disk, table
<1>2. todo' \in [main : SUBSET Keys, join : SUBSET Keys] /\ todo'.main = Outstanding
  BY <1>1 DEF TypeOK, Outstanding
<1>3. TypeOK'
  BY <1>1, <1>2 DEF TypeOK
<1>4. LeasesUntouched' /\ NotYetReported' /\ (reaping = Cardinality(Reaped))'
  BY <1>1 DEF IInv, LeasesUntouched, NotYetReported, Untouched, Reaps, Reaped
<1>5. ASSUME NEW k \in Outstanding PROVE Untouched(k) /\ k[2] <= latest[k[1]]
  <2>1. k \in Keys /\ k[2] = latest[k[1]] /\ facts[k] = 0
    BY DEF Outstanding
  <2>2. reap[k] = Nobody
    BY <1>1, <2>1 DEF IInv, SweepsUntouched
  <2>3. k[2] \in Nat
    BY <2>1, KeyParts
  <2> QED BY <2>1, <2>2, <2>3 DEF Untouched
<1>6. SweepsUntouched'
  BY <1>1, <1>2, <1>5 DEF IInv, SweepsUntouched, Untouched
<1> QED BY <1>3, <1>4, <1>6 DEF IInv

\* Every step preserves the invariant.
LEMMA NextIInv == IInv /\ [Next]_vars => IInv'
<1> SUFFICES ASSUME IInv, [Next]_vars PROVE IInv'
  OBVIOUS
<1>1. CASE UNCHANGED vars
  <2>1. /\ UNCHANGED <<sess, handle, facts, latest, exited, leases, known, reason>>
        /\ UNCHANGED <<reaping, reap, closed, pc, main, todo, ends, hasty>>
    BY <1>1 DEF vars, disk, table, threads
  <2>2. TypeOK'
    BY <2>1 DEF IInv, TypeOK
  <2> QED BY <2>1, <2>2, TableKept
<1>2. ASSUME NEW k \in Keys, ReapStep(k) PROVE IInv'
  BY <1>2, ReapStepKeeps
<1>3. ASSUME NEW k \in Keys,
             \/ LaunchStep(k) \/ SystemStep(k)
             \/ JoinTimesOut(k) \/ JoinStops(k) \/ Expire(k)
      PROVE  IInv'
  BY <1>3, PrepareStep, MoveStep, StopStep DEF LaunchStep, Moves, Stops
<1>4. ASSUME NEW f \in Frames, Push(f) PROVE IInv'
  BY <1>4, PushStep
<1>5. CASE MainStep \/ Signal \/ End \/ Restart
  BY <1>5, MainMoves, StopStep, AdoptStep, EndStep, RestartStep DEF MainStep, Stops
<1> QED BY <1>1, <1>2, <1>3, <1>4, <1>5 DEF Next

-----------------------------------------------------------------------------
(* Generations: what is left of an attempt when the next one begins. *)

\* If k is still there, no engine wrote its handle, or it exited in haste.
Accounted(k) == Alive(k) => handle[k] # "engine" \/ k \in hasty

\* How far an attempt is, and what that says of its session.  An attempt that no
\* thread launches is accounted for, or about to be swept.
Generation(k) ==
  /\ k[2] > latest[k[1]] => sess[k] = "none"
  /\ k[2] < latest[k[1]] \/ pc[k] = "done" => Accounted(k)
  /\ k[2] = latest[k[1]] /\ k[1] \in exited => Accounted(k)
  /\ pc[k] \notin {"idle", "done"} => k[2] = latest[k[1]] /\ k[1] \notin exited
  /\ pc[k] \in {"pushed", "prepared"} => sess[k] = "none"
  /\ facts[k] > 0 \/ reap[k].at = "report" => sess[k] = "gone"
  /\ reap[k].at = "kill" => sess[k] # "none"
  /\ k[2] = latest[k[1]] /\ pc[k] = "idle" /\ main # "off" =>
       \/ Accounted(k)
       \/ main = "sweeping" /\ (k \in todo.main \/ Reaps("main", k))

Generations == \A k \in Keys : Generation(k)

\* There is no attempt at the beginning.
LEMMA InitGenerations == Init => Generations
BY DEF Init, Generations, Generation, Accounted, Alive, Nobody, Idle

\* What a step has to show that touches one attempt only.
LEMMA OneTouched ==
  ASSUME IInv, Generations, NEW k \in Keys, Generation(k)',
         UNCHANGED <<latest, main>>,
         \/ UNCHANGED exited
         \/ exited' = exited \cup {k[1]} /\ k[2] = latest[k[1]],
         \A l \in Keys \ {k} :
           /\ sess'[l] = sess[l] /\ handle'[l] = handle[l] /\ pc'[l] = pc[l]
           /\ facts'[l] = facts[l] /\ reap'[l] = reap[l]
           /\ l \in hasty => l \in hasty'
           /\ main = "sweeping" /\ l \in todo.main => l \in todo'.main
  PROVE  Generations'
<1> SUFFICES ASSUME NEW l \in Keys, l # k PROVE Generation(l)'
  BY DEF Generations
<1>1. Generation(l)
  BY DEF Generations
<1>2. /\ sess'[l] = sess[l] /\ handle'[l] = handle[l] /\ pc'[l] = pc[l]
      /\ facts'[l] = facts[l] /\ reap'[l] = reap[l]
      /\ l \in hasty => l \in hasty'
      /\ main = "sweeping" /\ l \in todo.main => l \in todo'.main
  OBVIOUS
<1>3. Accounted(l) => Accounted(l)'
  BY <1>2 DEF Accounted, Alive
<1>4. l[2] = latest[l[1]] /\ l[1] \in exited' => l[1] \in exited
  BY DEF Keys
<1>5. pc[l] \notin {"idle", "done"} => l[1] \notin exited'
  BY <1>1, <1>4 DEF Generation
<1> QED BY <1>1, <1>2, <1>3, <1>4, <1>5 DEF Generation, Reaps

\* The steps of a launching thread.
LEMMA LaunchGenerations ==
  ASSUME IInv, Generations, NEW k \in Keys, LaunchStep(k)
  PROVE  Generations'
<1>1. TypeOK /\ Generation(k) /\ pc[k] \notin {"idle", "done"}
  BY DEF IInv, Generations, LaunchStep, Prepare, Spawn, SpawnFails, Publish,
         WriteHandle, WriteFails, Returns, StopOwn, Stopped, Finish, Finished, Joined,
         ExitFrame, Step
<1>2. k[2] = latest[k[1]] /\ k[1] \notin exited
  BY <1>1 DEF Generation
<1>3. UNCHANGED <<latest, main, todo>>
  BY DEF LaunchStep, Prepare, Spawn, SpawnFails, Publish, WriteHandle, WriteFails,
         Returns, StopOwn, Stopped, Finish, Finished, Joined, ExitFrame, Step, disk,
         table
<1>4. CASE ExitFrame(k)
  <2>1. /\ exited' = exited \cup {k[1]} /\ pc' = [pc EXCEPT ![k] = "done"]
        /\ hasty' = IF Alive(k) THEN hasty \cup {k} ELSE hasty
        /\ UNCHANGED <<sess, handle, facts, reap>>
    BY <1>4 DEF ExitFrame, Step, Goto, table
  <2>2. Generation(k)'
    BY <1>1, <1>2, <1>3, <2>1 DEF TypeOK, Generation, Accounted, Alive
  <2> QED BY <1>1, <1>2, <1>3, <2>1, <2>2, OneTouched DEF TypeOK
<1>5. CASE ~ExitFrame(k)
  <2>1. /\ UNCHANGED <<exited, hasty, facts>>
        /\ \E to \in Places \ {"idle", "done", "pushed"} :
             /\ pc' = [pc EXCEPT ![k] = to]
             /\ to = "prepared" => pc[k] = "pushed" /\ UNCHANGED sess
    <3> DEFINE Moved(to) == /\ pc' = [pc EXCEPT ![k] = to]
                            /\ to = "prepared" => pc[k] = "pushed" /\ UNCHANGED sess
    <3>1. UNCHANGED <<exited, hasty, facts>>
      BY <1>5 DEF LaunchStep, Prepare, Spawn, SpawnFails, Publish, WriteHandle,
           WriteFails, Returns, StopOwn, Stopped, Finish, Finished, Joined, disk, table
    <3>2. CASE Prepare(k) \/ Spawn(k) \/ SpawnFails(k)
      <4>1. \/ Moved("returned") \/ Moved("prepared") \/ Moved("spawned")
            \/ Moved("finishing") \/ Moved("failing")
        BY <3>2 DEF Prepare, Spawn, SpawnFails, Step, Goto
      <4> QED BY <3>1, <4>1 DEF Places
    <3>3. CASE Publish(k) \/ WriteHandle(k) \/ WriteFails(k)
      <4>1. \/ Moved("writing") \/ Moved("doomed") \/ Moved("waiting")
            \/ Moved("overdue") \/ Moved("failing")
        BY <3>3 DEF Publish, WriteHandle, WriteFails, Step, Goto
      <4> QED BY <3>1, <4>1 DEF Places
    <3>4. CASE \/ Returns(k) \/ StopOwn(k) \/ Stopped(k) \/ Finish(k) \/ Finished(k)
               \/ Joined(k)
      <4>1. \/ Moved("finishing") \/ Moved("stopping") \/ Moved("stopped")
            \/ Moved("failed") \/ Moved("finished") \/ Moved("returned")
            \/ Moved("joined") \/ Moved("waiting")
        BY <3>4 DEF Returns, StopOwn, Stopped, Finish, Finished, Joined, Step, Goto
      <4> QED BY <3>1, <4>1 DEF Places
    <3> QED BY <1>5, <3>2, <3>3, <3>4 DEF LaunchStep
  <2>2. \/ sess' = sess
        \/ pc[k] = "prepared" /\ sess' = [sess EXCEPT ![k] = "running"]
        \/ /\ sess[k] = "running" /\ UNCHANGED reap
           /\ sess' = [sess EXCEPT ![k] = "orphans"]
    <3>1. CASE Stopped(k)
      BY <1>1, <3>1 DEF Stopped, Step, Goto, TypeOK, table
    <3>2. CASE ~Stopped(k)
      BY <1>5, <3>2 DEF LaunchStep, Prepare, Spawn, SpawnFails, Publish, WriteHandle,
         WriteFails, Returns, StopOwn, Finish, Finished, Joined, Step, Goto
    <3> QED BY <3>1, <3>2
  <2>3. handle' = handle \/ handle' = [handle EXCEPT ![k] = "engine"]
    BY <1>5 DEF LaunchStep, Prepare, Spawn, SpawnFails, Publish, WriteHandle,
       WriteFails, Returns, StopOwn, Stopped, Finish, Finished, Joined, Step, disk
  <2>4. reap' = reap \/ reap' = [reap EXCEPT ![k] = [by |-> "launch", at |-> "term"]]
    BY <1>5 DEF LaunchStep, Prepare, Spawn, SpawnFails, Publish, WriteHandle,
       WriteFails, Returns, StopOwn, Stopped, Finish, Finished, Joined, Step, table,
       StopLease, FinishLease, Take
  <2>5. /\ \A l \in Keys \ {k} :
             /\ sess'[l] = sess[l] /\ handle'[l] = handle[l] /\ pc'[l] = pc[l]
             /\ reap'[l] = reap[l]
        /\ pc'[k] \notin {"idle", "done", "pushed"}
        /\ pc'[k] = "prepared" => pc[k] = "pushed" /\ UNCHANGED sess
        /\ reap'[k].at \in {"kill", "report"} => reap'[k] = reap[k]
    <3>1. /\ sess \in [Keys -> {"none", "running", "orphans", "gone"}]
          /\ handle \in [Keys -> {"none", "engine", "adapter"}]
          /\ pc \in [Keys -> Places] /\ reap \in [Keys -> Reap]
      BY <1>1 DEF TypeOK, Places, Reap
    <3>2. /\ \A l \in Keys \ {k} : pc'[l] = pc[l]
          /\ pc'[k] \notin {"idle", "done", "pushed"}
          /\ pc'[k] = "prepared" => pc[k] = "pushed" /\ UNCHANGED sess
      BY <2>1, <3>1
    <3>3. \A l \in Keys \ {k} : sess'[l] = sess[l] /\ handle'[l] = handle[l]
      BY <2>2, <2>3, <3>1
    <3>4. /\ \A l \in Keys \ {k} : reap'[l] = reap[l]
          /\ reap'[k].at \in {"kill", "report"} => reap'[k] = reap[k]
      BY <2>4, <3>1
    <3> QED BY <3>2, <3>3, <3>4
  <2>6. /\ facts[k] > 0 \/ reap'[k].at = "report" => sess'[k] = "gone"
        /\ reap'[k].at = "kill" => sess'[k] # "none"
    <3>1. /\ sess[k] = "gone" => sess'[k] = "gone"
          /\ sess[k] # "none" => sess'[k] # "none"
      BY <1>1, <2>2 DEF Generation, TypeOK
    <3> QED BY <1>1, <2>5, <3>1 DEF Generation
  <2>7. Generation(k)'
    <3>1. pc'[k] = "prepared" => sess'[k] = "none"
      BY <1>1, <2>5 DEF Generation
    <3>2. k[2] \in Nat /\ k[1] \in Frames /\ latest[k[1]] \in Nat
      BY <1>1, KeyParts DEF TypeOK
    <3> QED BY <1>2, <1>3, <2>1, <2>5, <2>6, <3>1, <3>2 DEF Generation
  <2> QED BY <1>3, <2>1, <2>5, <2>7, OneTouched
<1> QED BY <1>4, <1>5

\* What the operating system does to a session, and the steps of a reap.
LEMMA SessionGenerations ==
  ASSUME IInv, Generations, NEW k \in Keys, SystemStep(k) \/ ReapStep(k)
  PROVE  Generations'
<1>1. TypeOK /\ Generation(k) /\ k[1] \in Frames
  BY KeyParts DEF IInv, Generations
<1>2. UNCHANGED <<latest, main, todo, pc, exited, hasty>>
  BY DEF SystemStep, LeaderEnds, OrphansEnd, AdapterWrites, ReapStep, Terminate, Kill,
         Report, disk, threads
<1>3. CASE SystemStep(k)
  <2>1. /\ UNCHANGED <<facts, reap>>
        /\ \/ UNCHANGED handle /\ Alive(k)
              /\ \E s \in {"orphans", "gone"} : sess' = [sess EXCEPT ![k] = s]
           \/ UNCHANGED sess /\ handle' = [handle EXCEPT ![k] = "adapter"]
    BY <1>3 DEF SystemStep, LeaderEnds, OrphansEnd, AdapterWrites, disk, table, Alive
  <2>2. /\ handle'[k] \in {handle[k], "adapter"}
        /\ \/ sess'[k] = sess[k]
           \/ Alive(k) /\ sess'[k] \in {"orphans", "gone"}
        /\ \A l \in Keys \ {k} : sess'[l] = sess[l] /\ handle'[l] = handle[l]
    BY <1>1, <2>1 DEF TypeOK
  <2>3. Accounted(k) => Accounted(k)'
    BY <1>2, <2>2 DEF Accounted, Alive
  <2>4. Generation(k)'
    BY <1>1, <1>2, <2>1, <2>2, <2>3 DEF Generation, Alive, Reaps
  <2> QED BY <1>2, <2>1, <2>2, <2>4, OneTouched
<1>4. CASE Terminate(k)
  <2>1. /\ UNCHANGED <<sess, handle, facts>> /\ reap[k].at = "term"
        /\ \/ reap' = [reap EXCEPT ![k].at = "kill"] /\ Alive(k)
           \/ reap' = [reap EXCEPT ![k] = Nobody] /\ ~Alive(k)
    BY <1>4 DEF Terminate, Release, disk
  <2>2. /\ reap'[k].at # "report" /\ (reap'[k].at = "kill" => Alive(k))
        /\ Alive(k) => reap'[k].by = reap[k].by
        /\ \A l \in Keys \ {k} : reap'[l] = reap[l]
    <3>1. reap \in [Keys -> Reap]
      BY <1>1 DEF TypeOK, Reap
    <3>2. CASE reap' = [reap EXCEPT ![k].at = "kill"] /\ Alive(k)
      BY <3>1, <3>2 DEF Reap
    <3>3. CASE reap' = [reap EXCEPT ![k] = Nobody] /\ ~Alive(k)
      BY <3>1, <3>3 DEF Nobody
    <3> QED BY <2>1, <3>2, <3>3
  <2>3. /\ Accounted(k)' <=> Accounted(k)
        /\ ~Alive(k) => Accounted(k)
        /\ Alive(k) => sess[k] # "none"
    BY <1>2, <2>1 DEF Accounted, Alive
  <2>4. Generation(k)'
    BY <1>1, <1>2, <2>1, <2>2, <2>3 DEF Generation, Reaps
  <2> QED BY <1>2, <2>1, <2>2, <2>4, OneTouched
<1>5. CASE Kill(k)
  <2>1. /\ UNCHANGED <<handle, facts>> /\ sess' = [sess EXCEPT ![k] = "gone"]
        /\ reap' = [reap EXCEPT ![k].at = "report"]
    BY <1>5 DEF Kill, disk
  <2>2. /\ sess'[k] = "gone"
        /\ \A l \in Keys \ {k} : sess'[l] = sess[l] /\ reap'[l] = reap[l]
    BY <1>1, <2>1 DEF TypeOK
  <2>3. Accounted(k)' /\ reap'[k].at = "report"
    <3>1. reap'[k].at = "report"
      BY <1>1, <2>1 DEF TypeOK
    <3> QED BY <2>2, <3>1 DEF Accounted, Alive
  <2>4. pc[k] \notin {"pushed", "prepared"} /\ ~(k[2] > latest[k[1]])
    BY <1>1, <1>5 DEF Kill, Generation
  <2>5. Generation(k)'
    BY <1>1, <1>2, <2>1, <2>2, <2>3, <2>4 DEF Generation
  <2> QED BY <1>2, <2>1, <2>2, <2>5, OneTouched
<1>6. CASE Report(k)
  <2>1. /\ UNCHANGED <<sess, handle>> /\ reap' = [reap EXCEPT ![k] = Nobody]
        /\ reap[k].at = "report"
        /\ facts' = facts \/ facts' = [facts EXCEPT ![k] = facts[k] + 1]
    BY <1>6 DEF Report, Release
  <2>2. /\ sess[k] = "gone" /\ sess'[k] = "gone" /\ reap'[k] = Nobody
        /\ \A l \in Keys \ {k} : facts'[l] = facts[l] /\ reap'[l] = reap[l]
    BY <1>1, <2>1 DEF TypeOK, Generation
  <2>3. Accounted(k)'
    BY <2>2 DEF Accounted, Alive
  <2>4. Generation(k)'
    BY <1>1, <1>2, <2>1, <2>2, <2>3 DEF Generation, Nobody
  <2> QED BY <1>2, <2>1, <2>2, <2>4, OneTouched
<1> QED BY <1>3, <1>4, <1>5, <1>6 DEF ReapStep

\* A stop by a join, the shutdown, the sweep or a timer, and the join itself.
LEMMA StopGenerations ==
  ASSUME IInv, Generations, NEW k \in Keys,
         JoinStops(k) \/ MainStops(k) \/ Adopt(k) \/ JoinTimesOut(k) \/ Expire(k)
  PROVE  Generations'
<1>1. /\ TypeOK /\ Generation(k) /\ reap \in [Keys -> Reap]
      /\ todo \in [main : SUBSET Keys, join : SUBSET Keys]
  BY DEF IInv, Generations, TypeOK, Reap
<1>2. UNCHANGED <<sess, handle, facts, latest, exited, main, hasty>>
  BY DEF JoinStops, MainStops, Adopt, JoinTimesOut, Expire, disk, threads
<1>3. CASE JoinTimesOut(k)
  <2>1. /\ pc[k] = "returned" /\ pc' = [pc EXCEPT ![k] = "joining"]
        /\ UNCHANGED reap /\ todo'.main = todo.main
    BY <1>1, <1>3 DEF JoinTimesOut, Goto, table
  <2>2. pc'[k] = "joining" /\ \A l \in Keys \ {k} : pc'[l] = pc[l]
    BY <1>1, <2>1 DEF TypeOK
  <2>3. Accounted(k)' <=> Accounted(k)
    BY <1>2 DEF Accounted, Alive
  <2>4. Generation(k)'
    BY <1>1, <1>2, <2>1, <2>2, <2>3 DEF Generation
  <2> QED BY <1>2, <2>1, <2>2, <2>4, OneTouched
<1>4. ASSUME NEW who \in {"main", "join", "budget"}, UNCHANGED pc,
             \/ UNCHANGED reap
             \/ reap' = [reap EXCEPT ![k] = [by |-> who, at |-> "term"]],
             main = "sweeping" =>
               \/ todo'.main = todo.main /\ UNCHANGED reap
               \/ /\ todo'.main = todo.main \ {k}
                  /\ reap' = [reap EXCEPT ![k] = [by |-> "main", at |-> "term"]]
      PROVE  Generations'
  <2>1. /\ \A l \in Keys \ {k} : reap'[l] = reap[l]
        /\ reap'[k] = reap[k] \/ reap'[k] = [by |-> who, at |-> "term"]
        /\ main = "sweeping" =>
             \/ todo'.main = todo.main /\ reap'[k] = reap[k]
             \/ todo'.main = todo.main \ {k} /\ reap'[k].by = "main"
    BY <1>1, <1>4
  <2>2. /\ reap'[k].at \in {"kill", "report"} => reap'[k] = reap[k]
        /\ main = "sweeping" =>
             (k \in todo.main \/ Reaps("main", k) =>
                k \in todo'.main \/ Reaps("main", k)')
    BY <2>1 DEF Reaps
  <2>3. Accounted(k)' <=> Accounted(k)
    BY <1>2 DEF Accounted, Alive
  <2>4. Generation(k)'
    BY <1>1, <1>2, <1>4, <2>2, <2>3 DEF Generation
  <2> QED BY <1>2, <1>4, <2>1, <2>4, OneTouched
<1>5. CASE JoinStops(k)
  <2>1. leases = {} \/ main # "sweeping"
    BY DEF IInv, SweepsUntouched
  <2>2. /\ UNCHANGED pc /\ todo'.main = todo.main
        /\ \/ UNCHANGED reap
           \/ /\ reap' = [reap EXCEPT ![k] = [by |-> "join", at |-> "term"]]
              /\ k \in leases
    BY <1>1, <1>5 DEF JoinStops, StopLease, Take
  <2> QED BY <1>4, <2>1, <2>2
<1>6. CASE MainStops(k)
  BY <1>4, <1>6 DEF MainStops, StopLease, Take
<1>7. CASE Adopt(k)
  <2>1. todo'.main = todo.main \ {k}
    BY <1>1, <1>7 DEF Adopt
  <2> QED BY <1>4, <1>7, <2>1 DEF Adopt, Take
<1>8. CASE Expire(k)
  <2>1. leases = {} \/ main # "sweeping"
    BY DEF IInv, SweepsUntouched
  <2>2. /\ UNCHANGED pc /\ todo' = todo
        /\ \/ UNCHANGED reap
           \/ /\ reap' = [reap EXCEPT ![k] = [by |-> "budget", at |-> "term"]]
              /\ k \in leases
    BY <1>8 DEF Expire, StopLease, Take, threads
  <2> QED BY <1>4, <2>1, <2>2
<1> QED BY <1>3, <1>5, <1>6, <1>7, <1>8

\* A frame is pushed again only when its latest attempt is accounted for.
LEMMA PushGenerations ==
  ASSUME IInv, Generations, NEW f \in Frames, Push(f)
  PROVE  Generations'
<1> DEFINE new == <<f, latest[f] + 1>>
<1>1. /\ TypeOK /\ main \in {"up", "signalled", "shutting", "waiting"}
      /\ latest[f] > 0 => pc[<<f, latest[f]>>] \in {"idle", "done"}
      /\ latest' = [latest EXCEPT ![f] = latest[f] + 1] /\ exited' = exited \ {f}
      /\ pc' = [pc EXCEPT ![new] = "pushed"]
      /\ UNCHANGED <<sess, handle, facts, reap, main, todo, hasty>>
  BY DEF IInv, Push, Step, Goto, table
<1>2. latest \in [Frames -> Nat] /\ pc \in [Keys -> Places]
  BY <1>1 DEF TypeOK, Places
<1>3. /\ latest'[f] = latest[f] + 1
      /\ \A g \in Frames \ {f} : latest'[g] = latest[g]
  BY <1>1, <1>2
<1>4. \A l \in Keys : pc'[l] = IF l = new THEN "pushed" ELSE pc[l]
  <2>1. pc' = [pc EXCEPT ![new] = "pushed"]
    BY <1>1
  <2> HIDE DEF new
  <2> QED BY <1>2, <2>1
<1> SUFFICES ASSUME NEW l \in Keys PROVE Generation(l)'
  BY DEF Generations
<1>5. /\ Generation(l) /\ l[1] \in Frames /\ l[2] \in Nat /\ latest[l[1]] \in Nat
      /\ l = <<l[1], l[2]>>
  BY <1>2, KeyParts DEF Generations, Keys
<1>6. Accounted(l)' <=> Accounted(l)
  BY <1>1 DEF Accounted, Alive
<1>7. CASE l[1] # f
  <2>1. latest'[l[1]] = latest[l[1]] /\ l # new /\ (l[1] \in exited' <=> l[1] \in exited)
    BY <1>1, <1>3, <1>5, <1>7
  <2>2. pc'[l] = pc[l]
    BY <1>4, <2>1
  <2> QED BY <1>1, <1>5, <1>6, <2>1, <2>2 DEF Generation, Reaps
<1>8. CASE l[1] = f
  <2>1. latest'[l[1]] = latest[f] + 1 /\ l[1] \notin exited'
    BY <1>1, <1>3, <1>8
  <2>2. CASE l[2] = latest[f] + 1
    <3>1. l = new /\ l[2] > latest[l[1]]
      BY <1>2, <1>5, <1>8, <2>2
    <3>2. pc'[l] = "pushed" /\ sess[l] = "none"
      BY <1>4, <1>5, <3>1 DEF Generation
    <3> QED BY <1>1, <1>5, <2>1, <2>2, <3>2 DEF Generation
  <2>3. CASE l[2] = latest[f]
    <3>1. l # new /\ l = <<f, latest[f]>> /\ l[2] > 0
      BY <1>2, <1>5, <1>8, <2>3 DEF Keys
    <3>2. pc'[l] = pc[l] /\ pc[l] \in {"idle", "done"}
      BY <1>1, <1>4, <2>3, <3>1
    <3>3. Accounted(l)
      BY <1>1, <1>5, <1>8, <2>3, <3>2 DEF Generation
    <3> QED BY <1>1, <1>2, <1>5, <1>6, <1>8, <2>1, <2>3, <3>2, <3>3 DEF Generation
  <2>4. CASE l[2] < latest[f]
    <3>1. l # new
      BY <1>2, <1>5, <2>4
    <3>2. pc'[l] = pc[l] /\ pc[l] \in {"idle", "done"} /\ Accounted(l)
      BY <1>2, <1>4, <1>5, <1>8, <2>4, <3>1 DEF Generation
    <3> QED BY <1>1, <1>2, <1>5, <1>6, <1>8, <2>1, <2>4, <3>2 DEF Generation
  <2>5. CASE l[2] > latest[f] + 1
    <3>1. l # new /\ l[2] > latest[l[1]]
      BY <1>2, <1>5, <1>8, <2>5
    <3>2. pc'[l] = pc[l] /\ sess[l] = "none" /\ pc[l] = "idle"
      BY <1>4, <1>5, <3>1 DEF Generation, IInv, LeasesUntouched
    <3> QED BY <1>1, <1>5, <2>1, <2>5, <3>2 DEF Generation
  <2> QED BY <1>2, <1>5, <2>2, <2>3, <2>4, <2>5
<1> QED BY <1>7, <1>8

\* Signals, the end of the engine and the sweep of the next one.
LEMMA MainGenerations ==
  ASSUME IInv, Generations, Shutdown \/ MainWaits \/ Signal \/ End \/ Restart
  PROVE  Generations'
<1>1. TypeOK /\ UNCHANGED <<sess, handle, facts, latest, exited, hasty>>
  BY DEF IInv, Shutdown, MainWaits, Signal, End, Restart, disk
<1> SUFFICES ASSUME NEW l \in Keys PROVE Generation(l)'
  BY DEF Generations
<1>2. Generation(l)
  BY DEF Generations
<1>3. Accounted(l)' <=> Accounted(l)
  BY <1>1 DEF Accounted, Alive
<1>4. CASE Shutdown
  <2>1. UNCHANGED <<pc, reap>> /\ main = "signalled" /\ main' = "shutting"
    BY <1>4 DEF Shutdown, table
  <2> QED BY <1>1, <1>2, <1>3, <2>1 DEF Generation
<1>5. CASE MainWaits
  <2>1. /\ UNCHANGED <<pc, reap, todo>> /\ main # "off" /\ main' # "sweeping"
        /\ todo.main = {} /\ ~Busy("main")
    BY <1>5 DEF MainWaits, table
  <2>2. l \notin todo.main /\ ~Reaps("main", l)
    BY <2>1 DEF Busy
  <2> QED BY <1>1, <1>2, <1>3, <2>1, <2>2 DEF Generation
<1>6. CASE Signal
  <2>1. /\ UNCHANGED <<reap, todo>> /\ main = "up" /\ main' = "signalled"
        /\ pc'[l] = pc[l] \/ (pc[l] \notin {"idle", "done"} /\ pc'[l] = "aborted")
    BY <1>6 DEF Signal, table
  <2> QED BY <1>1, <1>2, <1>3, <2>1 DEF Generation
<1>7. CASE End
  <2>1. main' = "off" /\ pc'[l] = "idle" /\ reap'[l] = Nobody
    BY <1>7 DEF End, Idle
  <2> QED BY <1>1, <1>2, <1>3, <2>1 DEF Generation, Nobody
<1>8. CASE Restart
  <2>1. UNCHANGED <<pc, reap>> /\ main' = "sweeping" /\ todo'.main = Outstanding
    BY <1>1, <1>8 DEF Restart, table, TypeOK
  <2>2. l[2] = latest[l[1]] => Accounted(l) \/ l \in Outstanding
    <3>1. l[1] \in exited /\ l[2] = latest[l[1]] => Accounted(l)
      BY <1>2 DEF Generation
    <3>2. facts[l] # 0 => Accounted(l)
      <4>1. facts[l] \in Nat
        BY <1>1 DEF TypeOK
      <4>2. facts[l] > 0 => sess[l] = "gone"
        BY <1>2 DEF Generation
      <4> QED BY <4>1, <4>2 DEF Accounted, Alive
    <3>3. handle[l] = "none" => Accounted(l)
      BY DEF Accounted
    <3> QED BY <3>1, <3>2, <3>3 DEF Outstanding
  <2> QED BY <1>1, <1>2, <1>3, <2>1, <2>2 DEF Generation
<1> QED BY <1>4, <1>5, <1>6, <1>7, <1>8

\* Every step preserves it.
LEMMA NextGenerations == IInv /\ Generations /\ [Next]_vars => Generations'
<1> SUFFICES ASSUME IInv, Generations, [Next]_vars PROVE Generations'
  OBVIOUS
<1>1. CASE UNCHANGED vars
  BY <1>1 DEF vars, disk, table, threads, Generations, Generation, Accounted, Alive, Reaps
<1>2. ASSUME NEW k \in Keys, ReapStep(k) \/ LaunchStep(k) \/ SystemStep(k)
      PROVE  Generations'
  BY <1>2, LaunchGenerations, SessionGenerations
<1>3. ASSUME NEW k \in Keys, JoinTimesOut(k) \/ JoinStops(k) \/ Expire(k)
      PROVE  Generations'
  BY <1>3, StopGenerations
<1>4. ASSUME NEW f \in Frames, Push(f) PROVE Generations'
  BY <1>4, PushGenerations
<1>5. CASE MainStep \/ Signal \/ End \/ Restart
  BY <1>5, StopGenerations, MainGenerations DEF MainStep
<1> QED BY <1>1, <1>2, <1>3, <1>4, <1>5 DEF Next

-----------------------------------------------------------------------------
(* Nobody escapes: who holds a session that is there. *)

\* The places of a launching thread from its process to its _finished, and those
\* where its lease may be.
Launched == {"spawned", "writing", "doomed", "overdue", "waiting",
             "stopping", "failing", "stopped", "failed", "finishing"}
Leased   == Launched \cup {"prepared", "aborted"}
\* The places after its _finished, and the states of the main thread after a signal.
Behind   == {"returned", "joining", "joined", "done"}
Ending   == {"signalled", "shutting", "waiting", "over"}

\* The record is its own thread's to publish, and worker.handle is not there before it;
\* a lease lasts at most until that thread's _finished.
Recorded(k) ==
  /\ k[2] > latest[k[1]] \/ pc[k] \in {"pushed", "prepared"} => handle[k] = "none"
  /\ pc[k] = "prepared" => k \in leases
  /\ k \in leases => pc[k] \in Leased
  /\ k \in known => pc[k] \notin {"idle", "pushed", "prepared", "spawned"}

\* From its Popen on a session that is there is held by its lease, or by who took it.
Held(k) ==
  Alive(k) =>
    /\ pc[k] \in Launched \ {"spawned"} => k \in known
    /\ pc[k] \in Launched \cup {"aborted"} => k \in leases \/ ~Reaps("nobody", k)
    /\ pc[k] = "finished" => ~Reaps("nobody", k)
    /\ pc[k] \in Behind => reap[k].by \in {"main", "join", "budget"}

\* A lease whose stop was noted is one nobody has the record of, or its thread is on
\* the way to make the stop good; a shutdown misses no lease.
Noted(k) ==
  /\ k \in leases /\ k \in known /\ k \in reason =>
       \/ pc[k] \in {"doomed", "overdue", "failing"}
       \/ pc[k] = "aborted" /\ (main = "signalled" \/ k \in todo.main)
  /\ main \in {"shutting", "waiting", "over"} /\ k \in leases =>
       k \in todo.main \/ k \in reason

Hold(k) == Recorded(k) /\ Held(k) /\ Noted(k)

\* Joins stop sessions only while a root thread is in one, which no signal unwinds;
\* the main thread only in a sweep or a shutdown, which has closed the supervisor.
Stoppers ==
  /\ todo.join # {} \/ Busy("join") => \E k \in Keys : k[1] = Root /\ pc[k] = "joining"
  /\ main \in Ending => \A k \in Keys : k[1] = Root => pc[k] \in {"idle", "done", "aborted"}
  /\ Busy("main") => main \in {"sweeping", "shutting"}
  /\ main \in {"shutting", "waiting", "over"} => closed
  /\ main \in {"waiting", "over"} => todo.main = {}

Holds == (\A k \in Keys : Hold(k)) /\ Stoppers

\* Nothing is there at the beginning.
LEMMA InitHolds == Init => Holds
<1> SUFFICES ASSUME Init PROVE Holds
  OBVIOUS
<1>1. /\ \A k \in Keys : pc[k] = "idle" /\ sess[k] = "none" /\ handle[k] = "none"
                         /\ reap[k] = Nobody
      /\ leases = {} /\ known = {} /\ main = "up" /\ todo.join = {}
  BY DEF Init, Idle
<1>2. \A k \in Keys : Hold(k)
  BY <1>1 DEF Hold, Recorded, Held, Noted, Alive, Leased, Launched, Behind
<1>3. Stoppers
  BY <1>1 DEF Stoppers, Busy, Reaps, Nobody, Ending
<1> QED BY <1>2, <1>3 DEF Holds

\* The steps that touch one attempt.
Touches(k) ==
  \/ LaunchStep(k) \/ SystemStep(k) \/ ReapStep(k)
  \/ JoinTimesOut(k) \/ JoinStops(k) \/ MainStops(k) \/ Adopt(k) \/ Expire(k)

\* They leave the others alone, and what no attempt has of its own.
LEMMA OthersKept ==
  ASSUME IInv, NEW k \in Keys, Touches(k)
  PROVE  /\ UNCHANGED <<latest, main, closed>>
         /\ todo'.main = todo.main \/ todo'.main = todo.main \ {k}
         /\ \A l \in Keys \ {k} :
              /\ sess'[l] = sess[l] /\ handle'[l] = handle[l] /\ pc'[l] = pc[l]
              /\ reap'[l] = reap[l] /\ (l \in leases' <=> l \in leases)
              /\ (l \in known' <=> l \in known) /\ (l \in reason' <=> l \in reason)
<1> DEFINE Moving == \/ Prepare(k) \/ Spawn(k) \/ SpawnFails(k) \/ Publish(k)
                     \/ WriteHandle(k) \/ WriteFails(k) \/ Returns(k) \/ Stopped(k)
                     \/ Finished(k) \/ Joined(k) \/ ExitFrame(k) \/ JoinTimesOut(k)
           Stopping == \/ StopOwn(k) \/ Finish(k) \/ JoinStops(k) \/ MainStops(k)
                       \/ Adopt(k) \/ Expire(k)
           Ceasing == SystemStep(k) \/ ReapStep(k)
<1>1. /\ TypeOK /\ todo \in [main : SUBSET Keys, join : SUBSET Keys]
      /\ sess \in [Keys -> {"none", "running", "orphans", "gone"}]
      /\ handle \in [Keys -> {"none", "engine", "adapter"}]
      /\ pc \in [Keys -> Places] /\ reap \in [Keys -> Reap]
  BY DEF IInv, TypeOK, Places, Reap
<1>2. CASE Moving
  <2>1. UNCHANGED <<latest, main, closed, reap, reason>> /\ todo'.main = todo.main
    BY <1>1, <1>2 DEF Prepare, Spawn, SpawnFails, Publish, WriteHandle, WriteFails,
       Returns, Stopped, Finished, Joined, ExitFrame, JoinTimesOut, Step, disk, table
  <2>2. \A l \in Keys \ {k} : pc'[l] = pc[l]
    BY <1>1, <1>2 DEF Prepare, Spawn, SpawnFails, Publish, WriteHandle, WriteFails,
       Returns, Stopped, Finished, Joined, ExitFrame, JoinTimesOut, Step, Goto
  <2>3. \A l \in Keys \ {k} : sess'[l] = sess[l]
    BY <1>1, <1>2 DEF Prepare, Spawn, SpawnFails, Publish, WriteHandle, WriteFails,
       Returns, Stopped, Finished, Joined, ExitFrame, JoinTimesOut
  <2>4. \A l \in Keys \ {k} : handle'[l] = handle[l]
    BY <1>1, <1>2 DEF Prepare, Spawn, SpawnFails, Publish, WriteHandle, WriteFails,
       Returns, Stopped, Finished, Joined, ExitFrame, JoinTimesOut, disk
  <2>5. leases' \in {leases, leases \cup {k}} /\ known' \in {known, known \cup {k}}
    BY <1>2 DEF Prepare, Spawn, SpawnFails, Publish, WriteHandle, WriteFails, Returns,
       Stopped, Finished, Joined, ExitFrame, JoinTimesOut, table
  <2>6. \A l \in Keys \ {k} : (l \in leases' <=> l \in leases) /\ (l \in known' <=> l \in known)
    BY <2>5
  <2> QED BY <2>1, <2>2, <2>3, <2>4, <2>6
<1>3. CASE Stopping
  <2>1. /\ UNCHANGED <<latest, main, closed, sess, handle, known>>
        /\ todo'.main = todo.main \/ todo'.main = todo.main \ {k}
    BY <1>1, <1>3 DEF StopOwn, Finish, JoinStops, MainStops, Adopt, Expire, Step,
       StopLease, FinishLease, disk, threads
  <2>2. \A l \in Keys \ {k} : pc'[l] = pc[l]
    BY <1>1, <1>3 DEF StopOwn, Finish, JoinStops, MainStops, Adopt, Expire, Step, Goto,
       threads
  <2>3. \A l \in Keys \ {k} : reap'[l] = reap[l]
    BY <1>1, <1>3 DEF StopOwn, Finish, JoinStops, MainStops, Adopt, Expire, StopLease,
       FinishLease, Take
  <2>4. leases' \in {leases, leases \ {k}} /\ reason' \in {reason, reason \cup {k}}
    BY <1>3 DEF StopOwn, Finish, JoinStops, MainStops, Adopt, Expire, StopLease,
       FinishLease, Take
  <2>5. \A l \in Keys \ {k} : (l \in leases' <=> l \in leases) /\ (l \in reason' <=> l \in reason)
    BY <2>4
  <2> QED BY <2>1, <2>2, <2>3, <2>5
<1>4. CASE Ceasing
  <2>1. UNCHANGED <<latest, main, closed, todo, pc, leases, known, reason>>
    BY <1>4 DEF SystemStep, LeaderEnds, OrphansEnd, AdapterWrites, ReapStep, Terminate,
       Kill, Report, Release, disk, table, threads
  <2>2. \A l \in Keys \ {k} : sess'[l] = sess[l]
    BY <1>1, <1>4 DEF SystemStep, LeaderEnds, OrphansEnd, AdapterWrites, ReapStep,
       Terminate, Kill, Report
  <2>3. \A l \in Keys \ {k} : handle'[l] = handle[l]
    BY <1>1, <1>4 DEF SystemStep, LeaderEnds, OrphansEnd, AdapterWrites, ReapStep,
       Terminate, Kill, Report, disk
  <2>4. \A l \in Keys \ {k} : reap'[l] = reap[l]
    BY <1>1, <1>4 DEF SystemStep, LeaderEnds, OrphansEnd, AdapterWrites, ReapStep,
       Terminate, Kill, Report, Release, table
  <2> QED BY <2>1, <2>2, <2>3, <2>4
<1> QED BY <1>2, <1>3, <1>4 DEF Touches, LaunchStep

\* What such a step has to show.
LEMMA OneHeld ==
  ASSUME IInv, Holds, NEW k \in Keys, Touches(k), Hold(k)', Stoppers'
  PROVE  Holds'
<1> SUFFICES ASSUME NEW l \in Keys, l # k PROVE Hold(l)'
  BY DEF Holds
<1>1. Hold(l)
  BY DEF Holds
<1>2. /\ UNCHANGED <<latest, main>> /\ (l \in todo.main => l \in todo'.main)
      /\ sess'[l] = sess[l] /\ handle'[l] = handle[l] /\ pc'[l] = pc[l]
      /\ reap'[l] = reap[l] /\ (l \in leases' <=> l \in leases)
      /\ (l \in known' <=> l \in known) /\ (l \in reason' <=> l \in reason)
  BY OthersKept
<1>3. Recorded(l)'
  BY <1>1, <1>2 DEF Hold, Recorded
<1>4. Held(l)'
  BY <1>1, <1>2 DEF Hold, Held, Alive, Reaps
<1>5. Noted(l)'
  BY <1>1, <1>2 DEF Hold, Noted
<1> QED BY <1>3, <1>4, <1>5 DEF Hold

\* Such a step keeps the bookkeeping of who stops what.
LEMMA StoppersKept ==
  ASSUME IInv, Holds, NEW k \in Keys, Touches(k)
  PROVE  Stoppers'
<1> DEFINE Launching == LaunchStep(k) \/ SystemStep(k) \/ ReapStep(k)
<1>1. /\ TypeOK /\ Stoppers /\ todo \in [main : SUBSET Keys, join : SUBSET Keys]
      /\ pc \in [Keys -> Places] /\ reap \in [Keys -> Reap]
  BY DEF IInv, TypeOK, Holds, Places, Reap
<1>2. /\ UNCHANGED <<main, closed>> /\ todo'.main \subseteq todo.main
      /\ \A l \in Keys \ {k} : pc'[l] = pc[l] /\ reap'[l] = reap[l]
  BY OthersKept
<1>3. \/ reap'[k].by \in {reap[k].by, "nobody"}
      \/ Launching /\ reap'[k].by = "launch"
      \/ JoinStops(k) /\ reap'[k].by = "join"
      \/ main \in {"sweeping", "shutting"} /\ reap'[k].by = "main"
      \/ reap'[k].by = "budget"
  <2>1. CASE \/ Prepare(k) \/ Spawn(k) \/ SpawnFails(k) \/ Publish(k) \/ WriteHandle(k)
             \/ WriteFails(k) \/ Returns(k) \/ Stopped(k) \/ Finished(k) \/ Joined(k)
             \/ ExitFrame(k) \/ JoinTimesOut(k) \/ SystemStep(k)
    <3>1. UNCHANGED reap
      BY <2>1 DEF Prepare, Spawn, SpawnFails, Publish, WriteHandle, WriteFails, Returns,
         Stopped, Finished, Joined, ExitFrame, JoinTimesOut, SystemStep, LeaderEnds,
         OrphansEnd, AdapterWrites, table
    <3> QED BY <3>1
  <2>2. CASE StopOwn(k) \/ Finish(k)
    <3>1. reap' = reap \/ reap' = [reap EXCEPT ![k] = [by |-> "launch", at |-> "term"]]
      BY <2>2 DEF StopOwn, Finish, StopLease, FinishLease, Take
    <3>2. Launching
      BY <2>2 DEF LaunchStep
    <3> QED BY <1>1, <3>1, <3>2
  <2>3. CASE ReapStep(k)
    <3>1. \/ reap' = [reap EXCEPT ![k] = Nobody]
          \/ reap' = [reap EXCEPT ![k].at = "kill"]
          \/ reap' = [reap EXCEPT ![k].at = "report"]
      BY <2>3 DEF ReapStep, Terminate, Kill, Report, Release
    <3>2. reap[k] \in Reap
      BY <1>1
    <3>3. reap'[k] = Nobody \/ reap'[k].by = reap[k].by
      BY <1>1, <3>1, <3>2 DEF Reap
    <3> QED BY <3>3 DEF Nobody
  <2>4. CASE JoinStops(k)
    <3>1. reap' = reap \/ reap' = [reap EXCEPT ![k] = [by |-> "join", at |-> "term"]]
      BY <2>4 DEF JoinStops, StopLease, Take
    <3> QED BY <1>1, <2>4, <3>1
  <2>5. CASE MainStops(k) \/ Adopt(k)
    <3>1. /\ reap' = reap \/ reap' = [reap EXCEPT ![k] = [by |-> "main", at |-> "term"]]
          /\ main \in {"sweeping", "shutting"}
      BY <2>5 DEF MainStops, Adopt, StopLease, Take
    <3> QED BY <1>1, <3>1
  <2>6. CASE Expire(k)
    <3>1. reap' = reap \/ reap' = [reap EXCEPT ![k] = [by |-> "budget", at |-> "term"]]
      BY <2>6 DEF Expire, StopLease, Take
    <3> QED BY <1>1, <3>1
  <2> QED BY <2>1, <2>2, <2>3, <2>4, <2>5, <2>6 DEF Touches, LaunchStep
<1>4. /\ Busy("main")' => main \in {"sweeping", "shutting"}
      /\ Busy("join")' => Busy("join") \/ JoinStops(k)
  <2>1. ASSUME Busy("main")' PROVE main \in {"sweeping", "shutting"}
    <3>1. PICK l \in Keys : reap'[l].by = "main"
      BY <2>1 DEF Busy, Reaps
    <3>2. reap[l].by = "main" \/ main \in {"sweeping", "shutting"}
      BY <1>2, <1>3, <3>1
    <3> QED BY <1>1, <3>2 DEF Stoppers, Busy, Reaps
  <2>2. ASSUME Busy("join")' PROVE Busy("join") \/ JoinStops(k)
    <3>1. PICK l \in Keys : reap'[l].by = "join"
      BY <2>2 DEF Busy, Reaps
    <3>2. reap[l].by = "join" \/ JoinStops(k)
      BY <1>2, <1>3, <3>1
    <3> QED BY <3>2 DEF Busy, Reaps
  <2> QED BY <2>1, <2>2
<1>5. \/ todo'.join = todo.join
      \/ JoinTimesOut(k)
      \/ JoinStops(k) /\ todo'.join \subseteq todo.join
  <2>1. CASE LaunchStep(k)
    BY <2>1 DEF LaunchStep, Prepare, Spawn, SpawnFails, Publish, WriteHandle, WriteFails,
       Returns, StopOwn, Stopped, Finish, Finished, Joined, ExitFrame, Step
  <2>2. CASE SystemStep(k) \/ ReapStep(k)
    BY <2>2 DEF SystemStep, LeaderEnds, OrphansEnd, AdapterWrites, ReapStep, Terminate,
       Kill, Report, threads
  <2>3. CASE JoinStops(k) \/ MainStops(k) \/ Adopt(k) \/ Expire(k)
    BY <1>1, <2>3 DEF JoinStops, MainStops, Adopt, Expire, threads
  <2> QED BY <2>1, <2>2, <2>3 DEF Touches
<1>6. \/ pc'[k] = pc[k]
      \/ Joined(k)
      \/ pc[k] \notin {"idle", "done", "aborted", "joining"}
  <2>1. CASE LaunchStep(k)
    BY <2>1 DEF LaunchStep, Prepare, Spawn, SpawnFails, Publish, WriteHandle, WriteFails,
       Returns, StopOwn, Stopped, Finish, Finished, Joined, ExitFrame, Step
  <2>2. CASE \/ SystemStep(k) \/ ReapStep(k) \/ JoinStops(k) \/ MainStops(k)
             \/ Adopt(k) \/ Expire(k)
    BY <2>2 DEF SystemStep, LeaderEnds, OrphansEnd, AdapterWrites, ReapStep, Terminate,
       Kill, Report, threads, JoinStops, MainStops, Adopt, Expire
  <2>3. CASE JoinTimesOut(k)
    BY <2>3 DEF JoinTimesOut
  <2> QED BY <2>1, <2>2, <2>3 DEF Touches
<1>7. Joined(k) => /\ todo.join = {} /\ todo'.join = {} /\ ~Busy("join")
                   /\ ~JoinStops(k) /\ pc[k] = "joining"
  BY DEF Joined, Step, JoinStops
<1>8. todo'.join # {} \/ Busy("join")' => \E l \in Keys : l[1] = Root /\ pc'[l] = "joining"
  <2> SUFFICES ASSUME todo'.join # {} \/ Busy("join")'
               PROVE  \E l \in Keys : l[1] = Root /\ pc'[l] = "joining"
    OBVIOUS
  <2>1. CASE JoinTimesOut(k)
    <3>1. k[1] = Root /\ pc' = [pc EXCEPT ![k] = "joining"]
      BY <2>1 DEF JoinTimesOut, Goto
    <3> QED BY <1>1, <3>1
  <2>2. CASE ~JoinTimesOut(k)
    <3>1. todo.join # {} \/ Busy("join")
      BY <1>4, <1>5, <2>2 DEF JoinStops
    <3>2. PICK l \in Keys : l[1] = Root /\ pc[l] = "joining"
      BY <1>1, <3>1 DEF Stoppers
    <3>3. pc'[l] = pc[l]
      BY <1>2, <1>6, <1>7, <3>1, <3>2
    <3> QED BY <3>2, <3>3
  <2> QED BY <2>1, <2>2
<1>9. main \in Ending =>
        \A l \in Keys : l[1] = Root => pc'[l] \in {"idle", "done", "aborted"}
  <2> SUFFICES ASSUME main \in Ending, NEW l \in Keys, l[1] = Root
               PROVE  pc'[l] \in {"idle", "done", "aborted"}
    OBVIOUS
  <2>1. pc[l] \in {"idle", "done", "aborted"}
    BY <1>1 DEF Stoppers
  <2>2. pc'[l] = pc[l]
    BY <1>2, <1>6, <1>7, <2>1
  <2> QED BY <2>1, <2>2
<1>10. (main \in {"shutting", "waiting", "over"} => closed)
       /\ (main \in {"waiting", "over"} => todo'.main = {})
  BY <1>1, <1>2 DEF Stoppers
<1> QED BY <1>2, <1>4, <1>8, <1>9, <1>10 DEF Stoppers

\* A stop takes the lease of a session that has a record; of any other it notes the
\* reason.
LEMMA StopTakes ==
  ASSUME IInv, NEW k \in Keys, NEW who \in {"launch", "main", "join", "budget"},
         StopLease(who, k)
  PROVE  /\ known' = known
         /\ \/ k \notin leases /\ leases' = leases /\ reason' = reason /\ reap' = reap
            \/ /\ k \in leases /\ HasRecord(k) /\ k \notin leases'
               /\ reap'[k] = [by |-> who, at |-> "term"]
            \/ /\ k \in leases /\ k \notin known /\ leases' = leases
               /\ k \in reason' /\ reap' = reap
<1>1. reap \in [Keys -> Reap]
  BY DEF IInv, TypeOK, Reap
<1>2. CASE k \notin leases
  BY <1>2 DEF StopLease
<1>3. CASE k \in leases /\ HasRecord(k)
  <2>1. /\ known' = known /\ leases' = leases \ {k}
        /\ reap' = [reap EXCEPT ![k] = [by |-> who, at |-> "term"]]
    BY <1>3 DEF StopLease, Take
  <2> QED BY <1>1, <1>3, <2>1
<1>4. CASE k \in leases /\ ~HasRecord(k)
  BY <1>4 DEF StopLease, HasRecord
<1> QED BY <1>2, <1>3, <1>4

\* The launching thread holds its session, or leaves it to who took the lease.
LEMMA LaunchHolds ==
  ASSUME IInv, Generations, Holds, NEW k \in Keys, LaunchStep(k)
  PROVE  Hold(k)'
<1>1. /\ TypeOK /\ Generation(k) /\ Hold(k)
      /\ sess \in [Keys -> {"none", "running", "orphans", "gone"}]
      /\ handle \in [Keys -> {"none", "engine", "adapter"}]
      /\ pc \in [Keys -> Places] /\ reap \in [Keys -> Reap]
  BY DEF IInv, TypeOK, Generations, Holds, Places, Reap
<1>2. UNCHANGED <<latest, main, todo>>
  BY DEF LaunchStep, Prepare, Spawn, SpawnFails, Publish, WriteHandle, WriteFails,
         Returns, StopOwn, Stopped, Finish, Finished, Joined, ExitFrame, Step, disk,
         table
<1>3. pc[k] \notin {"idle", "done"} => ~(k[2] > latest[k[1]])
  BY <1>1, KeyParts DEF Generation, TypeOK
<1> USE DEF Launched, Leased, Behind
<1>4. CASE Prepare(k)
  <2>1. /\ pc[k] = "pushed" /\ pc'[k] = IF closed THEN "returned" ELSE "prepared"
        /\ leases' = IF closed THEN leases ELSE leases \cup {k}
        /\ UNCHANGED <<sess, handle, known, reason, reap>>
    BY <1>1, <1>4 DEF Prepare, Step, Goto, disk
  <2>2. sess[k] = "none" /\ k \notin known /\ k \notin leases
    BY <1>1, <2>1 DEF Generation, Hold, Recorded
  <2>3. closed \/ main \notin {"shutting", "waiting", "over"}
    BY DEF Holds, Stoppers
  <2>4. Recorded(k)' /\ Noted(k)'
    BY <1>1, <1>2, <1>3, <2>1, <2>2, <2>3 DEF Hold, Recorded, Noted
  <2>5. Held(k)'
    BY <2>1, <2>2 DEF Held, Alive
  <2> QED BY <2>4, <2>5 DEF Hold
<1>5. CASE Spawn(k) \/ SpawnFails(k)
  <2>1. /\ pc[k] = "prepared" /\ pc'[k] \in {"spawned", "finishing", "failing"}
        /\ sess' = sess \/ pc'[k] = "spawned"
        /\ UNCHANGED <<handle, leases, known, reason, reap>>
    BY <1>1, <1>5 DEF Spawn, SpawnFails, Step, Goto, disk, table
  <2>2. sess[k] = "none" /\ k \notin known /\ k \in leases
    BY <1>1, <2>1 DEF Generation, Hold, Recorded
  <2>3. Recorded(k)' /\ Noted(k)'
    BY <1>1, <1>2, <1>3, <2>1, <2>2 DEF Hold, Recorded, Noted
  <2>4. Held(k)'
    BY <2>1, <2>2 DEF Held, Alive
  <2> QED BY <2>3, <2>4 DEF Hold
<1>6. CASE Publish(k)
  <2>1. /\ pc[k] = "spawned" /\ pc'[k] = IF k \in reason THEN "doomed" ELSE "writing"
        /\ known' = known \cup {k} /\ UNCHANGED <<sess, handle, leases, reason, reap>>
    BY <1>1, <1>6 DEF Publish, Step, Goto, disk
  <2>2. Recorded(k)' /\ Noted(k)'
    BY <1>1, <1>2, <1>3, <2>1 DEF Hold, Recorded, Noted
  <2>3. Held(k)'
    BY <1>1, <2>1 DEF Hold, Held, Alive, Reaps
  <2> QED BY <2>2, <2>3 DEF Hold
<1>7. CASE WriteHandle(k) \/ WriteFails(k) \/ Returns(k)
  <2>1. /\ \/ pc[k] = "writing" /\ pc'[k] \in {"waiting", "failing"}
           \/ pc[k] = "doomed" /\ pc'[k] \in {"overdue", "failing"}
           \/ pc[k] = "waiting" /\ pc'[k] \in {"finishing", "stopping"}
        /\ UNCHANGED <<sess, leases, known, reason, reap>>
    BY <1>1, <1>7 DEF WriteHandle, WriteFails, Returns, Step, Goto, disk, table
  <2>2. Recorded(k)' /\ Noted(k)'
    BY <1>1, <1>2, <1>3, <2>1 DEF Hold, Recorded, Noted
  <2>3. Held(k)'
    BY <1>1, <2>1 DEF Hold, Held, Alive, Reaps
  <2> QED BY <2>2, <2>3 DEF Hold
<1>8. CASE StopOwn(k)
  <2>1. /\ \/ pc[k] = "stopping" /\ pc'[k] = "stopped"
           \/ pc[k] = "overdue" /\ pc'[k] = "waiting"
           \/ pc[k] = "failing" /\ pc'[k] = "failed"
        /\ UNCHANGED <<sess, handle>>
    BY <1>1, <1>8 DEF StopOwn, Step, Goto, disk
  <2>2. StopLease("launch", k)
    BY <1>8 DEF StopOwn
  <2>3. /\ known' = known
        /\ \/ k \notin leases /\ leases' = leases /\ reason' = reason /\ reap' = reap
           \/ /\ k \in leases /\ k \notin leases'
              /\ reap'[k] = [by |-> "launch", at |-> "term"]
           \/ /\ k \in leases /\ k \notin known /\ leases' = leases
              /\ k \in reason' /\ reap' = reap
    BY <1>1, <2>2, StopTakes
  <2>4. Recorded(k)' /\ Noted(k)'
    BY <1>1, <1>2, <1>3, <2>1, <2>3 DEF Hold, Recorded, Noted
  <2>5. Held(k)'
    BY <1>1, <2>1, <2>3 DEF Hold, Held, Alive, Reaps
  <2> QED BY <2>4, <2>5 DEF Hold
<1>9. CASE Stopped(k)
  <2>1. /\ pc[k] \in {"stopped", "failed"} /\ pc'[k] = "finishing"
        /\ sess'[k] = sess[k] \/ sess[k] = "running"
        /\ UNCHANGED <<handle, leases, known, reason, reap>>
    BY <1>1, <1>9 DEF Stopped, Step, Goto, disk, table
  <2>2. Recorded(k)' /\ Noted(k)'
    BY <1>1, <1>2, <1>3, <2>1 DEF Hold, Recorded, Noted
  <2>3. Held(k)'
    BY <1>1, <2>1 DEF Hold, Held, Alive, Reaps
  <2> QED BY <2>2, <2>3 DEF Hold
<1>10. CASE Finish(k)
  <2>1. /\ pc[k] = "finishing" /\ pc'[k] = "finished" /\ FinishLease(k)
        /\ UNCHANGED <<sess, handle>>
    BY <1>1, <1>10 DEF Finish, Step, Goto, disk
  <2>2. /\ k \notin leases' /\ known' = known
        /\ \/ reap' = [reap EXCEPT ![k] = [by |-> "launch", at |-> "term"]]
           \/ ~(k \in leases /\ k \in known) /\ reap' = reap
    BY <2>1 DEF FinishLease, Take, HasRecord
  <2>3. reap'[k].by = "launch" \/ (~(k \in leases /\ k \in known) /\ reap' = reap)
    BY <1>1, <2>2
  <2>4. Recorded(k)' /\ Noted(k)'
    BY <1>1, <1>2, <1>3, <2>1, <2>2 DEF Hold, Recorded, Noted
  <2>5. Held(k)'
    BY <1>1, <2>1, <2>3 DEF Hold, Held, Alive, Reaps
  <2> QED BY <2>4, <2>5 DEF Hold
<1>11. CASE Finished(k) \/ Joined(k) \/ ExitFrame(k)
  <2>1. /\ \/ pc[k] = "finished" /\ pc'[k] = "returned" /\ ~Reaps("launch", k)
           \/ pc[k] \in Behind /\ pc'[k] \in Behind
        /\ UNCHANGED <<sess, handle, leases, known, reason, reap>>
    BY <1>1, <1>11 DEF Finished, Joined, ExitFrame, Step, Goto, disk, table
  <2>2. Recorded(k)' /\ Noted(k)'
    BY <1>1, <1>2, <1>3, <2>1 DEF Hold, Recorded, Noted
  <2>3. reap[k].by \in {"nobody", "launch", "main", "join", "budget"}
    BY <1>1 DEF Reap
  <2>4. Held(k)'
    BY <1>1, <2>1, <2>3 DEF Hold, Held, Alive, Reaps
  <2> QED BY <2>2, <2>4 DEF Hold
<1> QED BY <1>4, <1>5, <1>6, <1>7, <1>8, <1>9, <1>10, <1>11 DEF LaunchStep

\* A session ends only in the hands of the operating system or of who reaps it, and a
\* reap is over only when the session is empty.
LEMMA SessionHolds ==
  ASSUME IInv, Generations, Holds, NEW k \in Keys, SystemStep(k) \/ ReapStep(k)
  PROVE  Hold(k)'
<1>1. /\ TypeOK /\ Generation(k) /\ Hold(k)
      /\ sess \in [Keys -> {"none", "running", "orphans", "gone"}]
      /\ handle \in [Keys -> {"none", "engine", "adapter"}]
      /\ reap \in [Keys -> Reap]
  BY DEF IInv, TypeOK, Generations, Holds, Reap
<1>2. UNCHANGED <<latest, main, todo, pc, leases, known, reason>>
  BY DEF SystemStep, LeaderEnds, OrphansEnd, AdapterWrites, ReapStep, Terminate, Kill,
         Report, Release, disk, table, threads
<1>3. Alive(k)' => Alive(k)
  <2>1. sess' = sess \/ Alive(k)
        \/ sess' = [sess EXCEPT ![k] = "gone"]
    BY DEF SystemStep, LeaderEnds, OrphansEnd, AdapterWrites, ReapStep, Terminate, Kill,
           Report, Alive
  <2>2. CASE sess' = sess \/ sess' = [sess EXCEPT ![k] = "gone"]
    BY <1>1, <2>2 DEF Alive
  <2> QED BY <2>1, <2>2
<1>4. Alive(k)' => reap'[k].by = reap[k].by
  <2>1. CASE SystemStep(k)
    BY <2>1 DEF SystemStep, LeaderEnds, OrphansEnd, AdapterWrites, table
  <2>2. CASE Terminate(k)
    <3>1. sess' = sess /\ (Alive(k) => reap' = [reap EXCEPT ![k].at = "kill"])
      BY <2>2 DEF Terminate
    <3>2. Alive(k)' => Alive(k)
      BY <1>3
    <3>3. reap[k] \in Reap
      BY <1>1
    <3> QED BY <1>1, <3>1, <3>2, <3>3 DEF Reap
  <2>3. CASE Kill(k)
    <3>1. sess' = [sess EXCEPT ![k] = "gone"]
      BY <2>3 DEF Kill
    <3> QED BY <1>1, <3>1 DEF Alive
  <2>4. CASE Report(k)
    BY <1>1, <2>4 DEF Report, Generation, Alive
  <2> QED BY <2>1, <2>2, <2>3, <2>4 DEF ReapStep
<1>5. handle'[k] = handle[k] \/ Alive(k)
  BY DEF SystemStep, LeaderEnds, OrphansEnd, AdapterWrites, ReapStep, Terminate, Kill,
         Report, Alive, disk
<1>6. Recorded(k)'
  <2>1. Alive(k) => /\ ~(k[2] > latest[k[1]])
                    /\ pc[k] \notin {"pushed", "prepared"}
    BY <1>1 DEF Generation, Alive
  <2> QED BY <1>1, <1>2, <1>5, <2>1 DEF Hold, Recorded
<1>7. Held(k)'
  BY <1>1, <1>2, <1>3, <1>4 DEF Hold, Held, Reaps
<1>8. Noted(k)'
  BY <1>1, <1>2 DEF Hold, Noted
<1> QED BY <1>6, <1>7, <1>8 DEF Hold

\* Who stops a session from elsewhere takes it over, or leaves it to its own thread.
LEMMA StopHolds ==
  ASSUME IInv, Generations, Holds, NEW k \in Keys,
         JoinStops(k) \/ MainStops(k) \/ Adopt(k) \/ JoinTimesOut(k) \/ Expire(k)
  PROVE  Hold(k)'
<1>1. /\ TypeOK /\ Generation(k) /\ Hold(k)
      /\ pc \in [Keys -> Places] /\ reap \in [Keys -> Reap]
      /\ todo \in [main : SUBSET Keys, join : SUBSET Keys]
  BY DEF IInv, TypeOK, Generations, Holds, Places, Reap
<1>2. UNCHANGED <<sess, handle, latest, main>>
  BY DEF JoinStops, MainStops, Adopt, JoinTimesOut, Expire, disk, threads
<1> USE DEF Launched, Leased, Behind
<1>3. CASE JoinTimesOut(k)
  <2>1. /\ pc[k] = "returned" /\ pc'[k] = "joining"
        /\ UNCHANGED <<leases, known, reason, reap>> /\ todo'.main = todo.main
    BY <1>1, <1>3 DEF JoinTimesOut, Goto, table
  <2>2. ~(k[2] > latest[k[1]])
    BY <1>1, <2>1, KeyParts DEF Generation, TypeOK
  <2>3. Recorded(k)' /\ Noted(k)'
    BY <1>1, <1>2, <2>1, <2>2 DEF Hold, Recorded, Noted
  <2>4. Held(k)'
    BY <1>1, <1>2, <2>1 DEF Hold, Held, Alive, Reaps
  <2> QED BY <2>3, <2>4 DEF Hold
<1>4. ASSUME NEW who \in {"main", "join", "budget"}, StopLease(who, k), UNCHANGED pc,
             todo'.main = todo.main \/ k \notin todo'.main
      PROVE  Hold(k)'
  <2>1. /\ known' = known
        /\ \/ k \notin leases /\ leases' = leases /\ reason' = reason /\ reap' = reap
           \/ /\ k \in leases /\ HasRecord(k) /\ k \notin leases'
              /\ reap'[k] = [by |-> who, at |-> "term"]
           \/ /\ k \in leases /\ k \notin known /\ leases' = leases
              /\ k \in reason' /\ reap' = reap
    BY <1>1, <1>4, StopTakes
  <2>2. Recorded(k)' /\ Noted(k)'
    BY <1>1, <1>2, <1>4, <2>1 DEF Hold, Recorded, Noted, HasRecord
  <2>3. Held(k)'
    BY <1>1, <1>2, <1>4, <2>1 DEF Hold, Held, Alive, Reaps, Recorded
  <2> QED BY <2>2, <2>3 DEF Hold
<1>5. CASE JoinStops(k)
  BY <1>1, <1>4, <1>5 DEF JoinStops
<1>6. CASE MainStops(k)
  BY <1>1, <1>4, <1>6 DEF MainStops
<1>7. CASE Adopt(k)
  <2>1. main = "sweeping" /\ leases = {} /\ pc[k] = "idle"
    BY <1>7 DEF Adopt, IInv, SweepsUntouched, Idle
  <2>2. leases' = {} /\ UNCHANGED <<pc, known>>
    BY <1>7, <2>1 DEF Adopt, Take
  <2>3. Recorded(k)' /\ Noted(k)' /\ Held(k)'
    BY <1>1, <1>2, <2>1, <2>2 DEF Hold, Recorded, Noted, Held
  <2> QED BY <2>3 DEF Hold
<1>8. CASE Expire(k)
  BY <1>1, <1>4, <1>8 DEF Expire, threads
<1> QED BY <1>3, <1>5, <1>6, <1>7, <1>8

\* A further attempt has no session, no record and no handle.
LEMMA PushHolds ==
  ASSUME IInv, Generations, Holds, NEW f \in Frames, Push(f)
  PROVE  Holds'
<1> DEFINE new == <<f, latest[f] + 1>>
<1>1. /\ TypeOK /\ Stoppers /\ main \in {"up", "signalled", "shutting", "waiting"}
      /\ f = Root => main = "up"
      /\ latest' = [latest EXCEPT ![f] = latest[f] + 1]
      /\ pc' = [pc EXCEPT ![new] = "pushed"] /\ pc[new] = "idle"
      /\ UNCHANGED <<sess, handle, leases, known, reason, reap, main, todo, closed>>
  BY DEF IInv, Holds, Push, Step, Goto, table
<1>2. latest \in [Frames -> Nat] /\ pc \in [Keys -> Places]
  BY <1>1 DEF TypeOK, Places
<1>3. \A l \in Keys : pc'[l] = IF l = new THEN "pushed" ELSE pc[l]
  <2>1. pc' = [pc EXCEPT ![new] = "pushed"]
    BY <1>1
  <2> HIDE DEF new
  <2> QED BY <1>2, <2>1
<1>4. ASSUME NEW l \in Keys PROVE Hold(l)'
  <2>1. Hold(l) /\ Generation(l) /\ l[2] \in Nat /\ l[1] \in Frames
    BY KeyParts DEF Holds, Generations
  <2>2. CASE l = new
    <3>1. l[2] > latest[l[1]]
      BY <1>2, <2>2
    <3>2. /\ handle[l] = "none" /\ sess[l] = "none" /\ l \notin leases /\ l \notin known
      BY <1>1, <2>1, <2>2, <3>1
         DEF Hold, Recorded, Generation, Leased, Launched
    <3>3. pc'[l] = "pushed"
      BY <1>3, <2>2
    <3>4. Recorded(l)' /\ Noted(l)'
      BY <1>1, <3>2, <3>3 DEF Recorded, Noted
    <3>5. Held(l)'
      BY <1>1, <3>2 DEF Held, Alive
    <3> QED BY <3>4, <3>5 DEF Hold
  <2>3. CASE l # new
    <3>1. pc'[l] = pc[l]
      BY <1>3, <2>3
    <3>2. l[2] > latest'[l[1]] => l[2] > latest[l[1]]
      BY <1>1, <1>2, <2>1
    <3>3. Recorded(l)' /\ Noted(l)'
      BY <1>1, <2>1, <3>1, <3>2 DEF Hold, Recorded, Noted
    <3>4. Held(l)'
      BY <1>1, <2>1, <3>1 DEF Hold, Held, Alive, Reaps
    <3> QED BY <3>3, <3>4 DEF Hold
  <2> QED BY <2>2, <2>3
<1>5. Stoppers'
  <2>1. ASSUME NEW l \in Keys, pc[l] = "joining" PROVE pc'[l] = "joining"
    BY <1>1, <1>3, <2>1
  <2>2. ASSUME main \in Ending, NEW l \in Keys, l[1] = Root PROVE pc'[l] = pc[l]
    <3>1. f # Root
      BY <1>1, <2>2 DEF Ending
    <3> QED BY <1>3, <2>2, <3>1
  <2>3. todo.join # {} \/ Busy("join") => \E l \in Keys : l[1] = Root /\ pc'[l] = "joining"
    BY <1>1, <2>1 DEF Stoppers
  <2>4. main \in Ending =>
          \A l \in Keys : l[1] = Root => pc'[l] \in {"idle", "done", "aborted"}
    BY <1>1, <2>2 DEF Stoppers
  <2> QED BY <1>1, <2>3, <2>4 DEF Stoppers, Busy, Reaps
<1> QED BY <1>4, <1>5 DEF Holds

\* A signal leaves the root's lease, the shutdown goes through all of them and stays
\* until no reap is under way, and the end of the engine drops every one.
LEMMA MainHolds ==
  ASSUME IInv, Generations, Holds, Shutdown \/ MainWaits \/ Signal \/ End \/ Restart
  PROVE  Holds'
<1>1. /\ TypeOK /\ Stoppers /\ UNCHANGED <<sess, handle, latest>>
      /\ todo \in [main : SUBSET Keys, join : SUBSET Keys]
  BY DEF IInv, TypeOK, Holds, Shutdown, MainWaits, Signal, End, Restart, disk
<1>2. \A l \in Keys : Hold(l) /\ Generation(l)
  BY DEF Holds, Generations
<1>3. CASE Shutdown
  <2>1. /\ main = "signalled" /\ main' = "shutting" /\ closed'
        /\ todo'.main = leases /\ todo'.join = todo.join
        /\ UNCHANGED <<leases, known, reason, reap, pc>>
    BY <1>1, <1>3 DEF Shutdown, table
  <2>2. \A l \in Keys : Recorded(l)' /\ Held(l)' /\ Noted(l)'
    BY <1>1, <1>2, <2>1 DEF Hold, Recorded, Held, Noted, Alive, Reaps
  <2>3. Stoppers'
    BY <1>1, <2>1 DEF Stoppers, Busy, Reaps, Ending
  <2> QED BY <2>2, <2>3 DEF Holds, Hold
<1>4. CASE MainWaits
  <2>1. /\ todo.main = {} /\ ~Busy("main")
        /\ \/ main = "sweeping" /\ main' = "up"
           \/ main = "shutting" /\ main' = "waiting"
           \/ main = "waiting" /\ main' = "over"
        /\ UNCHANGED <<leases, known, reason, reap, pc, todo, closed>>
    BY <1>4 DEF MainWaits, table
  <2>2. \A l \in Keys : Recorded(l)' /\ Held(l)'
    BY <1>1, <1>2, <2>1 DEF Hold, Recorded, Held, Alive, Reaps
  <2>3. \A l \in Keys : Noted(l)'
    BY <1>2, <2>1 DEF Hold, Noted
  <2>4. Stoppers'
    BY <1>1, <2>1 DEF Stoppers, Busy, Reaps, Ending
  <2> QED BY <2>2, <2>3, <2>4 DEF Holds, Hold
<1>5. CASE Signal
  <2>1. /\ main = "up" /\ main' = "signalled"
        /\ \A l \in Keys : l[1] = Root => pc[l] # "joining"
        /\ \A l \in Keys : pc'[l] = IF l[1] = Root /\ pc[l] \notin {"idle", "done"}
                                    THEN "aborted" ELSE pc[l]
        /\ UNCHANGED <<leases, known, reason, reap, todo, closed>>
    BY <1>5 DEF Signal, table
  <2>2. ASSUME NEW l \in Keys PROVE Recorded(l)' /\ Held(l)' /\ Noted(l)'
    <3>1. CASE pc'[l] = pc[l]
      BY <1>1, <1>2, <2>1, <3>1 DEF Hold, Recorded, Held, Noted, Alive, Reaps
    <3>2. CASE pc'[l] # pc[l]
      <4>1. pc'[l] = "aborted" /\ pc[l] \notin {"idle", "done"}
        BY <2>1, <3>2
      <4>2. l[2] > latest[l[1]] => handle[l] = "none"
        BY <1>2 DEF Hold, Recorded
      <4>3. Alive(l) => l \in leases \/ ~Reaps("nobody", l)
        <5>1. pc[l] \in Places
          BY <1>1 DEF TypeOK, Places
        <5>2. Alive(l) => pc[l] \notin {"pushed", "prepared"}
          BY <1>2 DEF Generation, Alive
        <5> QED BY <1>2, <4>1, <5>1, <5>2
                DEF Hold, Held, Places, Launched, Behind, Reaps
      <4>4. pc[l] = "aborted" \/ main' = "signalled"
        BY <2>1
      <4> QED BY <1>1, <2>1, <4>1, <4>2, <4>3, <4>4
              DEF Recorded, Held, Noted, Leased, Launched, Behind, Alive, Reaps
    <3> QED BY <3>1, <3>2
  <2>3. Stoppers'
    BY <1>1, <2>1 DEF Stoppers, Busy, Reaps, Ending
  <2> QED BY <2>2, <2>3 DEF Holds, Hold
<1>6. CASE End
  <2>1. /\ main' = "off" /\ leases' = {} /\ known' = {} /\ todo'.join = {}
        /\ \A l \in Keys : pc'[l] = "idle" /\ reap'[l] = Nobody
    BY <1>6 DEF End, Idle
  <2>2. \A l \in Keys : Recorded(l)' /\ Held(l)' /\ Noted(l)'
    BY <1>1, <1>2, <2>1 DEF Hold, Recorded, Held, Noted, Launched, Behind
  <2>3. Stoppers'
    BY <2>1 DEF Stoppers, Busy, Reaps, Nobody, Ending
  <2> QED BY <2>2, <2>3 DEF Holds, Hold
<1>7. CASE Restart
  <2>1. /\ main = "off" /\ main' = "sweeping" /\ todo'.join = todo.join
        /\ UNCHANGED <<leases, known, reason, reap, pc, closed>>
    BY <1>1, <1>7 DEF Restart, table
  <2>2. leases = {}
    BY <2>1 DEF IInv, SweepsUntouched
  <2>3. \A l \in Keys : Recorded(l)' /\ Held(l)' /\ Noted(l)'
    BY <1>1, <1>2, <2>1, <2>2 DEF Hold, Recorded, Held, Noted, Alive, Reaps
  <2>4. Stoppers'
    BY <1>1, <2>1 DEF Stoppers, Busy, Reaps, Ending
  <2> QED BY <2>3, <2>4 DEF Holds, Hold
<1> QED BY <1>3, <1>4, <1>5, <1>6, <1>7

\* Every step preserves it.
LEMMA NextHolds == IInv /\ Generations /\ Holds /\ [Next]_vars => Holds'
<1> SUFFICES ASSUME IInv, Generations, Holds, [Next]_vars PROVE Holds'
  OBVIOUS
<1>1. CASE UNCHANGED vars
  BY <1>1 DEF vars, disk, table, threads, Holds, Stoppers, Hold, Recorded, Held, Noted,
              Alive, Reaps, Busy
<1>2. ASSUME NEW k \in Keys, Touches(k) PROVE Holds'
  <2>1. Hold(k)'
    BY <1>2, LaunchHolds, SessionHolds, StopHolds DEF Touches
  <2> QED BY <1>2, <2>1, StoppersKept, OneHeld
<1>3. ASSUME NEW f \in Frames, Push(f) PROVE Holds'
  BY <1>3, PushHolds
<1>4. CASE Signal \/ End \/ Restart \/ Shutdown \/ MainWaits
  BY <1>4, MainHolds
<1> QED BY <1>1, <1>2, <1>3, <1>4 DEF Next, MainStep, Touches

-----------------------------------------------------------------------------
\* The invariant holds of every run of the model.
THEOREM IInvHolds == Spec => [](IInv /\ Generations /\ Holds)
<1>1. Init => IInv /\ Generations /\ Holds
  BY InitIInv, InitGenerations, InitHolds
<1>2. IInv /\ Generations /\ Holds /\ [Next]_vars => (IInv /\ Generations /\ Holds)'
  BY NextIInv, NextGenerations, NextHolds
<1> QED BY <1>1, <1>2, PTL DEF Spec

\* Types: every variable of the supervisor stays in its domain.
THEOREM TypesHold == Spec => []TypeOK
<1>1. IInv => TypeOK
  BY DEF IInv
<1> QED BY <1>1, IInvHolds, PTL

\* Whoever stops, finishes, joins, shuts down or sweeps, a session is reported as
\* reaped at most once, and _reaping is the number of reaps under way: the shutdown
\* that waits for it to be zero waits for all of them.
THEOREM ReapedOnceHolds == Spec => []ReapedOnce
<1>1. IInv => ReapedOnce
  BY DEF IInv, NotYetReported, Reaped, ReapedOnce
<1> QED BY <1>1, IInvHolds, PTL

\* Whatever ends, is signalled, relaunched or resumed, a session of an earlier attempt
\* that is still there beside one of a later attempt is one of the two that the
\* property names.
THEOREM OneGenerationHolds == Spec => []OneGeneration
<1>1. IInv /\ Generations => OneGeneration
  <2> SUFFICES ASSUME IInv, Generations, NEW k \in Keys, NEW l \in Keys,
                      k[1] = l[1], k[2] < l[2], Alive(k), Alive(l)
               PROVE  handle[k] # "engine" \/ k \in hasty
    BY DEF OneGeneration
  <2>1. l[2] \in Nat /\ k[2] \in Nat /\ latest[k[1]] \in Nat
    BY KeyParts DEF IInv, TypeOK
  <2>2. ~(l[2] > latest[l[1]])
    BY DEF Generations, Generation, Alive
  <2>3. k[2] < latest[k[1]]
    BY <2>1, <2>2
  <2> QED BY <2>3 DEF Generations, Generation, Accounted
<1> QED BY <1>1, IInvHolds, PTL

\* Whoever stops an attempt, whenever its launch is unwound and whatever races its
\* Popen, no frame exits with a session that nobody reaps, and when shutdown has
\* returned, a session that is left is being stopped by its own thread, or will be when
\* that publishes the record; what else is left is what the property names.
THEOREM NobodyEscapesHolds == Spec => []NobodyEscapes
<1>1. IInv /\ Generations /\ Holds => NobodyEscapes
  <2> SUFFICES ASSUME IInv, Generations, Holds, NEW k \in Keys, Alive(k)
               PROVE  /\ pc[k] \in Behind => reap[k].by \in {"main", "join", "budget"}
                      /\ main = "over" =>
                           \/ reap[k].by \in {"launch", "budget"}
                           \/ /\ k \in leases \cap reason
                              /\ pc[k] \in {"spawned", "doomed", "overdue", "failing"}
                           \/ pc[k] = "aborted" /\ k \notin known
                           \/ pc[k] = "idle" /\ (handle[k] # "engine" \/ k \in hasty)
    BY DEF NobodyEscapes, Behind
  <2>1. /\ Hold(k) /\ Generation(k) /\ Stoppers /\ TypeOK
        /\ pc[k] \in Places /\ reap[k] \in Reap
    BY DEF IInv, TypeOK, Holds, Generations, Places, Reap
  <2>2. pc[k] \in Behind => reap[k].by \in {"main", "join", "budget"}
    BY <2>1 DEF Hold, Held
  <2> SUFFICES ASSUME main = "over"
               PROVE  \/ reap[k].by \in {"launch", "budget"}
                      \/ /\ k \in leases \cap reason
                         /\ pc[k] \in {"spawned", "doomed", "overdue", "failing"}
                      \/ pc[k] = "aborted" /\ k \notin known
                      \/ pc[k] = "idle" /\ (handle[k] # "engine" \/ k \in hasty)
    BY <2>2
  <2>3. reap[k].by \in {"nobody", "launch", "budget"}
    <3>1. ~Busy("main") /\ ~Busy("join")
      BY <2>1 DEF Stoppers, Ending
    <3>2. reap[k].by \in {"nobody", "launch", "main", "join", "budget"}
      BY <2>1 DEF Reap
    <3> QED BY <3>1, <3>2 DEF Busy, Reaps
  <2>4. pc[k] \notin {"pushed", "prepared"}
    BY <2>1 DEF Generation, Alive
  <2>5. CASE pc[k] = "idle"
    <3>1. k[2] \in Nat /\ latest[k[1]] \in Nat
      BY <2>1, KeyParts DEF TypeOK
    <3>2. ~(k[2] > latest[k[1]])
      BY <2>1 DEF Generation, Alive
    <3>3. Accounted(k)
      BY <2>1, <2>5, <3>1, <3>2 DEF Generation
    <3> QED BY <2>5, <3>3 DEF Accounted
  <2>6. CASE pc[k] = "finished"
    BY <2>1, <2>3, <2>6 DEF Hold, Held, Reaps
  <2>7. CASE pc[k] \in Launched \cup {"aborted"}
    <3>1. k \in leases \/ reap[k].by \in {"launch", "budget"}
      BY <2>1, <2>3, <2>7 DEF Hold, Held, Reaps
    <3>2. k \in leases => k \in reason /\ k \notin todo.main
      BY <2>1 DEF Hold, Noted, Stoppers
    <3>3. k \in leases /\ k \in known => pc[k] \in {"doomed", "overdue", "failing"}
      BY <2>1, <3>2 DEF Hold, Noted
    <3>4. pc[k] \in Launched \ {"spawned"} => k \in known
      BY <2>1 DEF Hold, Held
    <3> QED BY <2>7, <3>1, <3>2, <3>3, <3>4
  <2>8. CASE pc[k] \in Behind
    BY <2>2, <2>3, <2>8
  <2> QED BY <2>1, <2>4, <2>5, <2>6, <2>7, <2>8 DEF Places, Launched, Behind
<1> QED BY <1>1, IInvHolds, PTL
=============================================================================
