------------------------- MODULE WorkerRuntimeProofs -------------------------
(***************************************************************************)
(* A theorem about WorkerRuntime for any number of worker processes and    *)
(* releases: what /ready says of a release is the word of a process that   *)
(* lives or has died within the age it tolerates.  A process that has      *)
(* ended writes nothing, so its row is at least as old as its end; and a   *)
(* process that says STOPPED has seen its heartbeat thread end, or has     *)
(* given up waiting for it.                                                *)
(***************************************************************************)
EXTENDS WorkerRuntime, TLAPS

USE DEF processVars, rowVars, authorityVars, Ended

(* The latest row of a release is one of its processes'.                   *)
RowsAgree ==
    \A r \in Releases : latest[r] # None =>
        ReleaseOf[latest[r]] = r /\ beats[latest[r]] # None

(* Who writes when: the main thread before its heartbeat thread starts and *)
(* after it has ended, and nobody in the end.                              *)
ThreadsAgree ==
    \A i \in Instances :
        /\ main[i] \in {"off", "starting"} => thread[i] = "none" /\ beats[i] = None
        /\ main[i] \in {"joined", "written"} => thread[i] = "none" \/ late[i]
        /\ main[i] \in Ended => thread[i] = "none"

(* The last word of a process that has ended.                              *)
LastWords ==
    \A i \in Instances :
        /\ main[i] \in Ended /\ beats[i] # None => ended[i] <= beats[i].age
        /\ main[i] \in {"written", "exited"} /\ beats[i] # None =>
               late[i] \/ unwritten[i] \/ beats[i].status = "STOPPED"

RuntimeInv == WorkerTypeOK /\ RowsAgree /\ ThreadsAgree /\ LastWords

(* Nothing runs in the beginning.                                          *)
LEMMA RuntimeInitial == WorkerInit => RuntimeInv
BY WorkerAssumption
   DEF WorkerInit, RuntimeInv, WorkerTypeOK, RowsAgree, ThreadsAgree, LastWords, Ages

(* Time passes for every row alike, and stops counting at one age.         *)
LEMMA OlderIsMonotone ==
    ASSUME NEW a \in Ages, NEW b \in Ages, a <= b
    PROVE  Older(a) \in Ages /\ Older(b) \in Ages /\ Older(a) <= Older(b)
BY WorkerAssumption DEF Older, Ages

(* What a process writes is a row of that process, and the latest.         *)
LEMMA RecordWrites ==
    ASSUME WorkerTypeOK, NEW i \in Instances, NEW s \in {"RUNNING", "STOPPED"}, Record(i, s)
    PROVE  /\ beats' \in [Instances -> Beats \cup {None}]
           /\ latest' \in [Releases -> Instances \cup {None}]
           /\ beats'[i] \in Beats /\ beats'[i].status = s
           /\ latest'[ReleaseOf[i]] = i
           /\ \A j \in Instances \ {i} : beats'[j] = beats[j]
           /\ \A r \in Releases \ {ReleaseOf[i]} : latest'[r] = latest[r]
<1> DEFINE b == [status |-> s, age |-> 0]
<1>1. b \in Beats /\ b.status = s
  BY WorkerAssumption DEF Beats, Ages
<1>2. beats' = [beats EXCEPT ![i] = b] /\ latest' = [latest EXCEPT ![ReleaseOf[i]] = i]
  BY DEF Record
<1> HIDE DEF b
<1> QED BY <1>1, <1>2, WorkerAssumption DEF WorkerTypeOK

(* A tick keeps the invariant.                                             *)
LEMMA TickStep == RuntimeInv /\ WorkerTick => RuntimeInv'
<1> SUFFICES ASSUME RuntimeInv, WorkerTick PROVE RuntimeInv'
    OBVIOUS
<1> USE WorkerAssumption
<1>0. WorkerTypeOK
  BY DEF RuntimeInv
<1>1. ASSUME NEW i \in Instances, beats[i] # None
      PROVE  /\ beats'[i] \in Beats
             /\ beats[i].age \in Ages
             /\ beats'[i].status = beats[i].status
             /\ beats'[i].age = Older(beats[i].age)
  <2>1. beats[i] \in Beats
    BY <1>0, <1>1 DEF WorkerTypeOK
  <2>2. beats[i].age \in Ages /\ Older(beats[i].age) \in Ages
    BY <2>1, OlderIsMonotone DEF Beats, Ages
  <2>3. beats'[i] = [beats[i] EXCEPT !.age = Older(beats[i].age)]
    BY <1>1 DEF WorkerTick
  <2>4. beats'[i] = [status |-> beats[i].status, age |-> Older(beats[i].age)]
    BY <2>1, <2>3 DEF Beats
  <2> QED BY <2>1, <2>2, <2>4 DEF Beats
<1>2. ASSUME NEW i \in Instances, beats[i] = None PROVE beats'[i] = None
  BY <1>2 DEF WorkerTick
<1>3. beats' \in [Instances -> Beats \cup {None}]
  BY <1>1, <1>2 DEF WorkerTick
<1>4. ASSUME NEW i \in Instances
      PROVE  /\ ended[i] \in Ages /\ ended'[i] \in Ages
             /\ main[i] \in Ended => ended'[i] = Older(ended[i])
  BY <1>0, OlderIsMonotone DEF WorkerTypeOK, WorkerTick, Ages
<1>5. WorkerTypeOK'
  BY <1>0, <1>3, <1>4 DEF WorkerTypeOK, WorkerTick
<1>6. UNCHANGED <<latest, main, thread, late, unwritten>>
  BY DEF WorkerTick
<1>7. RowsAgree' /\ ThreadsAgree'
  BY <1>0, <1>1, <1>2, <1>6 DEF RuntimeInv, RowsAgree, ThreadsAgree, WorkerTypeOK
<1>8. LastWords'
  BY <1>1, <1>2, <1>4, <1>6, OlderIsMonotone DEF RuntimeInv, LastWords
<1> QED BY <1>5, <1>7, <1>8 DEF RuntimeInv

(* A step that leaves the rows alone keeps the types.                      *)
LEMMA TypeStep == WorkerTypeOK /\ [WorkerNext]_runtimeVars /\ ~WorkerTick => WorkerTypeOK'
<1> SUFFICES ASSUME WorkerTypeOK, [WorkerNext]_runtimeVars, ~WorkerTick PROVE WorkerTypeOK'
    OBVIOUS
<1> USE WorkerAssumption DEF WorkerTypeOK
<1>0. 0 \in Ages
  BY DEF Ages
<1>2. ASSUME NEW r \in Releases, Lapse(r) \/ BindWorker(r) PROVE WorkerTypeOK'
  BY <1>2 DEF Lapse, BindWorker
<1>3. ASSUME NEW b \in BOOLEAN, SetWorkerActive(b) PROVE WorkerTypeOK'
  BY <1>3 DEF SetWorkerActive
<1>4. ASSUME NEW i \in Instances, StartWorker(i) \/ Terminate(i) \/ LoopFails(i) \/ LoopEnds(i)
      PROVE  WorkerTypeOK'
  BY <1>4 DEF StartWorker, Terminate, LoopFails, LoopEnds, LeaveLoop, MainGoes
<1>5. ASSUME NEW i \in Instances, FirstBeat(i) \/ WriteStopped(i) PROVE WorkerTypeOK'
  <2>1. ASSUME NEW how \in Ended, Ends(i, how)
        PROVE  /\ main' \in [Instances -> {"off", "starting", "looping", "joining", "joined",
                                           "written"} \cup Ended]
               /\ ended' \in [Instances -> Ages]
    BY <1>0, <2>1 DEF Ends
  <2>2. ASSUME NEW s \in {"RUNNING", "STOPPED"}, Record(i, s)
        PROVE  /\ beats' \in [Instances -> Beats \cup {None}]
               /\ latest' \in [Releases -> Instances \cup {None}]
    BY <2>2, RecordWrites
  <2>3. CASE FirstBeat(i)
    <3>1. CASE MayRun(i)
      BY <2>2, <2>3, <3>1 DEF FirstBeat, MainGoes, ThreadGoes
    <3>2. CASE ~MayRun(i)
      BY <2>1, <2>3, <3>2 DEF FirstBeat, Ends
    <3> QED BY <3>1, <3>2
  <2>4. CASE WriteStopped(i)
    <3>1. CASE Record(i, "STOPPED") /\ MainGoes(i, "joined", "written")
                /\ UNCHANGED <<thread, running, stop, unwritten, ended>>
      BY <2>2, <2>4, <3>1 DEF WriteStopped, MainGoes
    <3>2. CASE Refused(i) /\ unwritten' = [unwritten EXCEPT ![i] = TRUE] /\ Ends(i, "exited")
      BY <2>1, <2>4, <3>2 DEF WriteStopped, Refused, Ends
    <3> QED BY <2>4, <3>1, <3>2 DEF WriteStopped
  <2> QED BY <1>5, <2>3, <2>4
<1>6. ASSUME NEW i \in Instances, JoinThread(i) \/ JoinTimesOut(i) PROVE WorkerTypeOK'
  BY <1>6 DEF JoinThread, JoinTimesOut, MainGoes
<1>10. ASSUME NEW i \in Instances, Exit(i) PROVE WorkerTypeOK'
  BY <1>0, <1>10 DEF Exit, Ends
<1>11. ASSUME NEW i \in Instances, ProcessDies(i) PROVE WorkerTypeOK'
  BY <1>0, <1>11 DEF ProcessDies, Ends
<1>7. ASSUME NEW i \in Instances,
             BeatDenied(i) \/ BeatChecked(i) \/ BeatFails(i) \/ ThreadEnds(i)
      PROVE  WorkerTypeOK'
  BY <1>7 DEF BeatDenied, BeatChecked, BeatFails, ThreadEnds, ThreadGoes, ThreadOnly
<1>8. ASSUME NEW i \in Instances, BeatWritten(i) \/ DeniedStop(i) PROVE WorkerTypeOK'
  BY <1>8, RecordWrites DEF BeatWritten, DeniedStop, ThreadGoes, ThreadOnly, Refused
<1>9. CASE UNCHANGED runtimeVars
  BY <1>9 DEF runtimeVars
<1> QED
  BY <1>2, <1>3, <1>4, <1>5, <1>6, <1>7, <1>8, <1>9, <1>10, <1>11
     DEF WorkerNext, MainProgress, ThreadProgress

(* No step breaks the invariant.                                           *)
LEMMA RuntimeStep == RuntimeInv /\ [WorkerNext]_runtimeVars => RuntimeInv'
<1> SUFFICES ASSUME RuntimeInv, [WorkerNext]_runtimeVars, ~WorkerTick PROVE RuntimeInv'
    BY TickStep
<1>0. WorkerTypeOK /\ WorkerTypeOK'
  BY TypeStep DEF RuntimeInv
<1> DEFINE Rest == RowsAgree' /\ ThreadsAgree' /\ LastWords'
<1> SUFFICES Rest
  BY <1>0 DEF RuntimeInv
<1> USE WorkerAssumption DEF RuntimeInv, RowsAgree, ThreadsAgree, LastWords, WorkerTypeOK
<1>1. \A b \in Beats : b # None /\ b.age \in Ages /\ \A a \in Ages : 0 <= a
  BY DEF Beats, Ages
<1>2. ASSUME NEW r \in Releases, Lapse(r) \/ BindWorker(r) PROVE Rest
  BY <1>2 DEF Lapse, BindWorker
<1>3. ASSUME NEW b \in BOOLEAN, SetWorkerActive(b) PROVE Rest
  BY <1>3 DEF SetWorkerActive
<1>4. ASSUME NEW i \in Instances, StartWorker(i) \/ Terminate(i) \/ LoopFails(i) \/ LoopEnds(i)
      PROVE  Rest
  BY <1>0, <1>4 DEF StartWorker, Terminate, LoopFails, LoopEnds, LeaveLoop, MainGoes
<1>5. ASSUME NEW i \in Instances, FirstBeat(i) PROVE Rest
  BY <1>0, <1>1, <1>5, RecordWrites DEF FirstBeat, MainGoes, ThreadGoes, Ends
<1>6. ASSUME NEW i \in Instances, JoinThread(i) \/ JoinTimesOut(i) PROVE Rest
  BY <1>0, <1>6 DEF JoinThread, JoinTimesOut, MainGoes
<1>7. ASSUME NEW i \in Instances, WriteStopped(i) PROVE Rest
  BY <1>0, <1>1, <1>7, RecordWrites DEF WriteStopped, MainGoes, Ends, Refused
<1>8. ASSUME NEW i \in Instances, Exit(i) \/ ProcessDies(i) PROVE Rest
  BY <1>0, <1>1, <1>8 DEF Exit, ProcessDies, Ends
<1>9. ASSUME NEW i \in Instances,
             BeatDenied(i) \/ BeatChecked(i) \/ BeatFails(i) \/ ThreadEnds(i)
      PROVE  Rest
  BY <1>0, <1>9 DEF BeatDenied, BeatChecked, BeatFails, ThreadEnds, ThreadGoes, ThreadOnly
<1>10. ASSUME NEW i \in Instances, BeatWritten(i) \/ DeniedStop(i) PROVE Rest
  BY <1>0, <1>1, <1>10, RecordWrites
     DEF BeatWritten, DeniedStop, ThreadGoes, ThreadOnly, Refused
<1>11. CASE UNCHANGED runtimeVars
  BY <1>11 DEF runtimeVars
<1> QED
  BY <1>2, <1>3, <1>4, <1>5, <1>6, <1>7, <1>8, <1>9, <1>10, <1>11
     DEF WorkerNext, MainProgress, ThreadProgress

(* The rows, the threads and their last words agree.                       *)
THEOREM RuntimeInvariant == WorkerSpec => []RuntimeInv
BY RuntimeInitial, RuntimeStep, PTL DEF WorkerSpec

(* /ready rests on a process that lives or has died within the tolerated   *)
(* age, for any number of processes, releases and rebindings.              *)
THEOREM ReadinessIsEarned == WorkerSpec => []ReadyIsEarned
<1>1. RuntimeInv => ReadyIsEarned
  <2> SUFFICES ASSUME RuntimeInv, NEW r \in Releases, WorkerReady(r)
               PROVE  /\ ReleaseOf[latest[r]] = r
                      /\ main[latest[r]] \in Ended => ended[latest[r]] <= MaxAge
                      /\ main[latest[r]] \in {"written", "exited"} =>
                             late[latest[r]] \/ unwritten[latest[r]]
    BY DEF ReadyIsEarned
  <2> QED
    BY WorkerAssumption
       DEF RuntimeInv, WorkerTypeOK, RowsAgree, LastWords, WorkerReady, Beats, Ages
<1> QED BY <1>1, RuntimeInvariant, PTL
=============================================================================
