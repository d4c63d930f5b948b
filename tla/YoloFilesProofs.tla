-------------------------- MODULE YoloFilesProofs --------------------------
(***************************************************************************)
(* Proofs about Recording, TrtEngine and YoloFiles: for every set of       *)
(* durations, every sampling interval and every delay of the sampler; for  *)
(* every set of models, every size of frame and input, any output of the   *)
(* network and any length of time.                                         *)
(***************************************************************************)
EXTENDS YoloFiles, FiniteSetTheorems, TLAPS

(* A recording under way was not written, and one that is finished was      *)
(* written once at most.                                                    *)
Reported ==
  /\ active \in BOOLEAN /\ reports \in {0, 1}
  /\ active => reports = 0

(* Nothing of a recording under way is written yet, all of one that is over *)
(* is unless its file did not open; and once run() has saved, only a late   *)
(* /start can have made a recording.                                        *)
Saved ==
  /\ active => written = 0
  /\ ~active => written \in {Len(rows), Unopened}
  /\ main \in {"saved", "done"} /\ active => late

(* What the rows of a recording rest on: its sampler is on time, and the    *)
(* time it will write next lies an interval after the last row.             *)
Typed ==
  /\ timer \in Nat /\ age \in Nat /\ active \in BOOLEAN
  /\ duration \in Durations /\ rows \in Seq(Int)
  /\ sampler \in {"sample", "record", "sleep", "ended"}
  /\ sampler = "record" => timer <= MaxLag
  /\ sampler = "sleep" => timer <= Interval + MaxLag

OnTime ==
  active =>
    /\ sampler = "sleep" => Elapsed < duration + MaxLag
    /\ sampler = "sample" => age < duration + Interval + 2 * MaxLag
    /\ sampler = "record" => Elapsed < duration + Interval + 2 * MaxLag

LastRow == rows[Len(rows)]

Spaced ==
  active /\ rows # <<>> =>
    /\ LastRow < duration
    /\ sampler = "sleep" => Elapsed >= 0 /\ Elapsed >= LastRow
    /\ sampler = "sample" => age >= Interval /\ age >= LastRow + Interval
    /\ sampler = "record" =>
         Elapsed >= Interval /\ Elapsed >= LastRow + Interval

RowsInv == Typed /\ OnTime /\ Spaced /\ RowsBelongToRecording

-----------------------------------------------------------------------------
(* No duration asked for is longer than Longest.                            *)
LEMMA LongestIsOne ==
  /\ Longest \in Durations /\ Longest \in Nat
  /\ \A d \in Durations : d \in Nat \ {0} /\ d <= Longest
  BY RecordingAssumption DEF Longest

(* A recording under way is younger than the bound on its age.              *)
LEMMA BoundIsOut ==
  ASSUME Typed, OnTime, Tick, active, sampler # "ended" PROVE age < Oldest
<1>1. /\ Longest \in Nat /\ duration \in Nat /\ duration <= Longest
      /\ Interval \in Nat /\ MaxLag \in Nat /\ timer \in Nat /\ age \in Nat
  BY LongestIsOne, RecordingAssumption DEF Typed
<1>2. CASE sampler = "sleep"
  <2>1. timer < Interval + MaxLag /\ age - timer < duration + MaxLag
    BY <1>2 DEF Tick, OnTime, Elapsed
  <2> QED
    BY <1>1, <2>1 DEF Oldest
<1>3. CASE sampler = "record"
  <2>1. timer < MaxLag /\ age - timer < duration + Interval + 2 * MaxLag
    BY <1>3 DEF Tick, OnTime, Elapsed
  <2> QED
    BY <1>1, <2>1 DEF Oldest
<1> QED
  BY <1>2, <1>3 DEF Tick, Typed

(* A row an interval after the last one continues the rows.                 *)
LEMMA RowFits ==
  ASSUME rows \in Seq(Int), RowsBelongToRecording, NEW t \in Int,
         rows # <<>> => LastRow < duration /\ t >= 0 /\ t >= LastRow + Interval
  PROVE  \A i \in DOMAIN Append(rows, t) :
           /\ i > 1 => /\ Append(rows, t)[i] >= 0
                       /\ Append(rows, t)[i] >= Append(rows, t)[i - 1] + Interval
           /\ i < Len(Append(rows, t)) => Append(rows, t)[i] < duration
<1> TAKE i \in DOMAIN Append(rows, t)
<1>1. /\ Len(rows) \in Nat /\ DOMAIN rows = 1..Len(rows)
      /\ Len(Append(rows, t)) = Len(rows) + 1
      /\ DOMAIN Append(rows, t) = 1..Len(rows) + 1
      /\ Append(rows, t)[Len(rows) + 1] = t
      /\ \A j \in 1..Len(rows) : Append(rows, t)[j] = rows[j]
  OBVIOUS
<1>2. CASE i \in 1..Len(rows)
  <2>1. i > 1 => i - 1 \in 1..Len(rows)
    BY <1>1, <1>2
  <2>2. i > 1 => rows[i] >= 0 /\ rows[i] >= rows[i - 1] + Interval
    BY <1>1, <1>2 DEF RowsBelongToRecording
  <2>3. i < Len(rows) => rows[i] < duration
    BY <1>1, <1>2 DEF RowsBelongToRecording
  <2>4. i = Len(rows) => rows[i] < duration
    BY <1>1, <1>2 DEF LastRow
  <2> QED
    BY <1>1, <1>2, <2>1, <2>2, <2>3, <2>4
<1>3. CASE i = Len(rows) + 1
  <2>1. i > 1 => rows # <<>> /\ i - 1 = Len(rows) /\ i - 1 \in 1..Len(rows)
    BY <1>1, <1>3
  <2>2. i > 1 => /\ Append(rows, t)[i] = t /\ t >= 0
                 /\ Append(rows, t)[i - 1] = LastRow /\ t >= LastRow + Interval
    BY <1>1, <1>3, <2>1 DEF LastRow
  <2>3. ~(i < Len(Append(rows, t)))
    BY <1>1, <1>3
  <2> QED
    BY <2>2, <2>3
<1> QED
  BY <1>1, <1>2, <1>3

-----------------------------------------------------------------------------
(* Any order of /stop, the sampler and the shutdown writes a recording once *)
(* at most: each of them looks at rec.active under the lock.                *)
THEOREM OneReport == Spec => []WrittenOnce
<1>1. Init => Reported
  BY DEF Init, Reported
<1>2. ASSUME Reported, [Next]_vars PROVE Reported'
  <2> USE <1>2 DEF Reported, recording
  <2>1. ASSUME NEW sec \in Durations, Start(sec) PROVE Reported'
    BY <2>1 DEF Start
  <2>2. ASSUME NEW all, active, Finish(all) PROVE Reported'
    <3>1. active' = FALSE /\ reports' \in {0, 1}
      BY <2>2 DEF Finish
    <3> QED
      BY <3>1
  <2>3. CASE Stop
    BY <2>2, <2>3 DEF Stop, MayFinish
  <2>4. CASE Record \/ SaveAtEnd
    BY <2>2, <2>4 DEF Record, SaveAtEnd, SaveLast
  <2>5. CASE UNCHANGED <<active, reports>>
    BY <2>5
  <2> QED
    BY <2>1, <2>2, <2>3, <2>4, <2>5
    DEF Next, Sampler, Sample, Wake, ServerStops, Shutdown, Join, Tick, vars
<1>3. Reported => WrittenOnce
  BY DEF Reported, WrittenOnce
<1> QED
  BY <1>1, <1>2, <1>3, PTL DEF Spec

(* Ending a recording that is under way writes all its rows, or none when   *)
(* the file does not open.                                                  *)
LEMMA FinishSaves ==
  ASSUME NEW all, active, written = 0, Finish(all)
  PROVE  ~active' /\ written' \in {Len(rows'), Unopened}
<1>1. CASE all = <<>>
  BY <1>1 DEF Finish
<1>2. CASE all # <<>>
  BY <1>2 DEF Finish
<1> QED
  BY <1>1, <1>2

(* No row of a recording is lost, whoever ends it and however the end of    *)
(* the program, /start and /stop fall together: what is not under way any   *)
(* more is in its report, and run() leaves nothing under way behind but     *)
(* what was started while it was joining its threads.                       *)
THEOREM LastIsSaved == Spec => []LastRecordingSaved
<1>1. Init => Saved
  BY DEF Init, Saved
<1>2. ASSUME Saved, [Next]_vars PROVE Saved'
  <2> USE <1>2 DEF Saved, recording
  <2>1. ASSUME NEW sec \in Durations, Start(sec) PROVE Saved'
    BY <2>1 DEF Start, Over
  <2>2. CASE Stop
    <3>1. ~active' /\ written' \in {Len(rows'), Unopened}
      BY <2>2, FinishSaves DEF Stop, MayFinish
    <3> QED
      BY <3>1
  <2>3. CASE Record
    <3>1. CASE active /\ Complete(Elapsed)
      <4>1. ~active' /\ written' \in {Len(rows'), Unopened}
        BY <2>3, <3>1, FinishSaves DEF Record
      <4> QED
        BY <4>1
    <3>2. CASE ~(active /\ Complete(Elapsed))
      BY <2>3, <3>2 DEF Record
    <3> QED
      BY <3>1, <3>2
  <2>4. CASE SaveAtEnd
    <3>1. CASE active
      <4>1. ~active' /\ written' \in {Len(rows'), Unopened}
        BY <2>4, <3>1, FinishSaves DEF SaveAtEnd, SaveLast
      <4> QED
        BY <4>1
    <3>2. CASE ~active
      BY <2>4, <3>2 DEF SaveAtEnd, SaveLast
    <3> QED
      BY <3>1, <3>2
  <2>5. CASE Sample \/ Wake \/ ServerStops \/ Join \/ Tick
    BY <2>5 DEF Sample, Wake, ServerStops, Join, Tick
  <2>6. CASE UNCHANGED vars
    BY <2>6 DEF vars
  <2> QED
    BY <2>1, <2>2, <2>3, <2>4, <2>5, <2>6 DEF Next, Sampler, Shutdown
<1>3. Saved => LastRecordingSaved
  BY DEF Saved, LastRecordingSaved, Over
<1> QED
  BY <1>1, <1>2, <1>3, PTL DEF Spec

-----------------------------------------------------------------------------
(* A row is written or the recording is full; either way the rows are in    *)
(* order, and the last of them is no later than the clock.                  *)
LEMMA RecordStep == RowsInv /\ Record => RowsInv'
<1> SUFFICES ASSUME RowsInv, Record PROVE RowsInv'
  OBVIOUS
<1> DEFINE all == WithRow(Elapsed)
<1>1. /\ duration \in Nat /\ Interval \in Nat \ {0} /\ MaxLag \in Nat
      /\ timer \in Nat /\ age \in Nat /\ Elapsed \in Int /\ rows \in Seq(Int)
      /\ Elapsed <= age /\ age <= Elapsed + MaxLag
  BY LongestIsOne, RecordingAssumption DEF RowsInv, Typed, Record, Elapsed
<1>2. sampler = "record" /\ sampler' = "sleep" /\ timer' = 0 /\ age' = age
      /\ duration' = duration
  BY DEF Record, Finish, recording
<1>3. CASE ~active
  <2>1. UNCHANGED <<active, rows, age, duration>>
    BY <1>3 DEF Record, recording
  <2> QED
    BY <1>1, <1>2, <1>3, <2>1 DEF RowsInv, Typed, OnTime, Spaced, RowsBelongToRecording
<1>4. CASE active
  <2>1. rows' = all
    BY <1>4 DEF Record, Finish
  <2>2. rows # <<>> => /\ LastRow < duration /\ Elapsed >= 0
                       /\ Elapsed >= LastRow + Interval
    BY <1>1, <1>2, <1>4 DEF RowsInv, Spaced
  <2>3. CASE all = rows
    <3>1. rows' = rows
      BY <2>1, <2>3
    <3>2. rows' # <<>> => LastRow' = LastRow /\ LastRow \in Int
      BY <3>1, <1>1 DEF LastRow
    <3>3. RowsBelongToRecording'
      BY <3>1, <1>2 DEF RowsInv, RowsBelongToRecording
    <3>4. active' => Elapsed < duration
      <4>1. CASE Elapsed >= duration
        BY <1>4, <4>1 DEF Record, Finish, Complete
      <4> QED
        BY <1>1, <4>1
    <3>5. active' \in BOOLEAN
      BY <1>4 DEF Record, Finish
    <3>6. Typed'
      BY <1>1, <1>2, <3>1, <3>5, LongestIsOne DEF RowsInv, Typed
    <3>7. OnTime'
      BY <1>1, <1>2, <3>4 DEF OnTime, Elapsed
    <3>8. Spaced'
      BY <1>1, <1>2, <3>1, <3>2, <2>2 DEF Spaced, Elapsed
    <3> QED
      BY <3>3, <3>6, <3>7, <3>8 DEF RowsInv
  <2>4. CASE all = Append(rows, Elapsed)
    <3>1. rows' = Append(rows, Elapsed)
      BY <2>1, <2>4
    <3>2. LastRow' = Elapsed /\ rows' \in Seq(Int)
      BY <3>1, <1>1 DEF LastRow
    <3>3. RowsBelongToRecording'
      BY <3>1, <1>1, <1>2, <2>2, RowFits DEF RowsInv, RowsBelongToRecording
    <3>4. active' => Elapsed < duration
      <4>1. CASE Elapsed >= duration
        BY <1>4, <4>1 DEF Record, Finish, Complete
      <4> QED
        BY <1>1, <4>1
    <3>5. active' \in BOOLEAN
      BY <1>4 DEF Record, Finish
    <3>6. Typed'
      BY <1>1, <1>2, <3>2, <3>5 DEF RowsInv, Typed
    <3>7. OnTime'
      BY <1>1, <1>2, <3>4 DEF OnTime, Elapsed
    <3>8. Spaced'
      BY <1>1, <1>2, <3>2, <3>4 DEF Spaced, Elapsed
    <3> QED
      BY <3>3, <3>6, <3>7, <3>8 DEF RowsInv
  <2> QED
    BY <2>3, <2>4 DEF WithRow
<1> QED
  BY <1>3, <1>4 DEF RowsInv, Typed

(* Time passes for the sampler and for the recording alike.                 *)
LEMMA TickStep == RowsInv /\ Tick => RowsInv'
<1> SUFFICES ASSUME RowsInv, Tick PROVE RowsInv'
  OBVIOUS
<1>1. /\ duration \in Nat /\ Interval \in Nat \ {0} /\ MaxLag \in Nat
      /\ timer \in Nat /\ age \in Nat
      /\ sampler \in {"record", "sleep", "ended"}
  BY LongestIsOne, RecordingAssumption DEF RowsInv, Typed, Tick
<1>2. UNCHANGED <<sampler, active, rows, duration>> /\ LastRow' = LastRow
  BY DEF Tick, LastRow
<1>3. Typed'
  <2>1. timer' \in Nat /\ age' \in Nat
    BY <1>1 DEF Tick
  <2>2. /\ sampler = "record" => timer' <= MaxLag
        /\ sampler = "sleep" => timer' <= Interval + MaxLag
    BY <1>1 DEF Tick
  <2> QED
    BY <1>2, <2>1, <2>2 DEF RowsInv, Typed
<1>4. active /\ sampler # "ended" => Elapsed' = Elapsed
  <2> SUFFICES ASSUME active, sampler # "ended" PROVE Elapsed' = Elapsed
    OBVIOUS
  <2>1. age' = age + 1 /\ timer' = timer + 1
    BY BoundIsOut DEF Tick, RowsInv
  <2> QED
    BY <1>1, <2>1 DEF Elapsed
<1>5. OnTime' /\ Spaced'
  BY <1>1, <1>2, <1>4 DEF RowsInv, OnTime, Spaced
<1>6. RowsBelongToRecording'
  BY <1>2 DEF RowsInv, RowsBelongToRecording
<1> QED
  BY <1>3, <1>5, <1>6 DEF RowsInv

(* The rows of a recording are its own and in order, whenever /start and    *)
(* /stop come and however late the sampler is.                              *)
THEOREM RowsInOrder == Spec => []RowsBelongToRecording
<1>1. Init => RowsInv
  <2>1. ASSUME Init PROVE Typed
    <3>1. 0 \in Nat /\ rows \in Seq(Int) /\ Longest \in Durations
      BY <2>1, LongestIsOne DEF Init
    <3> QED
      BY <2>1, <3>1 DEF Init, Typed
  <2>2. ASSUME Init PROVE OnTime /\ Spaced /\ RowsBelongToRecording
    BY <2>2 DEF Init, OnTime, Spaced, RowsBelongToRecording
  <2> QED
    BY <2>1, <2>2 DEF RowsInv
<1>2. ASSUME RowsInv, [Next]_vars PROVE RowsInv'
  <2>1. /\ duration \in Nat /\ Interval \in Nat \ {0} /\ MaxLag \in Nat
        /\ timer \in Nat /\ age \in Nat
    BY <1>2, LongestIsOne, RecordingAssumption DEF RowsInv, Typed
  <2>2. ASSUME NEW sec \in Durations, Start(sec) PROVE RowsInv'
    <3>1. sec \in Nat \ {0} /\ rows' = <<>> /\ age' = 0 /\ duration' = sec
      BY <2>2, LongestIsOne DEF Start
    <3>2. UNCHANGED <<sampler, timer>> /\ active' = TRUE
      BY <2>2 DEF Start
    <3>3. Typed'
      BY <1>2, <2>2, <3>1, <3>2 DEF RowsInv, Typed
    <3>4. OnTime' /\ Spaced' /\ RowsBelongToRecording'
      BY <2>1, <3>1, <3>2 DEF OnTime, Spaced, RowsBelongToRecording, Elapsed
    <3> QED
      BY <3>3, <3>4 DEF RowsInv
  <2>3. CASE Stop \/ SaveAtEnd \/ ServerStops \/ Join \/ UNCHANGED vars
    <3>1. UNCHANGED <<rows, age, duration, sampler, timer>>
      BY <2>3 DEF Stop, SaveAtEnd, SaveLast, Finish, ServerStops, Join, vars, recording
    <3>2. active' = FALSE \/ active' = active
      BY <2>3 DEF Stop, SaveAtEnd, SaveLast, Finish, ServerStops, Join, vars, recording
    <3>3. LastRow' = LastRow /\ Elapsed' = Elapsed
      BY <3>1 DEF LastRow, Elapsed
    <3>4. Typed' /\ RowsBelongToRecording'
      BY <1>2, <3>1, <3>2 DEF RowsInv, Typed, RowsBelongToRecording
    <3>5. OnTime' /\ Spaced'
      BY <1>2, <3>1, <3>2, <3>3 DEF RowsInv, OnTime, Spaced
    <3> QED
      BY <3>4, <3>5 DEF RowsInv
  <2>4. CASE Sample
    <3>1. UNCHANGED recording /\ LastRow' = LastRow
      BY <2>4 DEF Sample, recording, LastRow
    <3>2. sampler = "sample" /\ sampler' = "record" /\ Elapsed' = age
      BY <2>1, <2>4 DEF Sample, Elapsed, recording
    <3>3. Typed' /\ RowsBelongToRecording'
      BY <1>2, <2>1, <2>4, <3>1, <3>2 DEF RowsInv, Typed, RowsBelongToRecording, Sample, recording
    <3>4. OnTime' /\ Spaced'
      BY <1>2, <3>1, <3>2 DEF RowsInv, OnTime, Spaced, recording
    <3> QED
      BY <3>3, <3>4 DEF RowsInv
  <2>5. CASE Wake
    <3>1. UNCHANGED recording /\ LastRow' = LastRow
      BY <2>5 DEF Wake, recording, LastRow
    <3>2. /\ sampler = "sleep" /\ sampler' \in {"sample", "ended"} /\ timer' = 0
          /\ timer >= Interval /\ timer <= Interval + MaxLag
      BY <1>2, <2>5 DEF Wake, RowsInv, Typed
    <3>3. Typed' /\ RowsBelongToRecording'
      BY <1>2, <2>1, <3>1, <3>2 DEF RowsInv, Typed, RowsBelongToRecording, recording
    <3>4. OnTime'
      BY <1>2, <2>1, <3>1, <3>2 DEF RowsInv, OnTime, recording, Elapsed
    <3>5. Spaced'
      <4>1. rows # <<>> => LastRow \in Int
        BY <1>2 DEF RowsInv, Typed, LastRow
      <4> QED
        BY <1>2, <2>1, <3>1, <3>2, <4>1 DEF RowsInv, Spaced, recording, Elapsed
    <3> QED
      BY <3>3, <3>4, <3>5 DEF RowsInv
  <2> QED
    BY <1>2, <2>2, <2>3, <2>4, <2>5, RecordStep, TickStep
    DEF Next, Sampler, Shutdown
<1>3. RowsInv => RowsBelongToRecording
  BY DEF RowsInv
<1> QED
  BY <1>1, <1>2, <1>3, PTL DEF Spec

-----------------------------------------------------------------------------
(* What time stamps can show: a whole cache that is not older than the      *)
(* model was made from it, unless a replacement is hidden.                  *)
CacheIsCurrent ==
  cache.engine \in Models /\ cache.mtime >= onnx.mtime /\ ~hidden =>
    cache.engine = onnx.model

(* A cache that is being loaded is as new as the model in place, and an     *)
(* engine on its way to the cache is of that model, unless it was replaced  *)
(* in the meantime; so is an engine that was loaded.                        *)
EngineIsCurrent ==
  /\ pc = "load" /\ ~replaced => UpToDate
  /\ pc \in {"build", "write"} /\ ~replaced => engine = onnx.model
  /\ pc = "bind" /\ ~replaced /\ ~hidden => engine = onnx.model

(* A cached engine stands in the file, and its stamp is good enough. *)
CachedIsThere ==
  cached => cache.engine \in Models /\ cache.mtime >= onnx.mtime

(* What is loaded is a file. *)
LoadedIsThere == pc = "load" => cache.engine # NoFile

EngineInv ==
  /\ EngineTypeOK /\ LoadedIsThere
  /\ CacheIsCurrent /\ EngineIsCurrent /\ CachedIsThere

-----------------------------------------------------------------------------
(* The three constants for what is no model differ from every model.        *)
LEMMA NoModel == NoFile \notin Models /\ Torn \notin Models /\ None \notin Models
  BY TrtAssumption

(* Initially there is no engine anywhere. *)
LEMMA InitHolds == EngineInit => EngineInv
<1> SUFFICES ASSUME EngineInit PROVE EngineInv
  OBVIOUS
<1>1. EngineTypeOK
  <2>1. clock = 0 /\ clock \in 0..MaxClock /\ 0 \in 0..clock
    BY TrtAssumption DEF EngineInit
  <2>2. /\ onnx \in [model : Models \cup {NoFile}, mtime : 0..clock]
        /\ cache \in [engine : Models \cup {NoFile, Torn}, mtime : 0..clock]
    BY <2>1 DEF EngineInit
  <2> QED
    BY <2>1, <2>2 DEF EngineInit, EngineTypeOK
<1>2. LoadedIsThere /\ CacheIsCurrent /\ EngineIsCurrent /\ CachedIsThere
  BY NoModel
  DEF EngineInit, LoadedIsThere, CacheIsCurrent, EngineIsCurrent, CachedIsThere
<1> QED
  BY <1>1, <1>2 DEF EngineInv

(* Every step of the program and of its surroundings keeps the types.       *)
LEMMA TypeStep ==
  ASSUME EngineTypeOK, LoadedIsThere, [EngineNext]_engineVars
  PROVE  EngineTypeOK'
<1> USE NoModel, TrtAssumption DEF EngineTypeOK, files, history
<1>1. CASE Launch
  BY <1>1 DEF Launch
<1>2. CASE Check
  BY <1>2 DEF Check
<1>3. CASE Deserialize
  BY <1>3 DEF Deserialize, LoadedIsThere
<1>4. CASE Parse
  <2>1. CASE onnx.model \in Unreadable \cup {NoFile}
    BY <1>4, <2>1 DEF Parse
  <2>2. CASE onnx.model \notin Unreadable \cup {NoFile}
    <3>1. onnx.model \in Models /\ onnx.model # None
      BY <2>2
    <3>2. /\ pc' = "build" /\ engine' = onnx.model /\ replaced' = FALSE
          /\ UNCHANGED <<files, clock, hidden, cached>>
      BY <1>4, <2>2 DEF Parse
    <3> QED
      BY <3>1, <3>2
  <2> QED
    BY <2>1, <2>2
<1>5. CASE BuildFails
  BY <1>5 DEF BuildFails
<1>6. CASE Bind
  BY <1>6 DEF Bind
<1>7. ASSUME NEW ok \in BOOLEAN, Built(ok) PROVE EngineTypeOK'
  <2>1. CASE ok
    <3>1. clock \in 0..clock
      OBVIOUS
    <3>2. cache' \in [engine : Models \cup {NoFile, Torn}, mtime : 0..clock]
      BY <1>7, <2>1, <3>1 DEF Built, OpenCache
    <3>3. /\ pc = "build" /\ pc' = "write" /\ hidden' = FALSE /\ cached' = FALSE
          /\ UNCHANGED <<onnx, clock, engine, replaced>>
      BY <1>7, <2>1 DEF Built, OpenCache
    <3> QED
      BY <3>2, <3>3
  <2>2. CASE ~ok
    BY <1>7, <2>2 DEF Built
  <2> QED
    BY <2>1, <2>2
<1>8. ASSUME NEW ok \in BOOLEAN, WriteCache(ok) PROVE EngineTypeOK'
  BY <1>8 DEF WriteCache
<1>9. ASSUME NEW f \in Frames, NEW outputs \in RowSets, Infer(f, outputs)
      PROVE EngineTypeOK'
  BY <1>9 DEF Infer
<1>10. CASE Kill
  BY <1>10 DEF Kill
<1>11. ASSUME NEW m \in Models \cup {NoFile}, NEW t \in 0..clock, Replace(m, t)
       PROVE EngineTypeOK'
  BY <1>11 DEF Replace
<1>12. CASE TimePasses
  BY <1>12 DEF TimePasses
<1>13. CASE UNCHANGED engineVars
  BY <1>13 DEF engineVars
<1> QED
  BY <1>1, <1>2, <1>4, <1>5, <1>6, <1>7, <1>8, <1>9, <1>10, <1>11, <1>12, <1>13, <1>3
  DEF EngineNext, Load

-----------------------------------------------------------------------------
(* Every step keeps what the time stamps and the files say of each other.   *)
LEMMA CurrentStep ==
  ASSUME EngineInv, [EngineNext]_engineVars
  PROVE  LoadedIsThere' /\ CacheIsCurrent' /\ EngineIsCurrent' /\ CachedIsThere'
<1> USE NoModel, TrtAssumption DEF EngineInv, EngineTypeOK, LoadedIsThere,
      CacheIsCurrent, EngineIsCurrent, CachedIsThere, UpToDate, files, history
<1>1. CASE Launch
  BY <1>1 DEF Launch
<1>2. CASE Check
  BY <1>2 DEF Check
<1>3. CASE Deserialize
  BY <1>3 DEF Deserialize
<1>4. CASE Parse
  <2>1. CASE onnx.model \in Unreadable \cup {NoFile}
    BY <1>4, <2>1 DEF Parse
  <2>2. CASE onnx.model \notin Unreadable \cup {NoFile}
    BY <1>4, <2>2 DEF Parse
  <2> QED
    BY <2>1, <2>2
<1>5. CASE BuildFails
  BY <1>5 DEF BuildFails
<1>6. CASE Bind
  BY <1>6 DEF Bind
<1>7. ASSUME NEW ok \in BOOLEAN, Built(ok)
      PROVE  LoadedIsThere' /\ CacheIsCurrent' /\ EngineIsCurrent' /\ CachedIsThere'
  BY <1>7 DEF Built, OpenCache
<1>8. ASSUME NEW ok \in BOOLEAN, WriteCache(ok)
      PROVE  LoadedIsThere' /\ CacheIsCurrent' /\ EngineIsCurrent' /\ CachedIsThere'
  BY <1>8 DEF WriteCache
<1>9. ASSUME NEW f \in Frames, NEW outputs \in RowSets, Infer(f, outputs)
      PROVE  LoadedIsThere' /\ CacheIsCurrent' /\ EngineIsCurrent' /\ CachedIsThere'
  BY <1>9 DEF Infer
<1>10. CASE Kill
  BY <1>10 DEF Kill
<1>11. ASSUME NEW m \in Models \cup {NoFile}, NEW t \in 0..clock, Replace(m, t)
       PROVE  LoadedIsThere' /\ CacheIsCurrent' /\ EngineIsCurrent' /\ CachedIsThere'
  BY <1>11 DEF Replace
<1>12. CASE TimePasses
  BY <1>12 DEF TimePasses
<1>13. CASE UNCHANGED engineVars
  BY <1>13 DEF engineVars
<1> QED
  BY <1>1, <1>2, <1>4, <1>5, <1>6, <1>7, <1>8, <1>9, <1>10, <1>11, <1>12, <1>13, <1>3
  DEF EngineNext, Load

(* The strengthened invariant holds in every behaviour. *)
THEOREM EngineInvariant == EngineSpec => []EngineInv
<1>1. EngineInv /\ [EngineNext]_engineVars => EngineInv'
  BY TypeStep, CurrentStep DEF EngineInv
<1> QED
  BY InitHolds, <1>1, PTL DEF EngineSpec

(* The types hold for every set of models and any length of time.           *)
THEOREM EngineTyped == EngineSpec => []EngineTypeOK
  BY EngineInvariant, PTL DEF EngineInv

-----------------------------------------------------------------------------
(* For every set of models: a start that is not overtaken by a replacement, *)
(* and for which no replacement is hidden by its time stamp, ends with the  *)
(* engine of the model in place, or fails on account of that model.         *)
THEOREM StartsAreRight == EngineSpec => StartFollowsModel
<1> DEFINE Right ==
      ~replaced /\ ~hidden =>
        /\ pc # "ready" /\ pc' = "ready" => engine' = onnx.model
        /\ pc \in {"check", "bind"} /\ pc' = "failed"
             => onnx.model \in Unfit \cup {NoFile}
<1>1. ASSUME EngineInv, EngineNext PROVE Right
  <2> USE DEF EngineInv, EngineIsCurrent
  <2>1. CASE Launch \/ BuildFails \/ Kill \/ TimePasses
    BY <2>1 DEF Launch, BuildFails, Kill, TimePasses
  <2>2. CASE Check
    BY <2>2 DEF Check
  <2>3. CASE Deserialize
    BY <2>3 DEF Deserialize
  <2>4. CASE Parse
    BY <2>4 DEF Parse
  <2>5. CASE Bind
    <3>1. pc = "bind" /\ engine' = engine
          /\ pc' = IF engine \in Unfit THEN "failed" ELSE "ready"
      BY <2>5 DEF Bind
    <3> QED
      BY <1>1, <3>1
  <2>6. ASSUME NEW ok \in BOOLEAN, Built(ok) \/ WriteCache(ok) PROVE Right
    BY <2>6 DEF Built, WriteCache
  <2>7. ASSUME NEW f \in Frames, NEW outputs \in RowSets, Infer(f, outputs) PROVE Right
    BY <2>7 DEF Infer
  <2>8. ASSUME NEW m \in Models \cup {NoFile}, NEW t \in 0..clock, Replace(m, t)
        PROVE Right
    BY <2>8 DEF Replace
  <2> QED
    BY <1>1, <2>1, <2>2, <2>4, <2>5, <2>6, <2>7, <2>8, <2>3 DEF EngineNext, Load
<1>2. ASSUME EngineInv, [EngineNext]_engineVars PROVE [Right]_engineVars
  BY <1>1, <1>2
<1> QED
  BY <1>2, EngineInvariant, PTL DEF EngineSpec, StartFollowsModel

(* For every set of models: an engine that was cached in full is tried      *)
(* before its model is built again, whatever kills the program in between.  *)
THEOREM BuildsAreKept == EngineSpec => BuiltOnce
<1> DEFINE Kept == pc = "check" /\ pc' = "parse" => ~cached
<1>1. ASSUME EngineInv, EngineNext PROVE Kept
  <2> USE DEF EngineInv, CachedIsThere
  <2>1. CASE Check
    <3>1. CASE cached
      <4>1. UpToDate
        BY <1>1, <3>1, NoModel DEF UpToDate
      <4> QED
        BY <2>1, <4>1 DEF Check
    <3> QED
      BY <3>1
  <2>2. CASE ~Check
    BY <1>1, <2>2 DEF EngineNext, Load, Launch, Deserialize, Parse, BuildFails, Bind,
       Built, WriteCache, Infer, Kill, Replace, TimePasses
  <2> QED
    BY <2>1, <2>2
<1>2. ASSUME EngineInv, [EngineNext]_engineVars PROVE [Kept]_engineVars
  BY <1>1, <1>2
<1> QED
  BY <1>2, EngineInvariant, PTL DEF EngineSpec, BuiltOnce

-----------------------------------------------------------------------------
(* The borders of letterbox() take up all the room there is, also when it   *)
(* is odd.                                                                  *)
LEMMA BordersFill == ASSUME NEW room \in Int
                     PROVE  Borders(room)[1] + Borders(room)[2] = room
<1>1. PICK k \in Int : room = 2 * k \/ room = 2 * k + 1
  <2>1. room = 2 * (room \div 2) \/ room = 2 * (room \div 2) + 1
    OBVIOUS
  <2>2. room \div 2 \in Int
    OBVIOUS
  <2> QED
    BY <2>1, <2>2
<1>2. CASE room = 2 * k
  BY <1>2 DEF Borders, Round
<1>3. CASE room = 2 * k + 1
  BY <1>3 DEF Borders, Round
<1> QED
  BY <1>1, <1>2, <1>3

(* Sizes of frames are positive, and the largest scale leaves integers.     *)
LEMMA RoundIsInt == ASSUME NEW n \in Int, NEW d \in Nat \ {0}
                    PROVE  Round(n, d) \in Int
<1>1. 2 * d \in Nat /\ 2 * d > 0 /\ 2 * n + d \in Int
  OBVIOUS
<1> QED
  BY <1>1 DEF Round

(* A frame that is scaled gets borders that make up exactly the input.      *)
LEMMA CanvasFits == ASSUME NEW f \in [w : Nat \ {0}, h : Nat \ {0}]
                    PROVE  Canvas(f) = [w |-> InputW, h |-> InputH]
<1> DEFINE r == ScaleOf(f)
<1>1. r.num \in Nat /\ r.den \in Nat \ {0}
  BY DetectorAssumption DEF ScaleOf
<1>2. f.w * r.num \in Int /\ f.h * r.num \in Int
  BY <1>1
<1> HIDE DEF r
<1>3. Round(f.w * r.num, r.den) \in Int /\ Round(f.h * r.num, r.den) \in Int
  BY <1>1, <1>2, RoundIsInt
<1>4. Resized(f).w \in Int /\ Resized(f).h \in Int
  BY <1>3 DEF Resized, r
<1> DEFINE s == Resized(f)
           x == Borders(InputW - s.w)
           y == Borders(InputH - s.h)
<1>5. x[1] + x[2] = InputW - s.w /\ y[1] + y[2] = InputH - s.h
  BY <1>4, DetectorAssumption, BordersFill
<1>6. x[1] \in Int /\ x[2] \in Int /\ y[1] \in Int /\ y[2] \in Int
  BY <1>4, DetectorAssumption DEF Borders, Round
<1>7. Canvas(f) = [w |-> s.w + x[1] + x[2], h |-> s.h + y[1] + y[2]]
  BY DEF Canvas
<1> HIDE DEF s, x, y
<1>8. s.w + x[1] + x[2] = InputW /\ s.h + y[1] + y[2] = InputH
  BY <1>4, <1>5, <1>6, DetectorAssumption DEF s
<1> QED
  BY <1>7, <1>8

-----------------------------------------------------------------------------
(* For every size of frame and of input: infer() reads nothing beside the   *)
(* padded frame.                                                            *)
THEOREM InputFilled == EngineSpec => []FillsTheInput
<1> DEFINE Sized == result = NoResult \/ result.frame \in Frames
<1>1. EngineInit => Sized
  BY DEF EngineInit
<1>2. ASSUME Sized, [EngineNext]_engineVars PROVE Sized'
  <2>1. ASSUME NEW f \in Frames, NEW outputs \in RowSets, Infer(f, outputs) PROVE Sized'
    BY <2>1 DEF Infer, Detected
  <2>2. CASE Kill
    BY <2>2 DEF Kill
  <2>3. CASE UNCHANGED result
    BY <1>2, <2>3
  <2> QED
    BY <1>2, <2>1, <2>2, <2>3 DEF EngineNext, Load, Launch, Check, Deserialize,
       Parse, BuildFails, Bind, Built, WriteCache, Replace, TimePasses, engineVars
<1>3. Sized => FillsTheInput
  BY TrtAssumption, CanvasFits DEF FillsTheInput
<1> QED
  BY <1>1, <1>2, <1>3, PTL DEF EngineSpec

-----------------------------------------------------------------------------
(* A set of natural numbers has a least one: the intervals that end in its  *)
(* members are finite sets, and strict inclusion is well founded on these.  *)
LEMMA LeastNatural ==
  ASSUME NEW S \in SUBSET Nat, S # {}
  PROVE  \E n \in S : \A m \in S : n <= m
<1> DEFINE R == StrictSubsetOrdering(Nat)
           T == {1..n : n \in S}
<1>1. IsWellFoundedOn(R, FiniteSubsetsOf(Nat))
  BY FS_StrictSubsetOrderingWellFounded
<1>2. T \subseteq FiniteSubsetsOf(Nat)
  <2>1. ASSUME NEW n \in S PROVE IsFiniteSet(1..n) /\ 1..n \in SUBSET Nat
    <3>1. 1 \in Int /\ n \in Int
      OBVIOUS
    <3> QED
      BY <3>1, FS_Interval
  <2> QED
    BY <2>1 DEF FiniteSubsetsOf
<1>3. T # {}
  OBVIOUS
<1> HIDE DEF T, R
<1>4. PICK x \in T : \A y \in T : <<y, x>> \notin R
  BY <1>1, <1>2, <1>3, WFMin
<1>5. PICK n \in S : x = 1..n
  BY <1>4 DEF T
<1>6. ASSUME NEW m \in S, ~(n <= m) PROVE FALSE
  <2>1. 1..m \in T
    BY DEF T
  <2>2. m < n /\ m \in Nat /\ n \in Nat
    BY <1>6
  <2>3. 1..m \subseteq 1..n /\ n \in 1..n /\ n \notin 1..m
    BY <2>2
  <2>4. <<1..m, 1..n>> \in R
    BY <2>3, <2>2 DEF R, StrictSubsetOrdering
  <2> QED
    BY <1>4, <1>5, <2>1, <2>4
<1> QED
  BY <1>6

(* Induction, over a set instead of a predicate.                            *)
LEMMA Induction ==
  ASSUME NEW S, 0 \in S, \A n \in Nat : n \in S => n + 1 \in S
  PROVE  \A n \in Nat : n \in S
<1> DEFINE T == Nat \ S
<1>1. SUFFICES ASSUME T # {} PROVE FALSE
  OBVIOUS
<1>2. PICK n \in T : \A m \in T : n <= m
  BY <1>1, LeastNatural
<1>3. n \in Nat /\ n # 0 /\ n - 1 \in Nat /\ n - 1 + 1 = n
  OBVIOUS
<1>4. n - 1 \in S
  BY <1>2, <1>3
<1> QED
  BY <1>3, <1>4

-----------------------------------------------------------------------------
(* The function nms() computes on the first n boxes of s.                  *)
Suppresses(s, n, f) ==
  f = [i \in 0..n |->
         IF i = 0 THEN <<>>
         ELSE IF Removed(i, s, f[i - 1]) THEN f[i - 1]
         ELSE Append(f[i - 1], s[i])]

(* There is one, for however many boxes.                                   *)
LEMMA SuppressionEnds ==
  ASSUME NEW s PROVE \A n \in Nat : \E f : Suppresses(s, n, f)
<1> DEFINE S == {n \in Nat : \E f : Suppresses(s, n, f)}
<1>1. 0 \in S
  <2> DEFINE f == [i \in 0..0 |-> <<>>]
  <2>1. f = [i \in 0..0 |->
               IF i = 0 THEN <<>>
               ELSE IF Removed(i, s, f[i - 1]) THEN f[i - 1]
               ELSE Append(f[i - 1], s[i])]
    <3>1. \A i \in 0..0 : i = 0
      OBVIOUS
    <3> QED
      BY <3>1
  <2>2. Suppresses(s, 0, f)
    BY <2>1 DEF Suppresses
  <2> QED
    BY <2>2
<1>2. ASSUME NEW n \in Nat, n \in S PROVE n + 1 \in S
  <2>1. PICK f : Suppresses(s, n, f)
    BY <1>2
  <2> DEFINE next == IF Removed(n + 1, s, f[n]) THEN f[n] ELSE Append(f[n], s[n + 1])
             g == [i \in 0..(n + 1) |-> IF i = n + 1 THEN next ELSE f[i]]
  <2>2. ASSUME NEW i \in 0..(n + 1)
        PROVE  g[i] = IF i = 0 THEN <<>>
                      ELSE IF Removed(i, s, g[i - 1]) THEN g[i - 1]
                      ELSE Append(g[i - 1], s[i])
    <3>1. CASE i = 0
      <4>1. g[i] = f[0] /\ 0 \in 0..n
        BY <3>1
      <4> QED
        BY <2>1, <3>1, <4>1 DEF Suppresses
    <3>2. CASE i \in 1..n
      <4>1. i \in 0..n /\ i # 0 /\ i # n + 1 /\ i - 1 \in 0..(n + 1) /\ i - 1 # n + 1
        BY <3>2
      <4>2. g[i] = f[i] /\ g[i - 1] = f[i - 1]
        BY <4>1
      <4>3. f[i] = IF Removed(i, s, f[i - 1]) THEN f[i - 1] ELSE Append(f[i - 1], s[i])
        BY <2>1, <4>1 DEF Suppresses
      <4> HIDE DEF g
      <4> QED
        BY <4>1, <4>2, <4>3
    <3>3. CASE i = n + 1
      <4>1. g[n + 1] = next /\ g[n] = f[n] /\ n + 1 # 0 /\ n + 1 - 1 = n
        OBVIOUS
      <4> HIDE DEF g
      <4> QED
        BY <3>3, <4>1
    <3> QED
      BY <3>1, <3>2, <3>3
  <2>3. g = [i \in 0..(n + 1) |->
               IF i = 0 THEN <<>>
               ELSE IF Removed(i, s, g[i - 1]) THEN g[i - 1]
               ELSE Append(g[i - 1], s[i])]
    BY <2>2
  <2>4. Suppresses(s, n + 1, g)
    BY <2>3 DEF Suppresses
  <2> QED
    BY <2>4
<1> HIDE DEF S
<1>3. \A n \in Nat : n \in S
  BY <1>1, <1>2, Induction
<1> QED
  BY <1>3 DEF S

(* And Suppress takes its last value.                                      *)
LEMMA SuppressIs ==
  ASSUME NEW s, Len(s) \in Nat
  PROVE  \E f : Suppresses(s, Len(s), f) /\ Suppress(s) = f[Len(s)]
<1> DEFINE keep == CHOOSE f : Suppresses(s, Len(s), f)
<1>1. Suppresses(s, Len(s), keep)
  BY SuppressionEnds
<1>2. Suppress(s) = keep[Len(s)]
  BY DEF Suppress, Suppresses
<1> QED
  BY <1>1, <1>2

-----------------------------------------------------------------------------
(* A box whose corners are numbers, and the boxes nms() is given.           *)
Corners(b) == b.x1 \in Int /\ b.x2 \in Int /\ b.y1 \in Int /\ b.y2 \in Int

Ranked(s) ==
  /\ s \in Seq(ToSet(s))
  /\ \A i \in DOMAIN s : Corners(s[i])
  /\ \A i \in DOMAIN s : \A j \in 1..i : s[j].conf >= s[i].conf

(* Two boxes overlap alike, whichever is named first.                       *)
LEMMA RivalsBothWays ==
  ASSUME NEW a, NEW b, Corners(a), Corners(b)
  PROVE  Rivals(a, b) <=> Rivals(b, a)
<1>1. \A x, y \in Int : /\ Greatest(x, y) = Greatest(y, x)
                        /\ Least(x, y) = Least(y, x)
                        /\ Greatest(x, y) \in Int /\ Least(x, y) \in Int
  BY DEF Greatest, Least
<1> DEFINE Side(lo, hi) == Greatest(0, hi - lo)
           Area(c) == Side(c.x1, c.x2) * Side(c.y1, c.y2)
           Inter(c, d) ==
             Side(Greatest(c.x1, d.x1), Least(c.x2, d.x2))
               * Side(Greatest(c.y1, d.y1), Least(c.y2, d.y2))
<1>2. Inter(a, b) = Inter(b, a)
  BY <1>1 DEF Corners
<1>3. \A x, y \in Int : Side(x, y) \in Int
  BY <1>1
<1>4. Area(a) \in Int /\ Area(b) \in Int /\ Inter(a, b) \in Int
  <2>1. \A x, y \in Int : x * y \in Int
    OBVIOUS
  <2> HIDE DEF Side
  <2> QED
    BY <1>1, <1>3, <2>1 DEF Corners
<1>5. /\ Overlap(a, b) = [inter |-> Inter(a, b),
                          uni |-> Area(a) + Area(b) - Inter(a, b)]
      /\ Overlap(b, a) = [inter |-> Inter(b, a),
                          uni |-> Area(b) + Area(a) - Inter(b, a)]
  BY DEF Overlap
<1> HIDE DEF Area, Inter
<1>6. Area(a) + Area(b) - Inter(a, b) = Area(b) + Area(a) - Inter(b, a)
  BY <1>2, <1>4
<1>7. Overlap(a, b) = Overlap(b, a)
  BY <1>2, <1>5, <1>6
<1> QED
  BY <1>7 DEF Rivals, OverlapTooMuch

(* What nms() has after n boxes: no two of those kept are rivals, and each  *)
(* of the n is kept or has a rival that is and is at least as confident.    *)
KeptOf(s, n, kept) ==
  /\ kept \in Seq(ToSet(s))
  /\ \A i \in DOMAIN kept : \E m \in 1..n : kept[i] = s[m]
  /\ \A i, j \in DOMAIN kept : i # j => ~Rivals(kept[i], kept[j])
  /\ \A m \in 1..n :
       \E i \in DOMAIN kept :
         kept[i] = s[m] \/ (Rivals(kept[i], s[m]) /\ kept[i].conf >= s[m].conf)

(* A box with a rival among those kept is left out,                        *)
LEMMA KeptStays ==
  ASSUME NEW s, Ranked(s), NEW n \in Nat, n + 1 \in DOMAIN s, NEW kept,
         KeptOf(s, n, kept), Removed(n + 1, s, kept)
  PROVE  KeptOf(s, n + 1, kept)
<1>1. \A i \in DOMAIN kept : \E m \in 1..n + 1 : kept[i] = s[m]
  <2>1. \A m \in 1..n : m \in 1..n + 1
    OBVIOUS
  <2> QED
    BY <2>1 DEF KeptOf
<1>2. PICK i \in DOMAIN kept : Rivals(kept[i], s[n + 1])
  BY DEF Removed
<1>3. kept[i].conf >= s[n + 1].conf
  <2>1. PICK m \in 1..n : kept[i] = s[m]
    BY DEF KeptOf
  <2>2. m \in 1..n + 1
    OBVIOUS
  <2> QED
    BY <2>1, <2>2 DEF Ranked
<1>4. ASSUME NEW m \in 1..n + 1
      PROVE  \E k \in DOMAIN kept :
               kept[k] = s[m] \/ (Rivals(kept[k], s[m]) /\ kept[k].conf >= s[m].conf)
  <2>1. CASE m = n + 1
    BY <1>2, <1>3, <2>1
  <2>2. CASE m # n + 1
    <3>1. m \in 1..n
      BY <2>2
    <3> QED
      BY <3>1 DEF KeptOf
  <2> QED
    BY <2>1, <2>2
<1> QED
  BY <1>1, <1>4 DEF KeptOf

(* and one without is kept.                                                *)
LEMMA KeptGrows ==
  ASSUME NEW s, Ranked(s), NEW n \in Nat, n + 1 \in DOMAIN s, NEW kept,
         KeptOf(s, n, kept), ~Removed(n + 1, s, kept)
  PROVE  KeptOf(s, n + 1, Append(kept, s[n + 1]))
<1> DEFINE more == Append(kept, s[n + 1])
<1>1. s[n + 1] \in ToSet(s)
  BY DEF ToSet
<1>2. kept \in Seq(ToSet(s))
  BY DEF KeptOf
<1>3. /\ more \in Seq(ToSet(s)) /\ Len(more) = Len(kept) + 1
      /\ Len(kept) \in Nat /\ DOMAIN kept = 1..Len(kept)
      /\ DOMAIN more = 1..Len(kept) + 1
      /\ \A i \in 1..Len(kept) : more[i] = kept[i]
      /\ more[Len(kept) + 1] = s[n + 1]
  BY <1>1, <1>2
<1> HIDE DEF more
<1>4. \A i \in DOMAIN more : i \in DOMAIN kept \/ i = Len(kept) + 1
  BY <1>3
<1>5. \A i \in DOMAIN kept : i \in DOMAIN more /\ i # Len(kept) + 1 /\ more[i] = kept[i]
  BY <1>3
<1>6. \A i \in DOMAIN more : \E m \in 1..n + 1 : more[i] = s[m]
  <2>1. n + 1 \in 1..n + 1 /\ \A m \in 1..n : m \in 1..n + 1
    OBVIOUS
  <2>2. ASSUME NEW i \in DOMAIN kept PROVE \E m \in 1..n + 1 : more[i] = s[m]
    <3>1. PICK m \in 1..n : kept[i] = s[m]
      BY DEF KeptOf
    <3> QED
      BY <1>5, <2>1, <3>1
  <2> QED
    BY <1>3, <1>4, <2>1, <2>2
<1>7. ASSUME NEW i \in DOMAIN kept
      PROVE  ~Rivals(kept[i], s[n + 1]) /\ ~Rivals(s[n + 1], kept[i])
  <2>1. ~Rivals(kept[i], s[n + 1])
    BY DEF Removed
  <2>2. Corners(s[n + 1]) /\ Corners(kept[i])
    <3>1. PICK m \in 1..n : kept[i] = s[m]
      BY DEF KeptOf
    <3>2. m \in DOMAIN s
      <4>1. DOMAIN s = 1..Len(s) /\ Len(s) \in Nat
        BY DEF Ranked
      <4> QED
        BY <4>1
    <3> QED
      BY <3>1, <3>2 DEF Ranked
  <2> QED
    BY <2>1, <2>2, RivalsBothWays
<1>8. ASSUME NEW i \in DOMAIN more, NEW j \in DOMAIN more, i # j
      PROVE  ~Rivals(more[i], more[j])
  <2>1. CASE i \in DOMAIN kept /\ j \in DOMAIN kept
    BY <1>5, <1>8, <2>1 DEF KeptOf
  <2>2. CASE i \in DOMAIN kept /\ j = Len(kept) + 1
    BY <1>3, <1>5, <1>7, <2>2
  <2>3. CASE i = Len(kept) + 1 /\ j \in DOMAIN kept
    BY <1>3, <1>5, <1>7, <2>3
  <2> QED
    BY <1>4, <1>8, <2>1, <2>2, <2>3
<1>9. ASSUME NEW m \in 1..n + 1
      PROVE  \E k \in DOMAIN more :
               more[k] = s[m] \/ (Rivals(more[k], s[m]) /\ more[k].conf >= s[m].conf)
  <2>1. CASE m = n + 1
    <3>1. Len(kept) + 1 \in DOMAIN more
      BY <1>3
    <3> QED
      BY <1>3, <2>1, <3>1
  <2>2. CASE m # n + 1
    <3>1. m \in 1..n
      BY <2>2
    <3>2. PICK k \in DOMAIN kept :
            kept[k] = s[m] \/ (Rivals(kept[k], s[m]) /\ kept[k].conf >= s[m].conf)
      BY <3>1 DEF KeptOf
    <3> QED
      BY <1>5, <3>2
  <2> QED
    BY <2>1, <2>2
<1> QED
  BY <1>3, <1>6, <1>8, <1>9 DEF KeptOf, more

(* nms() on boxes of falling confidence, however many.                      *)
LEMMA SuppressKeeps ==
  ASSUME NEW s, Ranked(s) PROVE KeptOf(s, Len(s), Suppress(s))
<1>1. Len(s) \in Nat /\ DOMAIN s = 1..Len(s)
  BY DEF Ranked
<1>2. PICK f : Suppresses(s, Len(s), f) /\ Suppress(s) = f[Len(s)]
  BY <1>1, SuppressIs
<1> DEFINE S == {n \in Nat : n <= Len(s) => KeptOf(s, n, f[n])}
<1>3. 0 \in S
  <2>1. f[0] = <<>>
    BY <1>1, <1>2 DEF Suppresses
  <2>2. KeptOf(s, 0, <<>>)
    BY DEF KeptOf
  <2> QED
    BY <2>1, <2>2
<1>4. ASSUME NEW n \in Nat, n \in S PROVE n + 1 \in S
  <2>1. SUFFICES ASSUME n + 1 <= Len(s) PROVE KeptOf(s, n + 1, f[n + 1])
    OBVIOUS
  <2>2. n + 1 \in DOMAIN s /\ n + 1 \in 0..Len(s) /\ n + 1 # 0 /\ n + 1 - 1 = n
    BY <1>1, <2>1
  <2>3. KeptOf(s, n, f[n])
    BY <1>1, <1>4, <2>1
  <2>4. f[n + 1] = IF Removed(n + 1, s, f[n]) THEN f[n] ELSE Append(f[n], s[n + 1])
    <3>1. \A i \in 0..Len(s) :
            f[i] = IF i = 0 THEN <<>>
                   ELSE IF Removed(i, s, f[i - 1]) THEN f[i - 1]
                   ELSE Append(f[i - 1], s[i])
      BY <1>2 DEF Suppresses
    <3>2. f[n + 1] = IF n + 1 = 0 THEN <<>>
                     ELSE IF Removed(n + 1, s, f[n + 1 - 1]) THEN f[n + 1 - 1]
                     ELSE Append(f[n + 1 - 1], s[n + 1])
      BY <2>2, <3>1
    <3> QED
      BY <2>2, <3>2
  <2> QED
    BY <2>2, <2>3, <2>4, KeptStays, KeptGrows
<1> HIDE DEF S
<1>5. Len(s) \in S
  BY <1>1, <1>3, <1>4, Induction
<1> QED
  BY <1>1, <1>2, <1>5 DEF S

(* The outputs of the network give finitely many boxes, with numbers for    *)
(* corners, and any order std::sort may leave them in is one of falling     *)
(* confidence.                                                              *)
LEMMA CandidatesRanked ==
  ASSUME NEW outputs, IsFiniteSet(outputs), outputs \subseteq NetworkRow,
         NEW s \in Sorted(Candidates(outputs))
  PROVE  Ranked(s)
<1> DEFINE strong == {r \in outputs : r.obj > 0 /\ Confidence(r) >= ConfThreshold}
           f == [r \in strong |-> BoxOf(r)]
<1>1. IsFiniteSet(Candidates(outputs))
  <2>1. strong \in SUBSET outputs
    OBVIOUS
  <2>2. IsFiniteSet(strong)
    BY <2>1, FS_Subset
  <2>3. f \in Surjection(strong, Candidates(outputs))
    BY DEF Surjection, Candidates
  <2> HIDE DEF strong, f
  <2> QED
    BY <2>2, <2>3, FS_Surjection
<1>2. Cardinality(Candidates(outputs)) \in Nat
  BY <1>1, FS_CardinalityType
<1>3. /\ s \in [1..Cardinality(Candidates(outputs)) -> Candidates(outputs)]
      /\ \A i \in DOMAIN s : \A j \in 1..i : s[j].conf >= s[i].conf
  BY DEF Sorted, SetToSeqs
<1>4. s \in Seq(ToSet(s))
  <2>1. s \in [1..Cardinality(Candidates(outputs)) -> ToSet(s)]
    BY <1>3 DEF ToSet
  <2> QED
    BY <1>2, <2>1
<1>5. ASSUME NEW i \in DOMAIN s PROVE Corners(s[i])
  <2>1. PICK r \in outputs : s[i] = BoxOf(r)
    BY <1>3 DEF Candidates
  <2>2. r.cx \in Int /\ r.cy \in Int /\ r.w \in Int /\ r.h \in Int
    BY DEF NetworkRow
  <2>3. r.w \div 2 \in Int /\ r.h \div 2 \in Int
    BY <2>2
  <2> QED
    BY <2>1, <2>2, <2>3 DEF BoxOf, Corners
<1> QED
  BY <1>3, <1>4, <1>5 DEF Ranked

(* The length of a side.                                                    *)
Length(lo, hi) == Greatest(0, hi - lo)

(* To stretch by a factor and to shift.                                     *)
Stretches(k, f) == \E c \in Int : f = [x \in Int |-> k * x + c]

(* It keeps order and stretches lengths.                                    *)
LEMMA StretchedLength ==
  ASSUME NEW k \in Nat \ {0}, NEW f, Stretches(k, f)
  PROVE  /\ \A a, b \in Int : Length(f[a], f[b]) = k * Length(a, b)
         /\ \A a, b \in Int : Greatest(f[a], f[b]) = f[Greatest(a, b)]
         /\ \A a, b \in Int : Least(f[a], f[b]) = f[Least(a, b)]
<1> SUFFICES ASSUME NEW a \in Int, NEW b \in Int
             PROVE  /\ Length(f[a], f[b]) = k * Length(a, b)
                    /\ Greatest(f[a], f[b]) = f[Greatest(a, b)]
                    /\ Least(f[a], f[b]) = f[Least(a, b)]
  BY Zenon
<1>1. PICK c \in Int : f = [x \in Int |-> k * x + c]
  BY DEF Stretches
<1>2. f[a] = k * a + c /\ f[b] = k * b + c /\ k * a \in Int /\ k * b \in Int
  BY <1>1
<1>3. (a < b <=> k * a < k * b) /\ (a > b <=> k * a > k * b)
  OBVIOUS
<1>4. (k * b + c) - (k * a + c) = k * (b - a)
  OBVIOUS
<1>5. (0 > b - a <=> 0 > k * (b - a)) /\ k * 0 = 0
  OBVIOUS
<1>6. Greatest(f[a], f[b]) = f[Greatest(a, b)] /\ Least(f[a], f[b]) = f[Least(a, b)]
  BY <1>2, <1>3, <1>1 DEF Greatest, Least
<1>7. Length(f[a], f[b]) = k * Length(a, b)
  BY <1>2, <1>4, <1>5 DEF Greatest, Length
<1> QED
  BY <1>6, <1>7

(* Areas are stretched by the square of the factor.                         *)
LEMMA StretchedArea ==
  \A k \in Nat \ {0}, a, b \in Int : (k * a) * (k * b) = (k * k) * (a * b)
  OBVIOUS

(* Which of two products is greater does not change with the scale.         *)
LEMMA StretchedRatio ==
  ASSUME NEW k \in Nat \ {0}, NEW i \in Int, NEW u \in Int, NEW t \in Int
  PROVE  /\ u > 0 <=> k * u > 0
         /\ 100 * i > t * u <=> 100 * (k * i) > t * (k * u)
<1> DEFINE x == 100 * i
           y == t * u
<1>1. 100 * (k * i) = k * x /\ t * (k * u) = k * y
  OBVIOUS
<1>2. x \in Int /\ y \in Int
  OBVIOUS
<1>3. u > 0 <=> k * u > 0
  OBVIOUS
<1> HIDE DEF x, y
<1>4. x > y <=> k * x > k * y
  BY <1>2
<1> QED
  BY <1>1, <1>3, <1>4 DEF x, y

(* The area of a box, and the sides of what two boxes share.                *)
AreaOf(b)    == Length(b.x1, b.x2) * Length(b.y1, b.y2)
Width(a, b)  == Length(Greatest(a.x1, b.x1), Least(a.x2, b.x2))
Height(a, b) == Length(Greatest(a.y1, b.y1), Least(a.y2, b.y2))
Shared(a, b) == Width(a, b) * Height(a, b)

(* What they are made of is a number.                                       *)
LEMMA LengthsAreNumbers ==
  ASSUME NEW a, NEW b, Corners(a), Corners(b)
  PROVE  /\ Length(a.x1, a.x2) \in Int /\ Length(a.y1, a.y2) \in Int
         /\ Width(a, b) \in Int /\ Height(a, b) \in Int
  BY DEF Corners, Length, Width, Height, Greatest, Least

(* p is b with its coordinates stretched and shifted.                       *)
Moves(X, Y, b, p) ==
  /\ p.x1 = X[b.x1] /\ p.x2 = X[b.x2] /\ p.y1 = Y[b.y1] /\ p.y2 = Y[b.y2]
  /\ p.cls = b.cls

(* Two boxes that are stretched and shifted alike are rivals if and only if *)
(* they were before.                                                        *)
LEMMA StretchedRivals ==
  ASSUME NEW k \in Nat \ {0}, NEW X, Stretches(k, X), NEW Y, Stretches(k, Y),
         NEW a, NEW b, Corners(a), Corners(b),
         NEW p, NEW q, Moves(X, Y, a, p), Moves(X, Y, b, q)
  PROVE  Rivals(p, q) <=> Rivals(a, b)
<1> DEFINE kk == k * k
<1>1. /\ a.x1 \in Int /\ a.x2 \in Int /\ a.y1 \in Int /\ a.y2 \in Int
      /\ b.x1 \in Int /\ b.x2 \in Int /\ b.y1 \in Int /\ b.y2 \in Int
  BY DEF Corners
<1>2. /\ \A x, y \in Int : Length(X[x], X[y]) = k * Length(x, y)
      /\ \A x, y \in Int : Greatest(X[x], X[y]) = X[Greatest(x, y)]
      /\ \A x, y \in Int : Least(X[x], X[y]) = X[Least(x, y)]
  BY StretchedLength, SMT
<1>3. /\ \A x, y \in Int : Length(Y[x], Y[y]) = k * Length(x, y)
      /\ \A x, y \in Int : Greatest(Y[x], Y[y]) = Y[Greatest(x, y)]
      /\ \A x, y \in Int : Least(Y[x], Y[y]) = Y[Least(x, y)]
  BY StretchedLength, SMT
<1>4. /\ Length(p.x1, p.x2) = k * Length(a.x1, a.x2)
       /\ Length(p.y1, p.y2) = k * Length(a.y1, a.y2)
       /\ Length(q.x1, q.x2) = k * Length(b.x1, b.x2)
       /\ Length(q.y1, q.y2) = k * Length(b.y1, b.y2)
  <2>1. Length(p.x1, p.x2) = k * Length(a.x1, a.x2)
    BY <1>1, <1>2 DEF Moves
  <2>2. Length(p.y1, p.y2) = k * Length(a.y1, a.y2)
    BY <1>1, <1>3 DEF Moves
  <2>3. Length(q.x1, q.x2) = k * Length(b.x1, b.x2)
    BY <1>1, <1>2 DEF Moves
  <2>4. Length(q.y1, q.y2) = k * Length(b.y1, b.y2)
    BY <1>1, <1>3 DEF Moves
  <2> QED
    BY <2>1, <2>2, <2>3, <2>4
<1>5. \A x, y \in Int : Greatest(x, y) \in Int /\ Least(x, y) \in Int
  BY DEF Greatest, Least
<1>6. Width(p, q) = k * Width(a, b)
  <2>1. /\ Greatest(p.x1, q.x1) = X[Greatest(a.x1, b.x1)]
        /\ Least(p.x2, q.x2) = X[Least(a.x2, b.x2)]
    BY <1>1, <1>2 DEF Moves
  <2>2. Greatest(a.x1, b.x1) \in Int /\ Least(a.x2, b.x2) \in Int
    BY <1>1, <1>5
  <2> QED
    BY <1>2, <2>1, <2>2, Zenon DEF Width
<1>7. Height(p, q) = k * Height(a, b)
  <2>1. /\ Greatest(p.y1, q.y1) = Y[Greatest(a.y1, b.y1)]
        /\ Least(p.y2, q.y2) = Y[Least(a.y2, b.y2)]
    BY <1>1, <1>3 DEF Moves
  <2>2. Greatest(a.y1, b.y1) \in Int /\ Least(a.y2, b.y2) \in Int
    BY <1>1, <1>5
  <2> QED
    BY <1>3, <2>1, <2>2, Zenon DEF Height
<1>8. /\ AreaOf(p) = kk * AreaOf(a) /\ AreaOf(q) = kk * AreaOf(b)
      /\ Shared(p, q) = kk * Shared(a, b)
  <2>1. \A x, y \in Int : (k * x) * (k * y) = kk * (x * y)
    BY StretchedArea
  <2>2. /\ Length(a.x1, a.x2) \in Int /\ Length(a.y1, a.y2) \in Int
        /\ Length(b.x1, b.x2) \in Int /\ Length(b.y1, b.y2) \in Int
        /\ Width(a, b) \in Int /\ Height(a, b) \in Int
    BY LengthsAreNumbers
  <2> HIDE DEF kk
  <2>3. AreaOf(p) = kk * AreaOf(a)
    <3>1. (k * Length(a.x1, a.x2)) * (k * Length(a.y1, a.y2)) = kk * AreaOf(a)
      BY <2>1, <2>2, Zenon DEF AreaOf
    <3> QED
      BY <1>4, <3>1, Zenon DEF AreaOf
  <2>4. AreaOf(q) = kk * AreaOf(b)
    <3>1. (k * Length(b.x1, b.x2)) * (k * Length(b.y1, b.y2)) = kk * AreaOf(b)
      BY <2>1, <2>2, Zenon DEF AreaOf
    <3> QED
      BY <1>4, <3>1, Zenon DEF AreaOf
  <2>5. Shared(p, q) = kk * Shared(a, b)
    <3>1. (k * Width(a, b)) * (k * Height(a, b)) = kk * Shared(a, b)
      BY <2>1, <2>2, Zenon DEF Shared
    <3> QED
      BY <1>6, <1>7, <3>1, Zenon DEF Shared
  <2> QED
    BY <2>3, <2>4, <2>5
<1>9. AreaOf(a) \in Int /\ AreaOf(b) \in Int /\ Shared(a, b) \in Int
  <2>1. \A x, y \in Int : x * y \in Int
    OBVIOUS
  <2> QED
    BY <2>1, LengthsAreNumbers DEF AreaOf, Shared
<1>10. kk \in Nat \ {0}
  OBVIOUS
<1> HIDE DEF kk
<1> DEFINE i == Shared(a, b)
           u == AreaOf(a) + AreaOf(b) - Shared(a, b)
<1>11. /\ Overlap(a, b) = [inter |-> i, uni |-> u]
      /\ Overlap(p, q) =
           [inter |-> Shared(p, q), uni |-> AreaOf(p) + AreaOf(q) - Shared(p, q)]
  BY DEF Overlap, Shared, AreaOf, Width, Height, Length
<1>12. AreaOf(p) + AreaOf(q) - Shared(p, q) = kk * u
  BY <1>8, <1>9, <1>10
<1>13. i \in Int /\ u \in Int /\ IouThreshold \in Int
  BY <1>9, DetectorAssumption
<1> HIDE DEF i, u
<1>14. Overlap(p, q) = [inter |-> kk * i, uni |-> kk * u]
  BY <1>8, <1>11, <1>12 DEF i
<1>15. OverlapTooMuch(p, q) <=> OverlapTooMuch(a, b)
  BY <1>10, <1>11, <1>13, <1>14, StretchedRatio DEF OverlapTooMuch
<1> QED
  BY <1>15 DEF Rivals, Moves

(* Two boxes that scale_box_to_frame() does not cut overlap in the frame    *)
(* as they did in the network's input.                                      *)
LEMMA UncutRivals ==
  ASSUME NEW a, NEW b, Corners(a), Corners(b),
         NEW f \in [w : Nat \ {0}, h : Nat \ {0}], ~Cut(a, f), ~Cut(b, f)
  PROVE  Rivals(InFrame(a, f), InFrame(b, f)) <=> Rivals(a, b)
<1> DEFINE den == ScaleOf(f).den
           hx == InputW - Resized(f).w
           hy == InputH - Resized(f).h
           k == 2 * den
           cx == -(hx * den)
           cy == -(hy * den)
<1>1. den \in Nat \ {0}
  BY DetectorAssumption DEF ScaleOf
<1>2. hx \in Int /\ hy \in Int
  <2>1. ScaleOf(f).num \in Nat /\ ScaleOf(f).den \in Nat \ {0}
    BY DetectorAssumption DEF ScaleOf
  <2>2. f.w * ScaleOf(f).num \in Int /\ f.h * ScaleOf(f).num \in Int
    BY <2>1
  <2>3. Resized(f).w \in Int /\ Resized(f).h \in Int
    BY <2>1, <2>2, RoundIsInt DEF Resized
  <2> QED
    BY <2>3, DetectorAssumption
<1>3. \A c : Placed(c, f) = [x1 |-> (2 * c.x1 - hx) * den, x2 |-> (2 * c.x2 - hx) * den,
                             y1 |-> (2 * c.y1 - hy) * den, y2 |-> (2 * c.y2 - hy) * den,
                             conf |-> c.conf, cls |-> c.cls]
  BY DEF Placed
<1> HIDE DEF den, hx, hy
<1> DEFINE X == [x \in Int |-> k * x + cx]
           Y == [y \in Int |-> k * y + cy]
<1>4. /\ \A x \in Int : (2 * x - hx) * den = X[x]
      /\ \A y \in Int : (2 * y - hy) * den = Y[y]
  BY <1>1, <1>2
<1>5. k \in Nat \ {0} /\ Stretches(k, X) /\ Stretches(k, Y)
  <2>1. k \in Nat \ {0} /\ cx \in Int /\ cy \in Int
    BY <1>1, <1>2
  <2> HIDE DEF k, cx, cy
  <2> QED
    BY <2>1 DEF Stretches
<1> HIDE DEF k, cx, cy, X, Y
<1>6. ASSUME NEW c, Corners(c) PROVE Moves(X, Y, c, Placed(c, f))
  BY <1>3, <1>4, <1>6 DEF Corners, Moves
<1>7. Rivals(Placed(a, f), Placed(b, f)) <=> Rivals(a, b)
  BY <1>5, <1>6, StretchedRivals
<1> QED
  BY <1>7 DEF Cut

(* For any outputs of the network and any size of frame: of the boxes       *)
(* infer() returns two of a class overlap too much only if one was cut at   *)
(* the edge of the frame, and none is left out without one at least as      *)
(* confident in its place.                                                  *)
THEOREM BoxesKeptApart == EngineSpec => []KeptApart
<1> DEFINE Kept ==
      result # NoResult =>
        \E f \in Frames : \E s : Ranked(s) /\ result = Detected(f, s)
<1>1. EngineInit => Kept
  BY DEF EngineInit
<1>2. ASSUME Kept, [EngineNext]_engineVars PROVE Kept'
  <2>1. ASSUME NEW f \in Frames, NEW outputs \in RowSets, Infer(f, outputs) PROVE Kept'
    <3>1. CASE ~CanResize(f)
      BY <2>1, <3>1 DEF Infer
    <3>2. CASE CanResize(f)
      <4>1. PICK s \in Sorted(Candidates(outputs)) : result' = Detected(f, s)
        BY <2>1, <3>2 DEF Infer
      <4>2. Ranked(s)
        BY TrtAssumption, CandidatesRanked
      <4> QED
        BY <4>1, <4>2
    <3> QED
      BY <3>1, <3>2
  <2>2. CASE Kill
    BY <2>2 DEF Kill
  <2>3. CASE UNCHANGED result
    BY <1>2, <2>3
  <2> QED
    BY <1>2, <2>1, <2>2, <2>3 DEF EngineNext, Load, Launch, Check, Deserialize,
       Parse, BuildFails, Bind, Built, WriteCache, Replace, TimePasses, engineVars
<1>3. ASSUME Kept PROVE KeptApart
  <2>1. SUFFICES ASSUME result # NoResult
                 PROVE  /\ \A i, j \in DOMAIN result.found :
                             i # j /\ Rivals(result.found[i], result.found[j]) =>
                               \/ Cut(result.kept[i], result.frame)
                               \/ Cut(result.kept[j], result.frame)
                        /\ \A b \in ToSet(result.boxes) \ ToSet(result.kept) :
                             \E k \in ToSet(result.kept) :
                               Rivals(k, b) /\ k.conf >= b.conf
    BY DEF KeptApart
  <2>f. PICK f \in Frames : \E s : Ranked(s) /\ result = Detected(f, s)
    BY <1>3, <2>1
  <2>2. PICK s : Ranked(s) /\ result = Detected(f, s)
    BY <2>f
  <2> DEFINE kept == Suppress(s)
  <2>3. /\ result.frame = f /\ result.boxes = s /\ result.kept = kept
        /\ result.found = [i \in DOMAIN kept |-> InFrame(kept[i], f)]
    BY <2>2 DEF Detected
  <2>4. KeptOf(s, Len(s), kept)
    BY <2>2, SuppressKeeps
  <2> HIDE DEF kept
  <2>5. DOMAIN s = 1..Len(s) /\ f \in [w : Nat \ {0}, h : Nat \ {0}]
    BY <2>2, TrtAssumption DEF Ranked
  <2>6. ASSUME NEW i \in DOMAIN kept PROVE Corners(kept[i])
    <3>1. PICK m \in 1..Len(s) : kept[i] = s[m]
      BY <2>4 DEF KeptOf
    <3> QED
      BY <2>2, <2>5, <3>1 DEF Ranked
  <2>7. ASSUME NEW i \in DOMAIN kept, NEW j \in DOMAIN kept, i # j,
               Rivals(InFrame(kept[i], f), InFrame(kept[j], f)),
               ~Cut(kept[i], f), ~Cut(kept[j], f)
        PROVE  FALSE
    <3>1. Rivals(kept[i], kept[j])
      BY <2>5, <2>6, <2>7, UncutRivals
    <3> QED
      BY <2>4, <2>7, <3>1 DEF KeptOf
  <2>8. ASSUME NEW b \in ToSet(s) \ ToSet(kept)
        PROVE  \E k \in ToSet(kept) : Rivals(k, b) /\ k.conf >= b.conf
    <3>1. PICK m \in 1..Len(s) : b = s[m]
      BY <2>5 DEF ToSet
    <3>2. PICK i \in DOMAIN kept :
            kept[i] = s[m] \/ (Rivals(kept[i], s[m]) /\ kept[i].conf >= s[m].conf)
      BY <2>4 DEF KeptOf
    <3>3. kept[i] \in ToSet(kept)
      BY DEF ToSet
    <3> QED
      BY <3>1, <3>2, <3>3
  <2> QED
    BY <2>3, <2>7, <2>8
<1>4. Kept => KeptApart
  BY <1>3
<1> QED
  BY <1>1, <1>2, <1>4, PTL DEF EngineSpec

-----------------------------------------------------------------------------
(* A behaviour of YoloFiles is one of the recordings and one of the engine: *)
(* what is proved of Spec and EngineSpec holds of it.                       *)
LEMMA EachOnItsOwn == FilesSpec => Spec /\ EngineSpec
<1>1. FilesInit => Init /\ EngineInit
  BY DEF FilesInit
<1>2. [FilesNext]_<<vars, engineVars, followed>> =>
        [Next]_vars /\ [EngineNext]_engineVars
  BY DEF FilesNext, RecordingStep, EngineStep
<1> QED
  BY <1>1, <1>2, PTL DEF FilesSpec, Spec, EngineSpec
============================================================================
