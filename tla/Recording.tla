----------------------------- MODULE Recording -----------------------------
(***************************************************************************)
(* The recordings of YOLO_MODEL/cpp/yolo_live.cpp: RecState, which the     *)
(* handlers of /start and /stop, the sampler and the end of run() work on, *)
(* each under rec.mutex, and the report finish_locked() writes.            *)
(*                                                                         *)
(* A critical section is one step.  The sampler takes its sample and reads *)
(* the clock before it locks, so the others may come in between.           *)
(***************************************************************************)
EXTENDS Integers, Sequences

CONSTANTS
  Durations,   (* seconds asked of /start                                    *)
  Interval,    (* SAMPLE_INTERVAL_SEC                                        *)
  MaxLag       (* bound: a sample is recorded within this time               *)

ASSUME RecordingAssumption ==
  /\ Durations \subseteq Nat \ {0}
  /\ \E d \in Durations : \A e \in Durations : e <= d
  /\ Interval \in Nat \ {0} /\ MaxLag \in Nat

VARIABLES
  main,              (* "serving", "stopped", "saved", "done"                *)
  sampler,           (* "sample", "record", "sleep", "ended"                 *)
  timer,             (* since its sample, or since it went to sleep          *)
  active, rows,      (* RecState: under way, elapsed_s of its rows           *)
  age,               (* since t0, the last /start                            *)
  duration,
  saved,             (* RecState.saved is not empty                          *)
  which,             (* history: tells a recording from the one before       *)
  reports,           (* history: how often this recording was written        *)
  written,           (* history: rows in its report, Unopened when the file  *)
                     (* could not be opened                                  *)
  late               (* history: /start came after run() had saved           *)

recording == <<active, rows, age, duration, saved, which, reports, written>>
vars == <<main, sampler, timer, recording, late>>

Over == main = "done"

Longest == CHOOSE d \in Durations : \A e \in Durations : e <= d

(* Bound on the age told: no recording under way comes to it.               *)
Oldest == Longest + Interval + 3 * MaxLag + 1

(* Bound on the rows kept: no recording comes to so many.                   *)
MaxRows == Longest \div Interval + 3

WithRow(t) == IF Len(rows) < MaxRows THEN Append(rows, t) ELSE rows

Unopened == -1

(* finish_locked(): without rows nothing is written; saved is set whether   *)
(* or not the file could be opened.                                         *)
Finish(all) ==
  /\ active' = FALSE
  /\ rows' = all
  /\ UNCHANGED <<age, duration, which>>
  /\ IF all = <<>>
     THEN UNCHANGED <<saved, reports, written>>
     ELSE saved' = TRUE /\ reports' = reports + 1 /\ written' \in {Len(all), Unopened}

(* The handlers run in threads of their own until the process is gone. *)
Start(sec) ==
  /\ ~Over
  /\ active' = TRUE
  /\ rows' = <<>>
  /\ age' = 0 /\ duration' = sec
  /\ saved' = FALSE
  /\ which' = ~which /\ reports' = 0 /\ written' = 0
  /\ late' = (late \/ main = "saved")
  /\ UNCHANGED <<main, sampler, timer>>

(* Mutation of MayFinish: /stop finishes what the sampler has finished.     *)
AlwaysFinish == TRUE

MayFinish == active

Stop ==
  /\ ~Over
  /\ MayFinish
  /\ Finish(rows)
  /\ UNCHANGED <<main, sampler, timer, late>>

(***************************************************************************)
(* sampler().                                                              *)
(***************************************************************************)
Sample ==
  /\ sampler = "sample"
  /\ sampler' = "record" /\ timer' = 0
  /\ UNCHANGED <<main, recording, late>>

Elapsed == age - timer

(* Mutation of Complete: the time is up when it is exceeded by a sample.    *)
CompleteLater(elapsed) == elapsed >= duration + 2 * Interval

Complete(elapsed) == elapsed >= duration

Record ==
  /\ sampler = "record"
  /\ IF ~active THEN UNCHANGED recording
     ELSE IF Complete(Elapsed) THEN Finish(WithRow(Elapsed))
     ELSE /\ rows' = WithRow(Elapsed)
          /\ UNCHANGED <<active, age, duration, saved, which, reports, written>>
  /\ sampler' = "sleep" /\ timer' = 0
  /\ UNCHANGED <<main, late>>

(* Mutation of Wake: the sampler goes on as long as there is a recording.   *)
WakeForRecording ==
  /\ sampler = "sleep" /\ timer >= Interval
  /\ sampler' = IF main = "serving" /\ active THEN "sample" ELSE "ended"
  /\ timer' = 0
  /\ UNCHANGED <<main, recording, late>>

Wake ==
  /\ sampler = "sleep" /\ timer >= Interval
  /\ sampler' = IF main = "serving" THEN "sample" ELSE "ended"
  /\ timer' = 0
  /\ UNCHANGED <<main, recording, late>>

Sampler == Sample \/ Record \/ Wake

(***************************************************************************)
(* The end of run().                                                       *)
(***************************************************************************)
ServerStops ==
  /\ main = "serving"
  /\ main' = "stopped"
  /\ UNCHANGED <<sampler, timer, recording, late>>

(* Mutation of SaveLast: the recording is ended and not written.            *)
DropLast ==
  active' = FALSE /\ UNCHANGED <<rows, age, duration, saved, which, reports, written>>

SaveLast == IF active THEN Finish(rows) ELSE UNCHANGED recording

SaveAtEnd ==
  /\ main = "stopped"
  /\ main' = "saved"
  /\ SaveLast
  /\ UNCHANGED <<sampler, timer, late>>

(* The camera and the inferer are joined before the sampler.  The inferer   *)
(* may sleep through the notification (YoloLive), so this may never come.   *)
Join ==
  /\ main = "saved" /\ sampler = "ended"
  /\ main' = "done"
  /\ UNCHANGED <<sampler, timer, recording, late>>

Shutdown == SaveAtEnd \/ Join

Tick ==
  /\ ~Over
  /\ sampler # "sample"
  /\ sampler = "record" => timer < MaxLag
  /\ sampler = "sleep" => timer < Interval + MaxLag
  /\ timer' = IF sampler = "ended" THEN timer ELSE timer + 1
  /\ age' = IF age < Oldest THEN age + 1 ELSE age
  /\ UNCHANGED <<main, sampler, active, rows, duration, saved, which, reports,
                 written, late>>

Init ==
  /\ main = "serving" /\ sampler = "sample" /\ timer = 0
  /\ active = FALSE /\ rows = <<>> /\ age = 0 /\ duration = Longest
  /\ saved = FALSE
  /\ which = FALSE /\ reports = 0 /\ written = 0 /\ late = FALSE

Next == (\E sec \in Durations : Start(sec)) \/ Stop \/ Sampler
        \/ ServerStops \/ Shutdown \/ Tick

Spec == Init /\ [][Next]_vars

(* The sampler runs, run() comes to its joins and time passes; nobody has   *)
(* to press a button, and the joins need not return.                        *)
FairSpec == Spec /\ WF_vars(Sampler) /\ WF_vars(SaveAtEnd) /\ WF_vars(Tick)

-----------------------------------------------------------------------------
(* Every variable holds a value of its kind; a recording holds a row for    *)
(* each sampling interval of its duration, and two at most besides.         *)
TypeOK ==
  /\ main \in {"serving", "stopped", "saved", "done"}
  /\ sampler \in {"sample", "record", "sleep", "ended"}
  /\ timer \in 0..Interval + MaxLag
  /\ active \in BOOLEAN /\ saved \in BOOLEAN /\ which \in BOOLEAN
  /\ rows \in Seq(-MaxLag..Oldest) /\ Len(rows) <= duration \div Interval + 2
  /\ age \in 0..Oldest /\ duration \in Durations
  /\ reports \in Nat /\ written \in 0..duration \div Interval + 2 \cup {Unopened}
  /\ late \in BOOLEAN

(* The rows of a recording are in the order of their times, one interval    *)
(* apart; only the first may have been sampled before /start, and only the  *)
(* last after the duration.                                                 *)
RowsBelongToRecording ==
  \A i \in DOMAIN rows :
    /\ i > 1 => rows[i] >= 0 /\ rows[i] >= rows[i - 1] + Interval
    /\ i < Len(rows) => rows[i] < duration

(* A recording is written at most once, though /stop, the sampler and the   *)
(* end of the program may all want to finish it.                            *)
WrittenOnce == reports <= 1

(* Nobody has to stop a recording: it ends, or is replaced by the next.     *)
(* Only one started while run() joins its threads may go on for ever, as    *)
(* the joins may.                                                           *)
RecordingEnds ==
  \A w \in BOOLEAN : active /\ which = w ~> ~active \/ which # w \/ late

(* The program leaves no recording behind that is not in its report, row by *)
(* row: not when it is stopped while one is under way, nor when /stop, the  *)
(* sampler and the shutdown meet.  Excepted are a recording started while   *)
(* run() joins its threads, and a report whose file could not be opened.    *)
LastRecordingSaved ==
  Over /\ ~late => ~active /\ written \in {Len(rows), Unopened}
=============================================================================
