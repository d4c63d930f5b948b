------------------------------ MODULE YoloLive ------------------------------
(***************************************************************************)
(* The threads of YOLO_MODEL/cpp/yolo_live.cpp: main (the function run()), *)
(* the model loader, grabber, inferer and sampler, the handler of SIGINT,  *)
(* and what they share: the newest camera frame under cap_mutex, the       *)
(* detection result, and the two stop flags.                               *)
(*                                                                         *)
(* A step of a thread is what it does between two points where another     *)
(* thread can come in.  Only the inferer keeps cap_mutex from one step to  *)
(* the next: from the test of its wait condition until it has gone to      *)
(* sleep on cap_cv.                                                        *)
(*                                                                         *)
(* raw_frame_gen and last_gen are compared for inequality only, so they    *)
(* are the one flag "unseen".                                              *)
(***************************************************************************)
EXTENDS Integers, Sequences

CONSTANTS
  ClassNames,      (* what the model can recognise                           *)
  ConfirmFrames,   (* TARGET_CONFIRM_FRAMES                                  *)
  WarmupFrames     (* the camera is warm after this many frames              *)

(* What the deque holds for a frame without one object: std::nullopt.       *)
NoName == "no name"

ASSUME YoloAssumption ==
  /\ {ConfirmFrames, WarmupFrames} \subseteq Nat \ {0}
  /\ {NoName, "nothing", "several"} \cap ClassNames = {}

VARIABLES
  main, loader, grab, infer, sample,   (* where each thread stands           *)
  g_stopping,
  server_stopping,                     (* HttpServer::stopping_              *)
  cap_mutex,                           (* "free" or "inferer"                *)
  unseen,                              (* raw_frame_gen # last_gen           *)
  cap_count,                           (* up to WarmupFrames                 *)
  streak,                              (* the inferer's deque                *)
  target,                              (* SharedState.target                 *)
  alike                                (* history: inferences in a row that  *)
                                       (* saw one object, of the same class  *)

detection == <<streak, target, alike>>
frames    == <<unseen, cap_count>>
flags     == <<g_stopping, server_stopping>>
vars == <<main, loader, grab, infer, sample, flags, cap_mutex, frames, detection>>

Over  == main \in {"done", "failed", "aborted"}
Alive == ~Over

(* cap_cv.notify_all(): a sleeping inferer goes for the mutex again. *)
Notified == IF infer = "waiting" THEN "relock" ELSE infer

(***************************************************************************)
(* Signal handler and model loader.                                        *)
(***************************************************************************)
(* g_server_for_signal is set once the server is constructed. *)
HasServer == main \in {"serving", "joining", "done"}

Signal ==
  /\ Alive
  /\ g_stopping' = TRUE
  /\ server_stopping' = (server_stopping \/ HasServer)
  /\ UNCHANGED <<main, loader, grab, infer, sample, cap_mutex, frames, detection>>

LoadModel ==
  /\ Alive
  /\ loader = "loading"
  /\ loader' \in {"loaded", "threw"}
  /\ UNCHANGED <<main, grab, infer, sample, flags, cap_mutex, frames, detection>>

(***************************************************************************)
(* grabber().                                                              *)
(***************************************************************************)
GrabStep == Alive /\ UNCHANGED <<main, loader, sample, server_stopping,
                                 g_stopping, cap_mutex, detection>>

(* Mutation of OuterLoopEnds: while (true), the test left to the inner loop. *)
InnerLoopEnds == grab = "check" /\ g_stopping

(* A test of g_stopping: at the head of either loop. *)
OuterLoopEnds == grab \in {"open", "check"} /\ g_stopping

GrabEnd ==
  /\ GrabStep
  /\ OuterLoopEnds
  /\ grab' = "ended"
  /\ UNCHANGED <<infer, frames>>

(* The camera is opened, or the next try is in 3 s. *)
GrabOpen ==
  /\ GrabStep
  /\ grab = "open" /\ ~OuterLoopEnds
  /\ grab' \in {"check", "sleep"}
  /\ UNCHANGED <<infer, frames>>

GrabWake ==
  /\ GrabStep
  /\ grab = "sleep"
  /\ grab' = "open"
  /\ UNCHANGED <<infer, frames>>

GrabCheck ==
  /\ GrabStep
  /\ grab = "check" /\ ~g_stopping
  /\ grab' = "read"
  /\ UNCHANGED <<infer, frames>>

(* cap.read() yields a frame, or fails and the camera is released. *)
GrabRead ==
  /\ GrabStep
  /\ grab = "read"
  /\ \/ grab' = "post"
     \/ grab' = IF g_stopping THEN "ended" ELSE "sleep"
  /\ UNCHANGED <<infer, frames>>

(* Mutation of MayPost: the frame is stored without the mutex. *)
PostUnlocked == TRUE

MayPost == cap_mutex = "free"

GrabPost ==
  /\ GrabStep
  /\ grab = "post"
  /\ MayPost
  /\ unseen' = TRUE
  /\ cap_count' = IF cap_count < WarmupFrames THEN cap_count + 1 ELSE cap_count
  /\ grab' = "notify"
  /\ UNCHANGED infer

GrabNotify ==
  /\ GrabStep
  /\ grab = "notify"
  /\ infer' = Notified
  /\ grab' = "check"
  /\ UNCHANGED frames

Grabber == GrabEnd \/ GrabOpen \/ GrabWake \/ GrabCheck \/ GrabRead
           \/ GrabPost \/ GrabNotify

(***************************************************************************)
(* inferer().                                                              *)
(***************************************************************************)
InferStep == Alive /\ UNCHANGED <<loader, grab, sample, flags, cap_count>>

InferLoop ==
  /\ InferStep
  /\ infer = "loop"
  /\ infer' = IF g_stopping THEN "ended" ELSE "relock"
  /\ UNCHANGED <<main, cap_mutex, unseen, detection>>

(* With the mutex taken, the predicate of cap_cv.wait() is evaluated: if it *)
(* holds the frame is taken (or the thread ends) and the mutex released.    *)
InferTake ==
  /\ InferStep
  /\ infer = "relock"
  /\ cap_mutex = "free"
  /\ \/ /\ g_stopping
        /\ infer' = "ended"
        /\ UNCHANGED <<cap_mutex, unseen>>
     \/ /\ ~g_stopping /\ unseen
        /\ infer' = "detect"
        /\ unseen' = FALSE
        /\ UNCHANGED cap_mutex
     \/ /\ ~g_stopping /\ ~unseen
        /\ infer' = "blocking"
        /\ cap_mutex' = "inferer"
        /\ UNCHANGED unseen
  /\ UNCHANGED <<main, detection>>

InferSleep ==
  /\ InferStep
  /\ infer = "blocking"
  /\ infer' = "waiting"
  /\ cap_mutex' = "free"
  /\ UNCHANGED <<main, unseen, detection>>

(* A wait may end without a notification. *)
SpuriousWakeup ==
  /\ InferStep
  /\ infer = "waiting"
  /\ infer' = "relock"
  /\ UNCHANGED <<main, cap_mutex, unseen, detection>>

(* What a frame shows: nothing, one object, or several. *)
Sight == {"nothing", "several"} \cup ClassNames

Push(dq, x) ==
  IF Len(dq) < ConfirmFrames THEN Append(dq, x) ELSE Append(Tail(dq), x)

(* Mutations of StreakAfter: the deque is not trimmed; several objects do   *)
(* not break the streak.                                                    *)
StreakUntrimmed(s) == Append(streak, IF s \in ClassNames THEN s ELSE NoName)
StreakOverSeveral(s) ==
  IF s = "several" THEN streak
  ELSE Push(streak, IF s \in ClassNames THEN s ELSE NoName)

StreakAfter(s) == Push(streak, IF s \in ClassNames THEN s ELSE NoName)

Confirmed(s, dq) ==
  /\ s \in ClassNames
  /\ Len(dq) = ConfirmFrames
  /\ \A i \in DOMAIN dq : dq[i] = s

Detect(s) ==
  /\ InferStep
  /\ infer = "detect"
  /\ streak' = StreakAfter(s)
  /\ target' = [sight |-> s, confirmed |-> Confirmed(s, streak')]
  /\ alike' = IF s \notin ClassNames THEN 0
              ELSE IF s # target.sight THEN 1
              ELSE IF alike < ConfirmFrames THEN alike + 1 ELSE alike
  /\ infer' = "loop"
  /\ UNCHANGED <<main, cap_mutex, unseen>>

(* An exception of the inference leaves the thread: std::terminate(). *)
InferThrows ==
  /\ InferStep
  /\ infer = "detect"
  /\ main' = "aborted"
  /\ UNCHANGED <<infer, cap_mutex, unseen, detection>>

Inferer == InferLoop \/ InferTake \/ InferSleep \/ \E s \in Sight : Detect(s)

(***************************************************************************)
(* sampler(): what it records is outside this module.                      *)
(***************************************************************************)
Sampler ==
  /\ Alive
  /\ \/ sample = "loop" /\ sample' = IF g_stopping THEN "ended" ELSE "sleep"
     \/ sample = "sleep" /\ sample' = "loop"
  /\ UNCHANGED <<main, loader, grab, infer, flags, cap_mutex, frames, detection>>

(***************************************************************************)
(* run().                                                                  *)
(***************************************************************************)
MainStep == UNCHANGED <<loader, grab, server_stopping, cap_mutex, frames, detection>>

(* Mutation of GiveUp: the threads are joined but not told to stop. *)
GiveUpQuietly == main' = "giveup" /\ UNCHANGED <<g_stopping, infer, sample>>

GiveUp ==
  /\ main' = "giveup"
  /\ g_stopping' = TRUE
  /\ infer' = Notified
  /\ UNCHANGED sample

(* The warm-up ends with WarmupFrames frames, or after 12 s, by when there  *)
(* must be one at least.                                                    *)
WarmedUp ==
  /\ main = "warmup"
  /\ cap_count > 0
  /\ main' = "model"
  /\ UNCHANGED <<g_stopping, infer, sample>>
  /\ MainStep

NoCamera ==
  /\ main = "warmup"
  /\ cap_count = 0
  /\ GiveUp
  /\ MainStep

ModelTimeout ==
  /\ main = "model"
  /\ loader = "loading"
  /\ GiveUp
  /\ MainStep

(* An exception that leaves run() while threads are joinable: their         *)
(* destructors call std::terminate().  The loader's comes out of get(), the *)
(* server's out of its constructor.                                         *)
MainThrows ==
  /\ (main = "model" /\ loader = "threw") \/ main = "binding"
  /\ main' = "aborted"
  /\ UNCHANGED <<g_stopping, infer, sample>>
  /\ MainStep

StartThreads ==
  /\ main = "model"
  /\ loader = "loaded"
  /\ main' = "binding"
  /\ infer' = "loop"
  /\ sample' = "loop"
  /\ UNCHANGED g_stopping
  /\ MainStep

StartServer ==
  /\ main = "binding"
  /\ main' = "serving"
  /\ UNCHANGED <<g_stopping, infer, sample>>
  /\ MainStep

(* serve_forever() has returned: cap_cv is notified without its mutex. *)
ServerStopped ==
  /\ main = "serving"
  /\ server_stopping
  /\ main' = "joining"
  /\ g_stopping' = TRUE
  /\ infer' = Notified
  /\ UNCHANGED sample
  /\ MainStep

JoinAll ==
  /\ main = "joining"
  /\ grab = "ended" /\ infer = "ended" /\ sample = "ended"
  /\ main' = "done"
  /\ UNCHANGED <<g_stopping, infer, sample>>
  /\ MainStep

JoinAfterGivingUp ==
  /\ main = "giveup"
  /\ grab = "ended" /\ loader # "loading"
  /\ main' = "failed"
  /\ UNCHANGED <<g_stopping, infer, sample>>
  /\ MainStep

Main == WarmedUp \/ NoCamera \/ ModelTimeout \/ MainThrows \/ StartThreads
        \/ StartServer \/ ServerStopped \/ JoinAll \/ JoinAfterGivingUp

(***************************************************************************)
Init ==
  /\ main = "warmup" /\ loader = "loading" /\ grab = "open"
  /\ infer = "new" /\ sample = "new"
  /\ g_stopping = FALSE /\ server_stopping = FALSE
  /\ cap_mutex = "free"
  /\ unseen = FALSE /\ cap_count = 0
  /\ streak = <<>>
  /\ target = [sight |-> "nothing", confirmed |-> FALSE]
  /\ alike = 0

Next == Signal \/ LoadModel \/ Grabber \/ Inferer \/ SpuriousWakeup
        \/ InferThrows \/ Sampler \/ Main

Spec == Init /\ [][Next]_vars

(* Every thread that can run does, a blocking call of the camera returns,   *)
(* the model is loaded at some time, and a thread that keeps finding the    *)
(* mutex free gets it.                                                      *)
FairSpec ==
  /\ Spec
  /\ WF_vars(LoadModel) /\ WF_vars(Main) /\ WF_vars(Sampler)
  /\ SF_vars(Grabber) /\ SF_vars(Inferer)

-----------------------------------------------------------------------------
(* Every variable holds a value of its kind, and cap_mutex is held between  *)
(* two steps by an inferer that is about to sleep and by nobody else.       *)
TypeOK ==
  /\ main \in {"warmup", "model", "binding", "serving", "joining", "giveup",
               "done", "failed", "aborted"}
  /\ loader \in {"loading", "loaded", "threw"}
  /\ grab \in {"open", "sleep", "check", "read", "post", "notify", "ended"}
  /\ infer \in {"new", "loop", "relock", "blocking", "waiting", "detect", "ended"}
  /\ sample \in {"new", "loop", "sleep", "ended"}
  /\ g_stopping \in BOOLEAN /\ server_stopping \in BOOLEAN
  /\ cap_mutex = IF infer = "blocking" THEN "inferer" ELSE "free"
  /\ unseen \in BOOLEAN
  /\ cap_count \in 0..WarmupFrames
  /\ streak \in Seq(ClassNames \cup {NoName}) /\ Len(streak) <= ConfirmFrames
  /\ target \in [sight : Sight, confirmed : BOOLEAN]
  /\ alike \in 0..ConfirmFrames

(* The deque of the last names confirms a target exactly when the last      *)
(* TARGET_CONFIRM_FRAMES inferences each saw that one object and no other.  *)
ConfirmedIsSteady == target.confirmed <=> alike = ConfirmFrames

(* No wakeup is lost between the camera and the inference: a frame that is  *)
(* posted is inferred, or overtaken by a newer one that is, even when the   *)
(* camera delivers nothing more.                                            *)
EveryFrameSeen ==
  unseen /\ infer # "new" ~> ~unseen \/ g_stopping \/ Over

(* Whoever stops the program, the camera and the sampler are let go.        *)
StopReachesThreads ==
  g_stopping ~> Over \/ (grab = "ended" /\ sample \in {"new", "ended"})

(* A start-up that gives up (no camera, or no model in time) ends.          *)
GivingUpEnds == main = "giveup" ~> Over

-----------------------------------------------------------------------------
(* yolo_live.cpp prints "ctrl-c to quit." when it begins to serve. *)
CtrlCQuits == main = "serving" /\ server_stopping ~> Over
=============================================================================
