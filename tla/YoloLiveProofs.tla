--------------------------- MODULE YoloLiveProofs ---------------------------
(***************************************************************************)
(* Proofs about the confirmation of a target in YoloLive, for every set of *)
(* classes and every TARGET_CONFIRM_FRAMES.                                *)
(***************************************************************************)
EXTENDS YoloLive, TLAPS

Name == ClassNames \cup {NoName}

(* The deque ends with as many names of the target in sight as there were   *)
(* inferences in a row that saw it; what is before them is another name.    *)
EndsAlike(dq, n, s) ==
  /\ n \in 0..Len(dq)
  /\ \A i \in Len(dq) - n + 1..Len(dq) : dq[i] = s
  /\ n \in 1..Len(dq) - 1 => dq[Len(dq) - n] # s

StreakInv ==
  /\ streak \in Seq(Name) /\ Len(streak) <= ConfirmFrames
  /\ alike \in Nat
  /\ alike = 0 <=> target.sight \notin ClassNames
  /\ IF alike = 0 THEN streak # <<>> => streak[Len(streak)] = NoName
                  ELSE EndsAlike(streak, alike, target.sight)
  /\ target.confirmed <=> alike = ConfirmFrames

-----------------------------------------------------------------------------
(* There is at least one frame to confirm, and no name is not a name.       *)
LEMMA Parameters ==
  /\ ConfirmFrames \in Nat \ {0}
  /\ NoName \notin ClassNames /\ "nothing" \notin ClassNames
  BY YoloAssumption

(* push_capped(): the new name is last, the others keep their order, and    *)
(* the oldest is dropped from a full deque.                                 *)
LEMMA PushProperties ==
  ASSUME NEW dq \in Seq(Name), Len(dq) <= ConfirmFrames, NEW x \in Name
  PROVE  /\ Push(dq, x) \in Seq(Name)
         /\ Len(Push(dq, x)) = IF Len(dq) < ConfirmFrames THEN Len(dq) + 1
                               ELSE ConfirmFrames
         /\ Push(dq, x)[Len(Push(dq, x))] = x
         /\ \A i \in 1..Len(Push(dq, x)) - 1 :
              Push(dq, x)[i] = dq[i + Len(dq) + 1 - Len(Push(dq, x))]
<1> USE Parameters
<1>1. Len(dq) \in Nat
  OBVIOUS
<1>2. CASE Len(dq) < ConfirmFrames
  <2>1. Push(dq, x) = Append(dq, x)
    BY <1>2 DEF Push
  <2> QED
    BY <1>1, <1>2, <2>1
<1>3. CASE Len(dq) = ConfirmFrames
  <2>1. Push(dq, x) = Append(Tail(dq), x)
    BY <1>3 DEF Push
  <2>2. /\ Tail(dq) \in Seq(Name) /\ Len(Tail(dq)) = Len(dq) - 1
        /\ \A i \in 1..Len(dq) - 1 : Tail(dq)[i] = dq[i + 1]
    BY <1>1, <1>3
  <2>3. /\ Append(Tail(dq), x) \in Seq(Name)
        /\ Len(Append(Tail(dq), x)) = ConfirmFrames
        /\ Append(Tail(dq), x)[ConfirmFrames] = x
        /\ \A i \in 1..ConfirmFrames - 1 : Append(Tail(dq), x)[i] = Tail(dq)[i]
    BY <1>3, <2>2
  <2>4. Len(Push(dq, x)) = ConfirmFrames
    BY <2>1, <2>3
  <2> QED
    BY <1>3, <2>1, <2>2, <2>3, <2>4
<1> QED
  BY <1>1, <1>2, <1>3

(* One more of the same makes the end of the deque longer by one, up to the *)
(* length of the deque.                                                     *)
LEMMA OneMoreAlike ==
  ASSUME NEW dq \in Seq(Name), Len(dq) <= ConfirmFrames, NEW s \in ClassNames,
         NEW n \in Nat \ {0}, EndsAlike(dq, n, s)
  PROVE  EndsAlike(Push(dq, s), IF n < ConfirmFrames THEN n + 1 ELSE n, s)
<1> USE Parameters
<1> DEFINE more == Push(dq, s)
           m == IF n < ConfirmFrames THEN n + 1 ELSE n
<1>1. s \in Name /\ Len(dq) \in Nat
  BY DEF Name
<1>2. /\ Len(more) = IF Len(dq) < ConfirmFrames THEN Len(dq) + 1 ELSE ConfirmFrames
      /\ more[Len(more)] = s
      /\ \A i \in 1..Len(more) - 1 : more[i] = dq[i + Len(dq) + 1 - Len(more)]
  BY <1>1, PushProperties
<1> HIDE DEF more
<1>3. n \in 1..Len(dq) /\ Len(dq) <= ConfirmFrames
  BY DEF EndsAlike
<1>4. m \in 1..Len(more) /\ Len(more) \in Nat
  BY <1>1, <1>2, <1>3
<1>5. ASSUME NEW i \in Len(more) - m + 1..Len(more) PROVE more[i] = s
  <2>1. CASE i = Len(more)
    BY <1>2, <2>1
  <2>2. CASE i # Len(more)
    <3>1. i \in 1..Len(more) - 1
      BY <1>4, <2>2
    <3>2. CASE Len(dq) < ConfirmFrames
      <4>1. Len(more) = Len(dq) + 1 /\ m = n + 1
        BY <1>1, <1>2, <1>3, <3>2
      <4>2. i \in Len(dq) - n + 1..Len(dq)
        BY <1>1, <1>3, <3>1, <4>1
      <4>3. more[i] = dq[i + Len(dq) + 1 - Len(more)]
        BY <1>2, <3>1
      <4>4. i + Len(dq) + 1 - Len(more) = i
        BY <1>1, <4>1, <4>2
      <4> QED
        BY <4>2, <4>3, <4>4 DEF EndsAlike
    <3>3. CASE Len(dq) = ConfirmFrames
      <4>1. Len(more) = Len(dq) /\ more[i] = dq[i + 1]
        BY <1>1, <1>2, <3>1, <3>3
      <4>2. i + 1 \in Len(dq) - n + 1..Len(dq)
        BY <1>1, <1>3, <3>1, <3>3, <4>1
      <4> QED
        BY <4>1, <4>2 DEF EndsAlike
    <3> QED
      BY <1>1, <1>3, <3>2, <3>3
  <2> QED
    BY <2>1, <2>2
<1>6. ASSUME m \in 1..Len(more) - 1 PROVE more[Len(more) - m] # s
  <2>1. m = n + 1 /\ n \in 1..Len(dq) - 1
    BY <1>1, <1>2, <1>3, <1>6
  <2>2. more[Len(more) - m] = dq[Len(dq) - n]
    <3>1. Len(more) - m \in 1..Len(more) - 1
      BY <1>4, <1>6
    <3>2. more[Len(more) - m] = dq[Len(more) - m + Len(dq) + 1 - Len(more)]
      BY <1>2, <3>1
    <3>3. Len(more) - m + Len(dq) + 1 - Len(more) = Len(dq) - n
      BY <1>1, <1>4, <2>1
    <3> QED
      BY <3>2, <3>3
  <2> QED
    BY <2>1, <2>2 DEF EndsAlike
<1> QED
  BY <1>4, <1>5, <1>6 DEF EndsAlike, more

(* Another name begins a new row: it is alone at the end.                   *)
LEMMA FirstAlike ==
  ASSUME NEW dq \in Seq(Name), Len(dq) <= ConfirmFrames, NEW s \in ClassNames,
         dq # <<>> => dq[Len(dq)] # s
  PROVE  EndsAlike(Push(dq, s), 1, s)
<1> USE Parameters
<1> DEFINE more == Push(dq, s)
<1>1. s \in Name /\ Len(dq) \in Nat /\ (dq # <<>> <=> Len(dq) # 0)
  BY DEF Name
<1>2. /\ Len(more) = IF Len(dq) < ConfirmFrames THEN Len(dq) + 1 ELSE ConfirmFrames
      /\ more[Len(more)] = s
      /\ \A i \in 1..Len(more) - 1 : more[i] = dq[i + Len(dq) + 1 - Len(more)]
  BY <1>1, PushProperties
<1> HIDE DEF more
<1>3. ASSUME 1 \in 1..Len(more) - 1 PROVE more[Len(more) - 1] # s
  <2>1. Len(more) - 1 \in 1..Len(more) - 1 /\ dq # <<>>
    BY <1>1, <1>2, <1>3
  <2>2. more[Len(more) - 1] = dq[Len(more) - 1 + Len(dq) + 1 - Len(more)]
    BY <1>2, <2>1
  <2>3. Len(more) - 1 + Len(dq) + 1 - Len(more) = Len(dq)
    BY <1>1, <1>2
  <2> QED
    BY <2>1, <2>2, <2>3
<1>4. Len(more) \in Nat \ {0}
  BY <1>1, <1>2
<1> QED
  BY <1>2, <1>3, <1>4 DEF EndsAlike, more

(* A deque is full of one name exactly when its end of that name is as long *)
(* as it may be.                                                            *)
LEMMA FullIsConfirmed ==
  ASSUME NEW dq \in Seq(Name), Len(dq) <= ConfirmFrames, NEW s \in ClassNames,
         NEW n \in Nat \ {0}, EndsAlike(dq, n, s)
  PROVE  Confirmed(s, dq) <=> n = ConfirmFrames
<1> USE Parameters
<1>1. Len(dq) \in Nat /\ DOMAIN dq = 1..Len(dq) /\ n \in 1..Len(dq)
      /\ Len(dq) <= ConfirmFrames
  BY DEF EndsAlike
<1>2. ASSUME n = ConfirmFrames PROVE Confirmed(s, dq)
  <2>1. Len(dq) = ConfirmFrames
    <3>1. n \in Nat /\ n <= Len(dq) /\ Len(dq) <= n /\ Len(dq) \in Nat
      BY <1>1, <1>2
    <3>2. \A k, l \in Nat : k <= l /\ l <= k => k = l
      OBVIOUS
    <3> QED
      BY <1>2, <3>1, <3>2
  <2>2. \A i \in 1..Len(dq) : dq[i] = s
    BY <1>1, <1>2, <2>1 DEF EndsAlike
  <2> QED
    BY <1>1, <2>1, <2>2 DEF Confirmed
<1>3. ASSUME Confirmed(s, dq), n # ConfirmFrames PROVE FALSE
  <2>1. Len(dq) = ConfirmFrames /\ \A i \in 1..Len(dq) : dq[i] = s
    BY <1>1, <1>3 DEF Confirmed
  <2>2. n \in 1..Len(dq) - 1 /\ Len(dq) - n \in 1..Len(dq)
    BY <1>1, <1>3, <2>1
  <2> QED
    BY <2>1, <2>2 DEF EndsAlike
<1> QED
  BY <1>2, <1>3

-----------------------------------------------------------------------------
(* An inference keeps the count and the deque in step.                      *)
LEMMA DetectStep ==
  ASSUME StreakInv, NEW s \in Sight, Detect(s) PROVE StreakInv'
<1> USE Parameters DEF StreakInv
<1> DEFINE name == IF s \in ClassNames THEN s ELSE NoName
<1>1. /\ streak' = Push(streak, name)
      /\ target' = [sight |-> s, confirmed |-> Confirmed(s, streak')]
      /\ alike' = IF s \notin ClassNames THEN 0
                  ELSE IF s # target.sight THEN 1
                  ELSE IF alike < ConfirmFrames THEN alike + 1 ELSE alike
  BY DEF Detect, StreakAfter
<1>2. target'.sight = s /\ target'.confirmed = Confirmed(s, streak')
  BY <1>1
<1>3. name \in Name
  BY DEF Name
<1>4. /\ streak' \in Seq(Name) /\ Len(streak') <= ConfirmFrames
      /\ streak'[Len(streak')] = name
  <2>1. /\ Push(streak, name) \in Seq(Name)
        /\ Len(Push(streak, name)) = IF Len(streak) < ConfirmFrames
                                     THEN Len(streak) + 1 ELSE ConfirmFrames
        /\ Push(streak, name)[Len(Push(streak, name))] = name
    BY <1>3, PushProperties
  <2> QED
    BY <1>1, <2>1
<1>5. CASE s \notin ClassNames
  <2>1. alike' = 0 /\ name = NoName
    BY <1>1, <1>5
  <2>2. ~target'.confirmed
    BY <1>2, <1>5 DEF Confirmed
  <2> QED
    BY <1>2, <1>4, <1>5, <2>1, <2>2
<1>6. CASE s \in ClassNames
  <2>1. alike' \in Nat \ {0} /\ EndsAlike(streak', alike', s)
    <3>1. name = s
      BY <1>6
    <3>2. CASE s = target.sight
      <4>1. alike # 0 /\ EndsAlike(streak, alike, s)
        BY <1>6, <3>2
      <4>2. EndsAlike(Push(streak, s),
                      IF alike < ConfirmFrames THEN alike + 1 ELSE alike, s)
        BY <1>6, <4>1, OneMoreAlike
      <4>3. alike' = IF alike < ConfirmFrames THEN alike + 1 ELSE alike
        BY <1>1, <1>6, <3>2
      <4> QED
        BY <1>1, <3>1, <4>1, <4>2, <4>3
    <3>3. CASE s # target.sight
      <4>1. streak # <<>> => streak[Len(streak)] # s
        <5>1. CASE alike = 0
          BY <1>6, <5>1
        <5>2. CASE alike # 0
          <6>1. alike \in 1..Len(streak) /\ Len(streak) \in Nat
            BY <5>2 DEF EndsAlike
          <6>2. streak[Len(streak)] = target.sight
            BY <5>2, <6>1 DEF EndsAlike
          <6> QED
            BY <3>3, <6>2
        <5> QED
          BY <5>1, <5>2
      <4>2. EndsAlike(Push(streak, s), 1, s)
        BY <1>6, <4>1, FirstAlike
      <4> QED
        BY <1>1, <1>6, <3>1, <3>3, <4>2
    <3> QED
      BY <3>2, <3>3
  <2>2. Confirmed(s, streak') <=> alike' = ConfirmFrames
    BY <1>4, <1>6, <2>1, FullIsConfirmed
  <2> QED
    BY <1>2, <1>4, <1>6, <2>1, <2>2
<1> QED
  BY <1>5, <1>6

(* However long the streak has to be, a target is confirmed by that many    *)
(* inferences in a row which saw it, and by nothing less.                   *)
THEOREM ConfirmedMeansSteady == Spec => []ConfirmedIsSteady
<1>1. Init => StreakInv
  <2> SUFFICES ASSUME Init PROVE StreakInv
    OBVIOUS
  <2>1. /\ streak = <<>> /\ alike = 0
        /\ target.sight = "nothing" /\ target.confirmed = FALSE
    BY DEF Init
  <2>2. streak \in Seq(Name) /\ Len(streak) = 0
    BY <2>1
  <2> QED
    BY <2>1, <2>2, Parameters DEF StreakInv
<1>2. ASSUME StreakInv, [Next]_vars PROVE StreakInv'
  <2>1. CASE \E s \in Sight : Detect(s)
    BY <1>2, <2>1, DetectStep
  <2>2. CASE UNCHANGED detection
    BY <1>2, <2>2 DEF StreakInv, detection
  <2> QED
    BY <1>2, <2>1, <2>2
    DEF Next, Signal, LoadModel, Grabber, GrabEnd, GrabOpen, GrabWake, GrabCheck,
        GrabRead, GrabPost, GrabNotify, GrabStep, Inferer, InferLoop, InferTake,
        InferSleep, SpuriousWakeup, InferThrows, Sampler, Main, MainStep,
        WarmedUp, NoCamera, ModelTimeout, MainThrows, StartThreads, StartServer,
        ServerStopped, JoinAll, JoinAfterGivingUp, vars
<1>3. StreakInv => ConfirmedIsSteady
  BY DEF StreakInv, ConfirmedIsSteady
<1> QED
  BY <1>1, <1>2, <1>3, PTL DEF Spec

-----------------------------------------------------------------------------
(* The inferer is not started before the model is there.                    *)
NotStarted == main \in {"warmup", "model"} => infer = "new"

(* Every variable holds a value of its kind, and nobody but an inferer that *)
(* is about to sleep keeps cap_mutex.                                       *)
THEOREM TypeCorrect == Spec => []TypeOK
<1> USE Parameters
<1>1. Init => TypeOK /\ NotStarted
  <2> SUFFICES ASSUME Init PROVE TypeOK /\ NotStarted
    OBVIOUS
  <2>1. streak \in Seq(ClassNames \cup {NoName}) /\ Len(streak) <= ConfirmFrames
    BY DEF Init
  <2>2. target \in [sight : Sight, confirmed : BOOLEAN]
    BY DEF Init, Sight
  <2>3. cap_count \in 0..WarmupFrames /\ alike \in 0..ConfirmFrames
    BY YoloAssumption DEF Init
  <2> QED
    BY <2>1, <2>2, <2>3 DEF Init, TypeOK, NotStarted
<1>2. ASSUME TypeOK, NotStarted, [Next]_vars PROVE TypeOK' /\ NotStarted'
  <2> USE <1>2 DEF TypeOK, NotStarted
  <2>1. CASE Signal
    BY <2>1 DEF Signal, HasServer, frames, detection
  <2>7. CASE LoadModel
    BY <2>7 DEF LoadModel, frames, detection, flags
  <2>8. CASE Sampler
    BY <2>8 DEF Sampler, frames, detection, flags
  <2>2. CASE Grabber
    <3>1. /\ UNCHANGED <<main, loader, sample, flags, cap_mutex, detection>>
          /\ infer' = Notified \/ infer' = infer
          /\ grab' \in {"open", "sleep", "check", "read", "post", "notify", "ended"}
          /\ unseen' \in BOOLEAN
      BY <2>2 DEF Grabber, GrabEnd, GrabOpen, GrabWake, GrabCheck, GrabRead,
         GrabPost, GrabNotify, GrabStep, frames, flags
    <3>2. cap_count' \in 0..WarmupFrames
      BY <2>2, YoloAssumption
      DEF Grabber, GrabEnd, GrabOpen, GrabWake, GrabCheck, GrabRead,
          GrabPost, GrabNotify, frames
    <3> QED
      BY <3>1, <3>2 DEF Notified, detection, flags
  <2>3. CASE InferLoop \/ InferTake \/ InferSleep \/ SpuriousWakeup \/ InferThrows
    <3>1. /\ UNCHANGED <<loader, grab, sample, flags, cap_count, detection>>
          /\ main' \in {main, "aborted"} /\ infer # "new"
          /\ unseen' = unseen \/ unseen' = FALSE
      BY <2>3 DEF InferLoop, InferTake, InferSleep, SpuriousWakeup, InferThrows,
         InferStep
    <3>2. /\ infer' \in {"loop", "relock", "blocking", "waiting", "detect", "ended"}
          /\ cap_mutex' = IF infer' = "blocking" THEN "inferer" ELSE "free"
      BY <2>3 DEF InferLoop, InferTake, InferSleep, SpuriousWakeup, InferThrows,
         InferStep, flags
    <3>3. /\ unseen' \in BOOLEAN
          /\ g_stopping' \in BOOLEAN /\ server_stopping' \in BOOLEAN
      BY <3>1 DEF flags
    <3>4. NotStarted'
      BY <3>1
    <3> QED
      BY <3>1, <3>2, <3>3, <3>4 DEF detection
  <2>4. ASSUME NEW s \in Sight, Detect(s) PROVE TypeOK' /\ NotStarted'
    <3>1. /\ UNCHANGED <<main, loader, grab, sample, flags, cap_mutex, frames>>
          /\ infer = "detect" /\ infer' = "loop"
      BY <2>4 DEF Detect, InferStep, frames
    <3>2. streak' \in Seq(Name) /\ Len(streak') <= ConfirmFrames
      <4>1. PICK x \in Name : streak' = Push(streak, x)
        BY <2>4 DEF Detect, StreakAfter, Name
      <4>2. streak \in Seq(Name) /\ Len(streak) <= ConfirmFrames
        BY DEF Name
      <4>3. /\ Push(streak, x) \in Seq(Name)
            /\ Len(Push(streak, x)) = IF Len(streak) < ConfirmFrames
                                      THEN Len(streak) + 1 ELSE ConfirmFrames
        BY <4>2, PushProperties
      <4>4. Len(streak) \in Nat
        BY <4>2
      <4> QED
        BY <4>1, <4>3, <4>4
    <3>3. target' \in [sight : Sight, confirmed : BOOLEAN]
      <4>1. target' = [sight |-> s, confirmed |-> Confirmed(s, streak')]
        BY <2>4 DEF Detect
      <4>2. Confirmed(s, streak') \in BOOLEAN
        BY DEF Confirmed
      <4> QED
        BY <4>1, <4>2
    <3>4. alike' \in 0..ConfirmFrames
      BY <2>4 DEF Detect
    <3> QED
      BY <3>1, <3>2, <3>3, <3>4 DEF Name, frames, flags
  <2>5. CASE Main
    <3>1. /\ UNCHANGED <<loader, grab, server_stopping, cap_mutex, frames, detection>>
          /\ g_stopping' \in BOOLEAN
          /\ main' \in {"warmup", "model", "binding", "serving", "joining", "giveup",
                        "done", "failed", "aborted"}
      BY <2>5 DEF Main, WarmedUp, NoCamera, ModelTimeout, MainThrows, StartThreads,
         StartServer, ServerStopped, JoinAll, JoinAfterGivingUp, GiveUp, MainStep
    <3>2. \/ UNCHANGED <<infer, sample>>
          \/ infer' = Notified /\ UNCHANGED sample
          \/ main = "model" /\ infer' = "loop" /\ sample' = "loop"
      BY <2>5 DEF Main, WarmedUp, NoCamera, ModelTimeout, MainThrows, StartThreads,
         StartServer, ServerStopped, JoinAll, JoinAfterGivingUp, GiveUp, MainStep
    <3>3. NotStarted'
      BY <2>5 DEF Main, WarmedUp, NoCamera, ModelTimeout, MainThrows, StartThreads,
         StartServer, ServerStopped, JoinAll, JoinAfterGivingUp, GiveUp, MainStep
    <3> QED
      BY <3>1, <3>2, <3>3 DEF Notified, frames, detection
  <2>6. CASE UNCHANGED vars
    BY <2>6 DEF vars, frames, detection, flags
  <2> QED
    BY <1>2, <2>1, <2>2, <2>3, <2>4, <2>5, <2>6, <2>7, <2>8 DEF Next, Inferer
<1> QED
  BY <1>1, <1>2, PTL DEF Spec
============================================================================
