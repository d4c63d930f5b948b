----------------------------- MODULE YoloFiles -----------------------------
(***************************************************************************)
(* What yolo_live leaves on the disk: the reports of the recordings and    *)
(* the engine cached by YoloTrt.  The two share no state: the sampler and  *)
(* the handlers work on RecState, the loader and the inferer on the        *)
(* engine.  A behaviour follows one of them, and the other stands still.   *)
(***************************************************************************)
EXTENDS Recording, TrtEngine

VARIABLE followed     (* "recordings" or "engine"                            *)

FilesInit == Init /\ EngineInit /\ followed \in {"recordings", "engine"}

RecordingStep(A) ==
  followed = "recordings" /\ A /\ UNCHANGED <<engineVars, followed>>
EngineStep(A) == followed = "engine" /\ A /\ UNCHANGED <<vars, followed>>

FilesNext == RecordingStep(Next) \/ EngineStep(EngineNext)

(* The fairness of Recording: its sampler runs, run() comes to its joins,    *)
(* which need not return, and time passes.                                   *)
FilesSpec ==
  /\ FilesInit /\ [][FilesNext]_<<vars, engineVars, followed>>
  /\ WF_vars(RecordingStep(Sampler))
  /\ WF_vars(RecordingStep(SaveAtEnd))
  /\ WF_vars(RecordingStep(Tick))
============================================================================
