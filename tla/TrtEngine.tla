----------------------------- MODULE TrtEngine -----------------------------
(***************************************************************************)
(* YoloTrt of YOLO_MODEL/cpp/trt_engine.cpp over the starts of yolo_live:  *)
(* build_or_load() takes the engine from the cache file when that is not   *)
(* older than the onnx model, and builds and caches it otherwise; infer()  *)
(* detects with it.                                                        *)
(*                                                                         *)
(* The process may be killed anywhere, the model may be replaced at any    *)
(* time, the disk may be full.  Time stamps of files are whole seconds.    *)
(***************************************************************************)
EXTENDS Detector

CONSTANTS
  Models,      (* contents of the onnx file                                  *)
  Unreadable,  (* models the parser or the builder refuses                   *)
  Unfit,       (* models with bindings the program has no use for            *)
  Frames,      (* sizes of camera frames, records [w, h]                     *)
  RowSets,     (* what the network may make of a frame                       *)
  MaxClock     (* bound on time                                              *)

NoFile == "no file"
Torn   == "torn"
None   == "none"

ASSUME TrtAssumption ==
  /\ {NoFile, Torn, None} \cap Models = {}
  /\ Unreadable \subseteq Models /\ Unfit \subseteq Models
  /\ Frames \subseteq [w : Nat \ {0}, h : Nat \ {0}]
  /\ \A rows \in RowSets : IsFiniteSet(rows) /\ rows \subseteq NetworkRow
  /\ MaxClock \in Nat

VARIABLES
  onnx,      (* the onnx file: model and time stamp                          *)
  cache,     (* the engine file: engine and time stamp                       *)
  clock,
  pc,        (* "down", "check", "load", "parse", "build", "write", ...  *)
  engine,    (* impl_->engine: the model it was made from, or None           *)
  result,    (* of the last infer(): frame, candidates, boxes kept and found *)
  replaced,  (* history: the onnx file was replaced since the start          *)
  hidden,    (* history: a replacement the time stamps do not show           *)
  cached     (* history: the engine of the present onnx file was cached      *)

files == <<onnx, cache>>
history == <<replaced, hidden, cached>>
engineVars == <<files, clock, pc, engine, result, history>>

NoResult == [frame |-> [w |-> 0, h |-> 0], boxes |-> <<>>, kept |-> <<>>,
             found |-> <<>>]

Launch ==
  /\ pc \in {"down", "failed"}
  /\ pc' = "check"
  /\ engine' = None
  /\ replaced' = FALSE
  /\ UNCHANGED <<files, clock, result, hidden, cached>>

(* Mutations of UpToDate: an engine file is always good; it has to be newer *)
(* than the model.                                                          *)
AnyCache == cache.engine # NoFile
NewerCache == cache.engine # NoFile /\ cache.mtime > onnx.mtime

UpToDate == cache.engine # NoFile /\ cache.mtime >= onnx.mtime

Check ==
  /\ pc = "check"
  /\ pc' = IF onnx.model = NoFile THEN "failed"
           ELSE IF UpToDate THEN "load" ELSE "parse"
  /\ UNCHANGED <<files, clock, engine, result, history>>

(* A cache that was cut short does not deserialize.  Nor need a whole one:  *)
(* it may be of another TensorRT or another GPU, it may not be readable, or *)
(* there is no memory for it.                                               *)
Deserialize ==
  /\ pc = "load"
  /\ \/ cache.engine # Torn /\ pc' = "bind" /\ engine' = cache.engine
     \/ pc' = "parse" /\ UNCHANGED engine
  /\ UNCHANGED <<files, clock, result, history>>

(* parseFromFile(): the model that is in the file now. *)
Parse ==
  /\ pc = "parse"
  /\ IF onnx.model \in Unreadable \cup {NoFile}
     THEN pc' = "failed" /\ UNCHANGED <<engine, replaced>>
     ELSE pc' = "build" /\ engine' = onnx.model /\ replaced' = FALSE
  /\ UNCHANGED <<files, clock, result, hidden, cached>>

(* std::ofstream with trunc. *)
OpenCache ==
  /\ cache' = [engine |-> Torn, mtime |-> clock]
  /\ hidden' = FALSE /\ cached' = FALSE

(* buildSerializedNetwork() takes minutes; the engine file may not open. *)
Built(opens) ==
  /\ pc = "build"
  /\ IF opens THEN pc' = "write" /\ OpenCache
     ELSE pc' = "bind" /\ UNCHANGED <<cache, hidden, cached>>
  /\ UNCHANGED <<onnx, clock, engine, result, replaced>>

BuildFails ==
  /\ pc = "build"
  /\ pc' = "failed"
  /\ UNCHANGED <<files, clock, engine, result, history>>

(* write(), whose outcome nobody looks at. *)
WriteCache(whole) ==
  /\ pc = "write"
  /\ pc' = "bind"
  /\ cache' = [engine |-> IF whole THEN engine ELSE Torn, mtime |-> clock]
  /\ hidden' = (whole /\ replaced) /\ cached' = (whole /\ ~replaced)
  /\ UNCHANGED <<onnx, clock, engine, result, replaced>>

(* The checks of the bindings, and allocate_buffers(). *)
Bind ==
  /\ pc = "bind"
  /\ pc' = IF engine \in Unfit THEN "failed" ELSE "ready"
  /\ UNCHANGED <<files, clock, engine, result, history>>

Load ==
  \/ Check \/ Deserialize \/ Parse \/ BuildFails \/ Bind
  \/ \E ok \in BOOLEAN : Built(ok) \/ WriteCache(ok)

(* What infer() returns are the boxes kept, in pixels of the frame.         *)
Detected(frame, s) ==
  LET kept == Suppress(s)
  IN [frame |-> frame, boxes |-> s, kept |-> kept,
      found |-> [i \in DOMAIN kept |-> InFrame(kept[i], frame)]]

Infer(frame, rows) ==
  /\ pc = "ready"
  /\ IF CanResize(frame)
     THEN /\ \E s \in Sorted(Candidates(rows)) : result' = Detected(frame, s)
          /\ UNCHANGED <<pc, engine>>
     ELSE pc' = "down" /\ engine' = None /\ result' = NoResult
  /\ UNCHANGED <<files, clock, history>>

-----------------------------------------------------------------------------
(* What happens around the program.  A call of TensorRT or CUDA that fails, *)
(* for want of memory for instance, ends the process and is a Kill; so does *)
(* an engine just built that does not deserialize.                          *)
Kill ==
  /\ pc # "down"
  /\ pc' = "down" /\ engine' = None /\ result' = NoResult
  /\ UNCHANGED <<files, clock, history>>

(* A copy may keep the time stamp of its original. *)
Replace(model, mtime) ==
  /\ onnx' = [model |-> model, mtime |-> mtime]
  /\ replaced' = TRUE /\ cached' = FALSE
  /\ hidden' = (cache.engine \in Models /\ cache.mtime >= mtime)
  /\ UNCHANGED <<cache, clock, pc, engine, result>>

TimePasses ==
  /\ clock < MaxClock
  /\ clock' = clock + 1
  /\ UNCHANGED <<files, pc, engine, result, history>>

EngineInit ==
  /\ onnx = [model |-> NoFile, mtime |-> 0]
  /\ cache = [engine |-> NoFile, mtime |-> 0]
  /\ clock = 0 /\ pc = "down" /\ engine = None /\ result = NoResult
  /\ replaced = FALSE /\ hidden = FALSE /\ cached = FALSE

EngineNext ==
  \/ Launch \/ Load \/ Kill \/ TimePasses
  \/ \E f \in Frames, rows \in RowSets : Infer(f, rows)
  \/ \E m \in Models \cup {NoFile}, t \in 0..clock : Replace(m, t)

EngineSpec == EngineInit /\ [][EngineNext]_engineVars

-----------------------------------------------------------------------------
(* An engine is held from its loading or building until the process is over *)
(* or the start has failed.                                                 *)
EngineTypeOK ==
  /\ onnx \in [model : Models \cup {NoFile}, mtime : 0..clock]
  /\ cache \in [engine : Models \cup {NoFile, Torn}, mtime : 0..clock]
  /\ clock \in 0..MaxClock
  /\ pc \in {"down", "check", "load", "parse", "build", "write", "bind", "ready",
             "failed"}
  /\ engine \in Models \cup {None}
  /\ pc \in {"build", "write", "bind", "ready"} => engine # None
  /\ replaced \in BOOLEAN /\ hidden \in BOOLEAN /\ cached \in BOOLEAN

(* A start ends as the onnx file in place demands, whatever earlier starts  *)
(* have left in the cache: "rebuilt automatically if the onnx is newer"     *)
(* (trt_engine.hpp:7), and a cache that was cut short does no harm.  A      *)
(* replacement during the start, or one the time stamps hide, is excepted.  *)
StartFollowsModel ==
  [][~replaced /\ ~hidden =>
       /\ pc # "ready" /\ pc' = "ready" => engine' = onnx.model
       /\ pc \in {"check", "bind"} /\ pc' = "failed"
            => onnx.model \in Unfit \cup {NoFile}]_engineVars

(* A model whose engine was cached in full is built again only when that    *)
(* engine was tried and did not come out of its file, also when the program *)
(* was killed since.                                                        *)
BuiltOnce == [][pc = "check" /\ pc' = "parse" => ~cached]_engineVars

(* Of the boxes infer() returns two of a class overlap more than iou_thres  *)
(* only if one of them was cut at the edge of the frame, after nms(); and   *)
(* every candidate that is missing has a rival among the boxes kept that is *)
(* at least as confident.                                                   *)
KeptApart ==
  result # NoResult =>
    /\ \A i, j \in DOMAIN result.found :
         i # j /\ Rivals(result.found[i], result.found[j]) =>
           Cut(result.kept[i], result.frame) \/ Cut(result.kept[j], result.frame)
    /\ \A b \in ToSet(result.boxes) \ ToSet(result.kept) :
         \E k \in ToSet(result.kept) : Rivals(k, b) /\ k.conf >= b.conf

(* The padded frame has the size of the network's input exactly: infer()    *)
(* reads that many rows and columns of it.                                  *)
FillsTheInput ==
  result # NoResult => Canvas(result.frame) = [w |-> InputW, h |-> InputH]
=============================================================================
