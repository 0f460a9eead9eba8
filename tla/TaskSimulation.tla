--------------------------- MODULE TaskSimulation ---------------------------
(***************************************************************************)
(* The simulation the API gateway runs when no worker does: reading a task *)
(* moves it one step on, an upload moves a queued one or its progress.     *)
(* Constant-level operators, shared by the two stores of the task service. *)
(***************************************************************************)
EXTENDS TaskLifecycle, Naturals

SimulationProgress ==
    [QUEUED |-> 15, PREPROCESSING |-> 35, DETECTING |-> 60, INPAINTING |-> 85, PACKAGING |-> 100]

(* planSimulationAdvance: where to, or NoStatus. *)
SimulationAdvance(st, hasInput) ==
    IF st \in DOMAIN SimulationProgress /\ (st = "DETECTING" => hasInput) THEN StepTarget[st]
    ELSE NoStatus

(* The two kinds of input, and the progress the bar shows at least then. *)
UploadProgress == [mask |-> 15, regions |-> 35]
UploadKind     == DOMAIN UploadProgress

(* Mutant: a mask does not count. *)
RegionsCountOnly(media, given) == "regions" \in given

(* hasDetectionInput *)
HasDetectionInput(media, given) ==
    "regions" \in given \/ (media = "IMAGE" /\ "mask" \in given)

(* The media of a task an upload of a kind is accepted for. *)
AcceptedFor(kind, media, declared) == IF kind = "mask" THEN media = "IMAGE" ELSE media = declared

RaiseProgress(from, to) == IF from < to THEN to ELSE from
=============================================================================
