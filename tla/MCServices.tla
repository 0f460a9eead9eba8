------------------------------ MODULE MCServices ------------------------------
(***************************************************************************)
(* The mask editor, the masks the models get, the inference gateway, the   *)
(* pages' view of a task and the task store in memory, on small instances. *)
(* They share no state: a behaviour is one of theirs, chosen at the start, *)
(* while the others rest.                                                  *)
(***************************************************************************)
EXTENDS TaskMemoryStore, TaskInput, MaskEditor, MCRegionMask, InferenceGateway,
        TLC

VARIABLE part \* the component that moves

MediaOfMemory == [t \in MemTasks |-> IF t = "m1" THEN "IMAGE" ELSE "VIDEO"]
MediaOfInput  == [t \in InTasks |-> "IMAGE"]
DocOfDriver   == [j \in Drivers |-> CHOOSE d \in DocTasks : TRUE]
OneOfEach     == [k \in {"timeout", "crash", "failure", "aging", "rerun"} |-> 1]

(* The processes of the components are named by the same two model values. *)
Interchangeable == Permutations(Pages)

ServicesInit ==
    /\ part \in {"memory", "input", "editor", "regions", "gateway"}
    /\ MemInit /\ InInit /\ EdInit /\ RmInit /\ GwInit
    /\ seeding => part = "memory"
    /\ simulation => part = "input"
    /\ part # "regions" => request = CHOOSE r \in RegionRequests : TRUE

(* Bound: a test that seeds makes no uploads. *)
SeedsWithoutUploads == seeding => mem'.input = mem.input

Moves(p) == part = p /\ UNCHANGED part

ServicesNext ==
    \/ Moves("memory") /\ MemNext /\ SeedsWithoutUploads /\ UNCHANGED <<inVars, edVars, rmVars, gwVars>>
    \/ Moves("input") /\ InNext /\ UNCHANGED <<memVars, edVars, rmVars, gwVars>>
    \/ Moves("editor") /\ EdNext /\ UNCHANGED <<memVars, inVars, rmVars, gwVars>>
    \/ Moves("regions") /\ RmNext /\ UNCHANGED <<memVars, inVars, edVars, gwVars>>
    \/ Moves("gateway") /\ GwNext /\ UNCHANGED <<memVars, inVars, edVars, rmVars>>

ServicesSpec ==
    ServicesInit /\ [][ServicesNext]_<<part, memVars, inVars, edVars, rmVars, gwVars>>
=============================================================================
