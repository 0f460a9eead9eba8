------------------------ MODULE AccountDeletionProofs ------------------------
(* Proofs about AccountDeletion, for every value of its constants. *)
EXTENDS AccountDeletion, TLAPS

-----------------------------------------------------------------------------
(* The inductive invariant.                                                *)

(* A call that has begun has an operation and a key. *)
CallsAsk ==
    \A c \in DelCalls : delCall[c].pc # "idle" => delCall[c].op \in Ops /\ delCall[c].key \in DelKeys

(* A request that has not been made is in no place. *)
Unmade ==
    \A r \in Requests : eta[r] = 0 => \A p \in Places : store[p].requests[r] = "none"

(* Somebody has claimed the request, and it is never PENDING again. *)
Taken(r) == StatusOf(r) \in {"PROCESSING", "DONE", "FAILED"}

(* Runs hold requests they have claimed, those they left behind included. *)
RunsTaken ==
    /\ \A w \in Processors : run[w].req # NoRequest => Taken(run[w].req)
    /\ \A r \in orphan : Taken(r)
    /\ mode = "memory" => orphan = {}

(* What was there at the claim is in the run's selections or gone already. *)
InFlight ==
    \A w \in Processors :
        LET r == run[w].req
        IN  /\ run[w].pc \in {"assets", "tasks", "commit"} =>
                  /\ covered[r].tasks \subseteq tasks
                  /\ \A a \in covered[r].assets : store[Home].assets[a] # "none"
            /\ run[w].pc \in {"tasks", "commit"} =>
                  \A a \in covered[r].assets : a \in run[w].assets \/ store[Home].assets[a] = "deleted"
            /\ run[w].pc = "commit" => covered[r].tasks \subseteq run[w].tasks

TypeInv == DelTypeOK /\ CallsAsk

(* The inductive invariant behind ClaimedByOne and DoneIsComplete. *)
RunInv == Unmade /\ RunsTaken /\ ClaimedByOne /\ InFlight /\ DoneIsComplete

-----------------------------------------------------------------------------
(* Types.                                                                  *)

(* The target of an operation is of the kind its name tells. *)
LEMMA OpTarget ==
    ASSUME NEW op \in Ops
    PROVE  /\ op[1] = "upload"  => op[2] \in OwnAssets
           /\ op[1] = "asset"   => op[2] \in OwnAssets
           /\ op[1] = "view"    => op[2] \in OwnTasks
<1>1. PICK kind \in DOMAIN Targets : op \in {<<kind, x>> : x \in Targets[kind]}
  BY DEF Ops
<1>2. PICK x \in Targets[kind] : op = <<kind, x>>
  BY <1>1
<1>3. op[1] = kind /\ op[2] = x
  BY <1>2
<1> QED
  BY <1>2, <1>3 DEF Targets

(* What every answer to a call is. *)
LEMMA AnswerTypes ==
    /\ NoAnswer \in DelAnswer
    /\ \A x \in DelOutcome : Plain(x) \in DelAnswer
    /\ \A r \in Requests \cup {NoRequest} : Success(r) \in DelAnswer
BY DEF NoAnswer, Plain, Success, DelAnswer, DelOutcome

(* Moving a call keeps the fields' types. *)
LEMMA CallFields ==
    ASSUME NEW call \in DelCallType,
           NEW pc \in {"act", "persist", "audit", "done"}, NEW answer \in DelAnswer, NEW clean \in BOOLEAN
    PROVE  LET next == [call EXCEPT !.pc = pc, !.answer = answer, !.clean = clean]
           IN  /\ next \in DelCallType
               /\ next.op = call.op /\ next.key = call.key
BY DEF DelCallType

(* Moving a call keeps the types. *)
LEMMA MoveTypes ==
    ASSUME TypeInv, NEW c \in DelCalls, NEW p \in Places,
           NEW pc \in {"act", "persist", "audit", "done"}, NEW answer \in DelAnswer,
           delCall[c].pc # "idle", Move(c, p, pc, answer)
    PROVE  /\ delCall' \in [DelCalls -> DelCallType]
           /\ CallsAsk'
<1>1. delCall \in [DelCalls -> DelCallType] /\ CallsAsk
  BY DEF TypeInv, DelTypeOK
<1>2. Clean(c, p) \in BOOLEAN
  BY <1>1 DEF Clean, DelCallType
<1>3. delCall' = [delCall EXCEPT ![c] =
                     [@ EXCEPT !.pc = pc, !.answer = answer, !.clean = Clean(c, p)]]
  BY <1>1 DEF Move, DelCallType
<1>4. [delCall[c] EXCEPT !.pc = pc, !.answer = answer, !.clean = Clean(c, p)] \in DelCallType
  BY <1>1, <1>2, CallFields
<1>5. delCall' \in [DelCalls -> DelCallType]
  BY <1>1, <1>3, <1>4
<1>6. \A d \in DelCalls : delCall'[d].op = delCall[d].op /\ delCall'[d].key = delCall[d].key
                          /\ (delCall'[d].pc # "idle" => delCall[d].pc # "idle")
  BY <1>1, <1>3 DEF DelCallType
<1> QED
  BY <1>1, <1>5, <1>6 DEF CallsAsk

(* What a statement makes of a place keeps the place's type. *)
LEMMA PlaceTypes ==
    ASSUME NEW st \in DelStoreType
    PROVE  /\ \A a \in OwnAssets, s \in {"none", "active", "deleted"} :
                 [st EXCEPT !.assets[a] = s] \in DelStoreType
           /\ \A t \in OwnTasks : [st EXCEPT !.hidden = @ \cup {t}] \in DelStoreType
           /\ \A r \in Requests, s \in ReqStatus : [st EXCEPT !.requests[r] = s] \in DelStoreType
           /\ \A k \in DelKeys, row \in [op : Ops \cup {NoOp}, answer : DelAnswer] :
                 [st EXCEPT !.keys[k] = row] \in DelStoreType
           /\ \A x \in DelCalls \cup Requests : [st EXCEPT !.audit = @ \cup {x}] \in DelStoreType
<1> DEFINE Row == [op : Ops \cup {NoOp}, answer : DelAnswer]
<1>0. st.keys \in [DelKeys -> Row]
  BY DEF DelStoreType
<1>1. \A a \in OwnAssets, s \in {"none", "active", "deleted"} : [st EXCEPT !.assets[a] = s] \in DelStoreType
  BY DEF DelStoreType
<1>2. \A t \in OwnTasks : [st EXCEPT !.hidden = @ \cup {t}] \in DelStoreType
  BY DEF DelStoreType
<1>3. \A r \in Requests, s \in ReqStatus : [st EXCEPT !.requests[r] = s] \in DelStoreType
  BY DEF DelStoreType
<1>4. \A k \in DelKeys, row \in Row : [st EXCEPT !.keys[k] = row] \in DelStoreType
  <2> SUFFICES ASSUME NEW k \in DelKeys, NEW row \in Row
               PROVE  [st EXCEPT !.keys[k] = row] \in DelStoreType
    OBVIOUS
  <2>1. [st.keys EXCEPT ![k] = row] \in [DelKeys -> Row]
    <3> HIDE DEF Row
    <3> QED
      BY <1>0
  <2>2. [st EXCEPT !.keys[k] = row] = [st EXCEPT !.keys = [st.keys EXCEPT ![k] = row]]
    BY DEF DelStoreType
  <2>3. \A keys \in [DelKeys -> Row] : [st EXCEPT !.keys = keys] \in DelStoreType
    BY DEF DelStoreType
  <2> QED
    BY <2>1, <2>2, <2>3
<1>5. \A x \in DelCalls \cup Requests : [st EXCEPT !.audit = @ \cup {x}] \in DelStoreType
  BY DEF DelStoreType
<1> QED
  BY <1>1, <1>2, <1>3, <1>4, <1>5

(* The statement of a call counts its fault and keeps the bound. *)
LEMMA ReachesTypes ==
    ASSUME DelTypeOK, NEW p \in Places, Reaches(p)
    PROVE  delFaults' \in 0..DelMaxFaults
BY DeletionAssumption DEF DelTypeOK, Reaches

(* A call that answers or goes on, with what it made of one place. *)
LEMMA CallTypes ==
    ASSUME TypeInv, NEW c \in DelCalls, NEW p \in Places, NEW q \in Places,
           NEW pc \in {"act", "persist", "audit", "done"}, NEW answer \in DelAnswer,
           NEW st \in DelStoreType,
           delCall[c].pc # "idle", Reaches(p), Move(c, p, pc, answer),
           store' = store \/ store' = [store EXCEPT ![q] = st],
           eta' \in [Requests -> 0..(LastTick + Sla)],
           UNCHANGED <<mode, clock, tasks, run, covered, orphan>>
    PROVE  TypeInv'
<1>1. delCall' \in [DelCalls -> DelCallType] /\ CallsAsk'
  BY MoveTypes
<1>2. delFaults' \in 0..DelMaxFaults
  BY ReachesTypes DEF TypeInv
<1>3. store' \in [Places -> DelStoreType]
  BY DEF TypeInv, DelTypeOK
<1> QED
  BY <1>1, <1>2, <1>3 DEF TypeInv, DelTypeOK

(* What a call does keeps the types. *)
LEMMA CallStepTypes ==
    ASSUME TypeInv, NEW c \in DelCalls, DelCallStep(c)
    PROVE  TypeInv'
<1> USE DEF Places
<1>0. /\ delCall[c] \in DelCallType
      /\ store \in [Places -> DelStoreType]
      /\ eta \in [Requests -> 0..(LastTick + Sla)]
      /\ clock \in 0..LastTick
      /\ delCall[c].pc # "idle" => delCall[c].op \in Ops /\ delCall[c].key \in DelKeys
  BY DEF TypeInv, DelTypeOK, CallsAsk
<1>1. ASSUME NEW op \in Ops, NEW k \in DelKeys, StartCall(c, op, k)
      PROVE  TypeInv'
  <2> DEFINE peers == {d \in DelCalls \ {c} : InCall(d) /\ delCall[d].key = k}
             alone == peers = {}
             before == {e \in DelCalls : delCall[e].pc = "done"}
             pc == IF op[1] = "upload" THEN "act" ELSE "lookup"
  <2>1. ASSUME NEW b \in BOOLEAN
        PROVE  [IdleDelCall EXCEPT !.pc = pc, !.op = op, !.key = k, !.alone = b, !.before = before]
                  \in DelCallType
    BY AnswerTypes DEF IdleDelCall, DelCallType
  <2>2. ASSUME NEW d \in DelCalls, NEW b \in BOOLEAN
        PROVE  [delCall[d] EXCEPT !.alone = b] \in DelCallType
    <3>1. delCall[d] \in DelCallType
      BY DEF TypeInv, DelTypeOK
    <3> QED
      BY <3>1 DEF DelCallType
  <2>3. ASSUME NEW d \in DelCalls
        PROVE  /\ delCall'[d] \in DelCallType
               /\ delCall'[d].pc # "idle" => delCall'[d].op \in Ops /\ delCall'[d].key \in DelKeys
    <3>1. CASE d = c
      <4>1. delCall'[d] = [IdleDelCall EXCEPT !.pc = pc, !.op = op, !.key = k, !.alone = alone, !.before = before]
        BY <1>1, <3>1 DEF StartCall
      <4>2. delCall'[d] \in DelCallType
        BY <4>1, <2>1
      <4> QED
        BY <4>1, <4>2 DEF IdleDelCall
    <3>2. CASE d # c
      <4>1. delCall'[d] = [delCall[d] EXCEPT !.alone = delCall[d].alone /\ d \notin peers]
        BY <1>1, <3>2 DEF StartCall
      <4>2. delCall'[d] \in DelCallType
        BY <4>1, <2>2
      <4>3. delCall'[d].pc = delCall[d].pc /\ delCall'[d].op = delCall[d].op /\ delCall'[d].key = delCall[d].key
        BY <4>1, <1>0 DEF TypeInv, DelTypeOK, DelCallType
      <4> QED
        BY <4>2, <4>3 DEF TypeInv, CallsAsk
    <3> QED
      BY <3>1, <3>2
  <2>4. delCall' \in [DelCalls -> DelCallType] /\ CallsAsk'
    <3>1. delCall' = [d \in DelCalls |-> delCall'[d]]
      BY <1>1 DEF StartCall
    <3> QED
      BY <2>3, <3>1 DEF CallsAsk
  <2> QED
    BY <1>1, <2>4 DEF StartCall, TypeInv, DelTypeOK
<1>2. ASSUME NEW p \in Places, ResolveIdempotency(c, p)
      PROVE  TypeInv'
  <2>1. delCall[c].key \in DelKeys
    BY <1>2, <1>0 DEF ResolveIdempotency
  <2>2. KeyRow(p, delCall[c].key).answer \in DelAnswer
    BY <2>1, <1>0 DEF KeyRow, DelStoreType
  <2>3. PICK pc \in {"act", "done"}, answer \in DelAnswer : Move(c, p, pc, answer)
    BY <1>2, <2>2, AnswerTypes DEF ResolveIdempotency, DelOutcome
  <2>4. store["db"] \in DelStoreType
    BY <1>0
  <2>5. /\ Reaches(p) /\ store' = store /\ delCall[c].pc # "idle"
        /\ eta' \in [Requests -> 0..(LastTick + Sla)]
        /\ UNCHANGED <<mode, clock, tasks, run, covered, orphan>>
    BY <1>2, <1>0 DEF ResolveIdempotency
  <2> QED
    BY <2>3, <2>4, <2>5, CallTypes
<1>3. ASSUME NEW p \in Places, CreateUploadPolicy(c, p)
      PROVE  TypeInv'
  <2> DEFINE a == delCall[c].op[2]
             st == [store[p] EXCEPT !.assets[a] = "active"]
  <2>1. a \in OwnAssets
    BY <1>3, <1>0, OpTarget DEF CreateUploadPolicy, Acts
  <2>2. st \in DelStoreType
    BY <1>0, <2>1, PlaceTypes
  <2>3. Success(NoRequest) \in DelAnswer
    BY AnswerTypes
  <2>4. store' = [store EXCEPT ![p] = st]
    BY <1>3 DEF CreateUploadPolicy
  <2>5. delCall[c].pc # "idle"
    BY <1>3 DEF CreateUploadPolicy, Acts
  <2>6. /\ Reaches(p)
        /\ Move(c, p, "audit", Success(NoRequest))
        /\ eta' \in [Requests -> 0..(LastTick + Sla)]
        /\ UNCHANGED <<mode, clock, tasks, run, covered, orphan>>
    BY <1>3, <1>0 DEF CreateUploadPolicy
  <2> HIDE DEF st
  <2> QED
    BY <2>2, <2>3, <2>4, <2>5, <2>6, CallTypes
<1>4. ASSUME NEW p \in Places, DeleteAsset(c, p)
      PROVE  TypeInv'
  <2> DEFINE a == delCall[c].op[2]
             q == IF p = "db" /\ store["db"].assets[a] # "none" THEN "db" ELSE "memory"
             st == [store[q] EXCEPT !.assets[a] = "deleted"]
  <2>1. a \in OwnAssets
    BY <1>4, <1>0, OpTarget DEF DeleteAsset, Acts
  <2>2. st \in DelStoreType /\ q \in Places
    BY <1>0, <2>1, PlaceTypes
  <2>3. PICK answer \in DelAnswer : Move(c, p, "persist", answer)
    BY <1>4, AnswerTypes DEF DeleteAsset, DelOutcome
  <2>4. store' = store \/ store' = [store EXCEPT ![q] = st]
    BY <1>4 DEF DeleteAsset
  <2>5. delCall[c].pc # "idle"
    BY <1>4 DEF DeleteAsset, Acts
  <2>6. /\ Reaches(p)
        /\ eta' \in [Requests -> 0..(LastTick + Sla)]
        /\ UNCHANGED <<mode, clock, tasks, run, covered, orphan>>
    BY <1>4, <1>0 DEF DeleteAsset
  <2> HIDE DEF st, q
  <2> QED
    BY <2>2, <2>3, <2>4, <2>5, <2>6, CallTypes
<1>5. ASSUME NEW p \in Places, DeleteTaskView(c, p)
      PROVE  TypeInv'
  <2> DEFINE t == delCall[c].op[2]
             st == [store[p] EXCEPT !.hidden = @ \cup {t}]
  <2>1. t \in OwnTasks
    BY <1>5, <1>0, OpTarget DEF DeleteTaskView, Acts
  <2>2. st \in DelStoreType
    BY <1>0, <2>1, PlaceTypes
  <2>3. PICK pc \in {"persist", "done"}, answer \in DelAnswer : Move(c, p, pc, answer)
    BY <1>5, AnswerTypes DEF DeleteTaskView, DelOutcome
  <2>4. store' = store \/ store' = [store EXCEPT ![p] = st]
    BY <1>5 DEF DeleteTaskView
  <2>5. delCall[c].pc # "idle"
    BY <1>5 DEF DeleteTaskView, Acts
  <2>6. /\ Reaches(p)
        /\ eta' \in [Requests -> 0..(LastTick + Sla)]
        /\ UNCHANGED <<mode, clock, tasks, run, covered, orphan>>
    BY <1>5, <1>0 DEF DeleteTaskView
  <2> HIDE DEF st
  <2> QED
    BY <2>2, <2>3, <2>4, <2>5, <2>6, CallTypes
<1>6. ASSUME NEW p \in Places, NEW r \in Requests, CreateAccountDeleteRequest(c, p, r)
      PROVE  TypeInv'
  <2> DEFINE st == [store[p] EXCEPT !.requests[r] = "PENDING"]
  <2>1. st \in DelStoreType
    BY <1>0, PlaceTypes DEF ReqStatus
  <2>2. Success(r) \in DelAnswer
    BY AnswerTypes
  <2>3. store' = [store EXCEPT ![p] = st]
    BY <1>6 DEF CreateAccountDeleteRequest
  <2>4. delCall[c].pc # "idle"
    BY <1>6 DEF CreateAccountDeleteRequest, Acts
  <2>5. eta' \in [Requests -> 0..(LastTick + Sla)]
    BY <1>6, <1>0, DeletionAssumption DEF CreateAccountDeleteRequest
  <2>6. /\ Reaches(p)
        /\ Move(c, p, "persist", Success(r))
        /\ UNCHANGED <<mode, clock, tasks, run, covered, orphan>>
    BY <1>6, <1>0 DEF CreateAccountDeleteRequest
  <2> HIDE DEF st
  <2> QED
    BY <2>1, <2>2, <2>3, <2>4, <2>5, <2>6, CallTypes
<1>7. ASSUME NEW p \in Places, PersistIdempotency(c, p)
      PROVE  TypeInv'
  <2> DEFINE row == [op |-> delCall[c].op, answer |-> delCall[c].answer]
             st == [store[p] EXCEPT !.keys[delCall[c].key] = row]
             pc == AfterPersist(delCall[c].answer.outcome)
  <2>1. delCall[c].key \in DelKeys /\ delCall[c].op \in Ops /\ delCall[c].pc # "idle"
    BY <1>7, <1>0 DEF PersistIdempotency
  <2>2. delCall[c].answer \in DelAnswer
    BY <1>0 DEF DelCallType
  <2>3. row \in [op : Ops \cup {NoOp}, answer : DelAnswer]
    BY <2>1, <2>2
  <2>4. st \in DelStoreType
    BY <1>0, <2>1, <2>3, PlaceTypes
  <2>5. pc \in {"act", "persist", "audit", "done"} /\ Move(c, p, pc, delCall[c].answer)
    BY <1>7 DEF PersistIdempotency, AfterPersist
  <2>6. store' = [store EXCEPT ![p] = st]
    BY <1>7 DEF PersistIdempotency
  <2>7. /\ Reaches(p)
        /\ eta' \in [Requests -> 0..(LastTick + Sla)]
        /\ UNCHANGED <<mode, clock, tasks, run, covered, orphan>>
    BY <1>7, <1>0 DEF PersistIdempotency
  <2> HIDE DEF st, pc
  <2> QED
    BY <2>1, <2>2, <2>4, <2>5, <2>6, <2>7, CallTypes
<1>8. ASSUME NEW p \in Places, AppendAuditLog(c, p)
      PROVE  TypeInv'
  <2> DEFINE st == [store[p] EXCEPT !.audit = @ \cup {c}]
  <2>1. st \in DelStoreType
    BY <1>0, PlaceTypes
  <2>2. delCall[c].answer \in DelAnswer
    BY <1>0 DEF DelCallType
  <2>3. delCall[c].pc # "idle" /\ Move(c, p, "done", delCall[c].answer)
    BY <1>8 DEF AppendAuditLog
  <2>4. store' = [store EXCEPT ![p] = st]
    BY <1>8 DEF AppendAuditLog
  <2>5. /\ Reaches(p)
        /\ eta' \in [Requests -> 0..(LastTick + Sla)]
        /\ UNCHANGED <<mode, clock, tasks, run, covered, orphan>>
    BY <1>8, <1>0 DEF AppendAuditLog
  <2> HIDE DEF st
  <2> QED
    BY <2>1, <2>2, <2>3, <2>4, <2>5, CallTypes
<1> QED
  BY <1>1, <1>2, <1>3, <1>4, <1>5, <1>6, <1>7, <1>8 DEF DelCallStep

(* The runs of the script, the restart, new tasks and the clock keep the   *)
(* types.                                                                  *)
LEMMA RunFields ==
    ASSUME NEW st \in RunType
    PROVE  /\ IdleRun \in RunType
           /\ \A todo \in SUBSET Requests : [st EXCEPT !.todo = todo] \in RunType
           /\ \A todo \in SUBSET Requests : [IdleRun EXCEPT !.todo = todo] \in RunType
           /\ \A pc \in {"failed", "audit"} : [st EXCEPT !.pc = pc] \in RunType
           /\ \A some \in SUBSET OwnAssets : [st EXCEPT !.pc = "tasks", !.assets = some] \in RunType
           /\ \A some \in SUBSET OwnTasks : [st EXCEPT !.pc = "commit", !.tasks = some] \in RunType
           /\ \A r \in Requests, todo \in SUBSET Requests :
                 [st EXCEPT !.pc = "assets", !.req = r, !.todo = todo] \in RunType
BY DEF RunType, IdleRun

(* A step of one run that may change the store. *)
LEMMA RunTypes ==
    ASSUME TypeInv, NEW w \in Processors, NEW st \in RunType, NEW p \in Places, NEW place \in DelStoreType,
           run' = [run EXCEPT ![w] = st], st.pc = "scan" <=> st.req = NoRequest,
           store' = store \/ store' = [store EXCEPT ![p] = place],
           delFaults' \in 0..DelMaxFaults,
           covered' \in [Requests -> [assets : SUBSET OwnAssets, tasks : SUBSET OwnTasks]],
           orphan' \subseteq Requests,
           UNCHANGED <<mode, clock, tasks, eta, delCall>>
    PROVE  TypeInv'
<1>1. store' \in [Places -> DelStoreType]
  BY DEF TypeInv, DelTypeOK
<1>2. run' \in [Processors -> RunType] /\ \A v \in Processors : run'[v].pc = "scan" <=> run'[v].req = NoRequest
  BY DEF TypeInv, DelTypeOK
<1> QED
  BY <1>1, <1>2 DEF TypeInv, DelTypeOK, CallsAsk

LEMMA RunStepTypes ==
    ASSUME TypeInv, NEW w \in Processors, RunStep(w) \/ RollBackRun(w) \/ StopRun(w)
    PROVE  TypeInv'
<1> DEFINE Keeps(p, place, st) ==
              /\ p \in Places /\ place \in DelStoreType /\ st \in RunType
              /\ run' = [run EXCEPT ![w] = st] /\ (st.pc = "scan" <=> st.req = NoRequest)
              /\ store' = store \/ store' = [store EXCEPT ![p] = place]
              /\ delFaults' \in 0..DelMaxFaults
              /\ covered' \in [Requests -> [assets : SUBSET OwnAssets, tasks : SUBSET OwnTasks]]
              /\ orphan' \subseteq Requests
              /\ UNCHANGED <<mode, clock, tasks, eta, delCall>>
<1>0. /\ run \in [Processors -> RunType] /\ run[w] \in RunType
      /\ run[w].pc = "scan" <=> run[w].req = NoRequest
      /\ store \in [Places -> DelStoreType]
      /\ Home \in Places /\ store[Home] \in DelStoreType
      /\ Active \in SUBSET OwnAssets
      /\ delFaults \in 0..DelMaxFaults
      /\ covered \in [Requests -> [assets : SUBSET OwnAssets, tasks : SUBSET OwnTasks]]
      /\ orphan \subseteq Requests /\ tasks \subseteq OwnTasks
  BY DEF TypeInv, DelTypeOK, Home, Places, Active
<1>00. NoRequest \notin Requests /\ DelMaxFaults \in Nat
  BY DeletionAssumption
<1>1. CASE Scan(w)
  <2>1. PICK some \in SUBSET DuePending : run' = [run EXCEPT ![w].todo = some]
    BY <1>1 DEF Scan
  <2>2. some \in SUBSET Requests
    BY DEF DuePending
  <2> DEFINE st == [run[w] EXCEPT !.todo = some]
  <2>3a. st \in RunType
    BY <2>2, <1>0, RunFields
  <2>3. (st.pc = "scan" <=> st.req = NoRequest) /\ run' = [run EXCEPT ![w] = st]
    BY <2>1, <2>2, <1>0 DEF RunType
  <2> HIDE DEF st
  <2>4. Keeps(Home, store[Home], st)
    BY <1>0, <1>1, <2>3a, <2>3 DEF Scan
  <2> QED
    BY <2>4, RunTypes
<1>2. ASSUME NEW r \in Requests, Claim(w, r)
      PROVE  TypeInv'
  <2> DEFINE todo == run[w].todo \ {r}
  <2>1. todo \in SUBSET Requests /\ run[w].pc = "scan"
    BY <1>0, <1>2 DEF RunType, Claim
  <2>2. CASE run' = [run EXCEPT ![w].todo = @ \ {r}] /\ UNCHANGED <<store, covered>>
    <3> DEFINE st == [run[w] EXCEPT !.todo = todo]
    <3>1a. st \in RunType
      BY <2>1, <1>0, RunFields
    <3>1. (st.pc = "scan" <=> st.req = NoRequest) /\ run' = [run EXCEPT ![w] = st]
      BY <2>1, <2>2, <1>0 DEF RunType
    <3> HIDE DEF st
    <3>2. Keeps(Home, store[Home], st)
      BY <1>0, <1>2, <2>2, <3>1a, <3>1 DEF Claim
    <3> QED
      BY <3>2, RunTypes
  <2>3. CASE /\ store' = [store EXCEPT ![Home].requests[r] = "PROCESSING"]
             /\ covered' = [covered EXCEPT ![r] = [assets |-> Active, tasks |-> tasks]]
             /\ run' = [run EXCEPT ![w].pc = "assets", ![w].req = r, ![w].todo = @ \ {r}]
    <3> DEFINE st == [run[w] EXCEPT !.pc = "assets", !.req = r, !.todo = todo]
               place == [store[Home] EXCEPT !.requests[r] = "PROCESSING"]
    <3>1. run' = [run EXCEPT ![w] = st]
      BY <2>3, <1>0 DEF RunType
    <3>2. st \in RunType
      BY <2>1, <1>0, RunFields
    <3>3. st.pc # "scan" /\ st.req # NoRequest
      BY <1>0, <1>00 DEF RunType
    <3>4. place \in DelStoreType /\ store' = [store EXCEPT ![Home] = place]
      BY <1>0, <2>3, PlaceTypes DEF ReqStatus
    <3>5. covered' \in [Requests -> [assets : SUBSET OwnAssets, tasks : SUBSET OwnTasks]]
      BY <1>0, <2>3
    <3> HIDE DEF st, place
    <3>6. Keeps(Home, place, st)
      BY <1>0, <1>2, <3>1, <3>2, <3>3, <3>4, <3>5 DEF Claim
    <3> QED
      BY <3>6, RunTypes
  <2> QED
    BY <1>2, <2>2, <2>3 DEF Claim
<1>3. CASE SelectAssets(w)
  <2> DEFINE st == [run[w] EXCEPT !.pc = "tasks", !.assets = Active]
  <2>1a. st \in RunType
    BY <1>0, RunFields
  <2>1. run' = [run EXCEPT ![w] = st]
    BY <1>0, <1>3 DEF SelectAssets, RunType
  <2>2. st.pc # "scan" /\ st.req # NoRequest
    BY <1>0, <1>3 DEF SelectAssets, RunType
  <2>2a. AssetsErased(Active) \in DelStoreType
    BY <1>0 DEF AssetsErased, DelStoreType
  <2> HIDE DEF st
  <2>3. Keeps(Home, AssetsErased(Active), st)
    BY <1>0, <1>3, <2>1a, <2>1, <2>2, <2>2a DEF SelectAssets
  <2> QED
    BY <2>3, RunTypes
<1>4. CASE SelectTasks(w)
  <2> DEFINE st == [run[w] EXCEPT !.pc = "commit", !.tasks = tasks]
  <2>1a. st \in RunType
    BY <1>0, RunFields
  <2>1. run' = [run EXCEPT ![w] = st]
    BY <1>0, <1>4 DEF SelectTasks, RunType
  <2>2. st.pc # "scan" /\ st.req # NoRequest
    BY <1>0, <1>4 DEF SelectTasks, RunType
  <2> HIDE DEF st
  <2>3. Keeps(Home, store[Home], st)
    BY <1>0, <1>4, <2>1a, <2>1, <2>2 DEF SelectTasks
  <2> QED
    BY <2>3, RunTypes
<1>5. ASSUME Commit(w) \/ MarkFailed(w) \/ RollBackRun(w)
      PROVE  TypeInv'
  <2>1. run[w].pc \in {"assets", "tasks", "commit", "failed"}
    BY <1>5 DEF Commit, MarkFailed, RollBackRun
  <2>2. PICK pc \in {"failed", "audit"} : run' = [run EXCEPT ![w].pc = pc]
    BY <1>5 DEF Commit, MarkFailed, RollBackRun
  <2> DEFINE st == [run[w] EXCEPT !.pc = pc]
  <2>3. st \in RunType /\ run' = [run EXCEPT ![w] = st]
    BY <1>0, <2>2, RunFields DEF RunType
  <2>4. st.pc # "scan" /\ st.req # NoRequest /\ run[w].req \in Requests
    BY <1>0, <2>1 DEF RunType
  <2>5. Erased(w) \in DelStoreType
    BY <1>0, <2>4 DEF Erased, DelStoreType, ReqStatus, RunType
  <2>6. [store[Home] EXCEPT !.requests[run[w].req] = "FAILED"] \in DelStoreType
    BY <1>0, <2>4, PlaceTypes DEF ReqStatus
  <2>7. PICK place \in DelStoreType : store' = store \/ store' = [store EXCEPT ![Home] = place]
    BY <1>0, <1>5, <2>5, <2>6 DEF Commit, MarkFailed, RollBackRun
  <2>8. delFaults' \in 0..DelMaxFaults
    BY <1>0, <1>00, <1>5 DEF Commit, MarkFailed, RollBackRun
  <2>9. UNCHANGED <<mode, clock, tasks, eta, delCall, covered, orphan>>
    BY <1>5 DEF Commit, MarkFailed, RollBackRun
  <2> HIDE DEF st
  <2>10. Keeps(Home, place, st)
    BY <1>0, <2>3, <2>4, <2>7, <2>8, <2>9
  <2> QED
    BY <2>10, RunTypes
<1>6. ASSUME NEW p \in Places, AuditRun(w, p)
      PROVE  TypeInv'
  <2> DEFINE st == [IdleRun EXCEPT !.todo = run[w].todo]
             place == [store[p] EXCEPT !.audit = @ \cup {run[w].req}]
  <2>1. st \in RunType
    BY <1>0, RunFields DEF RunType
  <2>2. st.pc = "scan" /\ st.req = NoRequest
    BY DEF IdleRun
  <2>3. run[w].req \in Requests
    BY <1>0, <1>6 DEF RunType, AuditRun
  <2>4. place \in DelStoreType /\ (store' = store \/ store' = [store EXCEPT ![p] = place])
    BY <1>0, <1>6, <2>3, PlaceTypes DEF AuditRun
  <2>5. delFaults' \in 0..DelMaxFaults
    BY <1>6, ReachesTypes DEF AuditRun, TypeInv
  <2> HIDE DEF st, place
  <2>6. Keeps(p, place, st)
    BY <1>0, <1>6, <2>1, <2>2, <2>4, <2>5 DEF AuditRun, st
  <2> QED
    BY <2>6, RunTypes
<1>7. CASE StopRun(w)
  <2>1. IdleRun \in RunType /\ IdleRun.pc = "scan" /\ IdleRun.req = NoRequest
    BY <1>0, RunFields DEF IdleRun
  <2>2. orphan' \subseteq Requests
    BY <1>0, <1>7 DEF StopRun, RunType
  <2>3. Keeps(Home, store[Home], IdleRun)
    BY <1>0, <1>00, <1>7, <2>1, <2>2 DEF StopRun
  <2> QED
    BY <2>3, RunTypes
<1> QED
  BY <1>1, <1>2, <1>3, <1>4, <1>5, <1>6, <1>7 DEF RunStep

(* The restart of the gateway keeps the types. *)
LEMMA RestartTypes ==
    ASSUME TypeInv, RestartGateway
    PROVE  TypeInv'
<1>0. /\ store \in [Places -> DelStoreType] /\ delCall \in [DelCalls -> DelCallType]
      /\ "memory" \in Places
  BY DEF TypeInv, DelTypeOK, Places
<1>1. EmptyStore \in DelStoreType
  <2>1. NoRow \in [op : Ops \cup {NoOp}, answer : DelAnswer]
    BY AnswerTypes DEF NoRow
  <2> DEFINE Row == [op : Ops \cup {NoOp}, answer : DelAnswer]
  <2>2. [k \in DelKeys |-> NoRow] \in [DelKeys -> Row]
    <3> HIDE DEF Row
    <3> QED
      BY <2>1 DEF Row
  <2>3. /\ [a \in OwnAssets |-> "none"] \in [OwnAssets -> {"none", "active", "deleted"}]
        /\ [r \in Requests |-> "none"] \in [Requests -> ReqStatus]
    BY DEF ReqStatus
  <2> QED
    BY <2>2, <2>3 DEF EmptyStore, DelStoreType
<1>2. store' \in [Places -> DelStoreType]
  BY <1>0, <1>1 DEF RestartGateway
<1>3. ASSUME NEW c \in DelCalls
      PROVE  /\ delCall'[c] \in DelCallType
             /\ delCall'[c].pc # "idle" => delCall'[c].op \in Ops /\ delCall'[c].key \in DelKeys
  <2>1. /\ delCall[c] \in DelCallType
        /\ delCall[c].pc # "idle" => delCall[c].op \in Ops /\ delCall[c].key \in DelKeys
    BY <1>0 DEF TypeInv, CallsAsk
  <2> DEFINE pc == IF InCall(c) THEN "lost" ELSE delCall[c].pc
             clean == delCall[c].clean /\ mode = "prisma"
  <2>2. delCall'[c] = [delCall[c] EXCEPT !.pc = pc, !.clean = clean]
    BY DEF RestartGateway
  <2>3. ASSUME NEW b \in BOOLEAN
        PROVE  [delCall[c] EXCEPT !.pc = pc, !.clean = b] \in DelCallType
    BY <2>1 DEF DelCallType
  <2>4. /\ delCall'[c].op = delCall[c].op /\ delCall'[c].key = delCall[c].key
        /\ delCall'[c].pc = pc
    BY <2>1, <2>2 DEF DelCallType
  <2>5. pc # "idle" => delCall[c].pc # "idle"
    BY DEF InCall
  <2> QED
    BY <2>1, <2>2, <2>3, <2>4, <2>5
<1>4. delCall' = [c \in DelCalls |-> delCall'[c]]
  BY DEF RestartGateway
<1>5. delCall' \in [DelCalls -> DelCallType] /\ CallsAsk'
  BY <1>3, <1>4 DEF CallsAsk
<1>6. run' \in [Processors -> RunType] /\ \A w \in Processors : run'[w].pc = "scan" <=> run'[w].req = NoRequest
  BY DEF RestartGateway, TypeInv, DelTypeOK, RunType, IdleRun
<1>7. delFaults' \in 0..DelMaxFaults
  <2>1. delFaults \in 0..DelMaxFaults /\ DelMaxFaults \in Nat
    BY DeletionAssumption DEF TypeInv, DelTypeOK
  <2>2. delFaults < DelMaxFaults /\ delFaults' = delFaults + 1
    BY DEF RestartGateway
  <2> QED
    BY <2>1, <2>2
<1>8. UNCHANGED <<mode, clock, tasks, eta, covered, orphan>>
  BY DEF RestartGateway
<1> QED
  BY <1>2, <1>5, <1>6, <1>7, <1>8 DEF TypeInv, DelTypeOK

(* Every step keeps the types. *)
LEMMA TypeStep ==
    ASSUME TypeInv, [DelNext]_delVars
    PROVE  TypeInv'
<1>1. ASSUME NEW c \in DelCalls, DelCallStep(c)
      PROVE  TypeInv'
  BY <1>1, CallStepTypes
<1>2. ASSUME NEW w \in Processors, RunStep(w) \/ RollBackRun(w) \/ StopRun(w)
      PROVE  TypeInv'
  BY <1>2, RunStepTypes
<1>3. ASSUME NEW t \in OwnTasks, CreateTask(t)
      PROVE  TypeInv'
  BY <1>3 DEF CreateTask, TypeInv, DelTypeOK, CallsAsk
<1>4. CASE RestartGateway
  BY <1>4, RestartTypes
<1>5. CASE Tick
  <2>1. clock' \in 0..LastTick
    BY <1>5, DeletionAssumption DEF Tick, TypeInv, DelTypeOK
  <2>2. UNCHANGED <<mode, delFaults, store, tasks, eta, delCall, run, covered, orphan>>
    BY <1>5 DEF Tick
  <2>3. DelTypeOK'
    BY <2>1, <2>2 DEF TypeInv, DelTypeOK
  <2>4. CallsAsk'
    BY <2>2 DEF TypeInv, CallsAsk
  <2> QED
    BY <2>3, <2>4 DEF TypeInv
<1>6. CASE UNCHANGED delVars
  BY <1>6 DEF delVars, TypeInv, DelTypeOK, CallsAsk
<1> QED
  BY <1>1, <1>2, <1>3, <1>4, <1>5, <1>6 DEF DelNext

-----------------------------------------------------------------------------
(* What a step changes, field by field.                                    *)

AssetsSame   == \A q \in Places : store'[q].assets = store[q].assets
HiddenSame   == \A q \in Places : store'[q].hidden = store[q].hidden
RequestsSame == \A q \in Places : store'[q].requests = store[q].requests
KeysSame     == \A q \in Places : store'[q].keys = store[q].keys
AuditSame    == \A q \in Places : store'[q].audit = store[q].audit

(* A statement writes one column of one place. *)
LEMMA Writes ==
    ASSUME TypeInv, NEW p \in Places
    PROVE  /\ \A a \in OwnAssets : \A s :
                 store' = [store EXCEPT ![p].assets[a] = s] =>
                    /\ HiddenSame /\ RequestsSame /\ KeysSame /\ AuditSame
                    /\ \A q \in Places, b \in OwnAssets :
                          /\ q = p /\ b = a => store'[q].assets[b] = s
                          /\ q # p \/ b # a => store'[q].assets[b] = store[q].assets[b]
           /\ \A t :
                 store' = [store EXCEPT ![p].hidden = @ \cup {t}] =>
                    /\ AssetsSame /\ RequestsSame /\ KeysSame /\ AuditSame
                    /\ t \in store'[p].hidden /\ \A q \in Places : store[q].hidden \subseteq store'[q].hidden
           /\ \A r \in Requests : \A s :
                 store' = [store EXCEPT ![p].requests[r] = s] =>
                    /\ AssetsSame /\ HiddenSame /\ KeysSame /\ AuditSame
                    /\ \A q \in Places, x \in Requests :
                          /\ q = p /\ x = r => store'[q].requests[x] = s
                          /\ q # p \/ x # r => store'[q].requests[x] = store[q].requests[x]
           /\ \A k \in DelKeys : \A row :
                 store' = [store EXCEPT ![p].keys[k] = row] =>
                    /\ AssetsSame /\ HiddenSame /\ RequestsSame /\ AuditSame
                    /\ \A q \in Places, x \in DelKeys :
                          /\ q = p /\ x = k => store'[q].keys[x] = row
                          /\ q # p \/ x # k => store'[q].keys[x] = store[q].keys[x]
           /\ \A x :
                 store' = [store EXCEPT ![p].audit = @ \cup {x}] =>
                    /\ AssetsSame /\ HiddenSame /\ RequestsSame /\ KeysSame
                    /\ x \in store'[p].audit /\ \A q \in Places : store[q].audit \subseteq store'[q].audit
<1>0. store \in [Places -> DelStoreType]
  BY DEF TypeInv, DelTypeOK
<1> USE DEF AssetsSame, HiddenSame, RequestsSame, KeysSame, AuditSame
<1>1. ASSUME NEW a \in OwnAssets, NEW s, store' = [store EXCEPT ![p].assets[a] = s]
      PROVE  /\ HiddenSame /\ RequestsSame /\ KeysSame /\ AuditSame
             /\ \A q \in Places, b \in OwnAssets :
                   /\ q = p /\ b = a => store'[q].assets[b] = s
                   /\ q # p \/ b # a => store'[q].assets[b] = store[q].assets[b]
  BY <1>0, <1>1 DEF DelStoreType
<1>2. ASSUME NEW t, store' = [store EXCEPT ![p].hidden = @ \cup {t}]
      PROVE  /\ AssetsSame /\ RequestsSame /\ KeysSame /\ AuditSame
             /\ t \in store'[p].hidden /\ \A q \in Places : store[q].hidden \subseteq store'[q].hidden
  BY <1>0, <1>2 DEF DelStoreType
<1>3. ASSUME NEW r \in Requests, NEW s, store' = [store EXCEPT ![p].requests[r] = s]
      PROVE  /\ AssetsSame /\ HiddenSame /\ KeysSame /\ AuditSame
             /\ \A q \in Places, x \in Requests :
                   /\ q = p /\ x = r => store'[q].requests[x] = s
                   /\ q # p \/ x # r => store'[q].requests[x] = store[q].requests[x]
  BY <1>0, <1>3 DEF DelStoreType
<1>4. ASSUME NEW k \in DelKeys, NEW row, store' = [store EXCEPT ![p].keys[k] = row]
      PROVE  /\ AssetsSame /\ HiddenSame /\ RequestsSame /\ AuditSame
             /\ \A q \in Places, x \in DelKeys :
                   /\ q = p /\ x = k => store'[q].keys[x] = row
                   /\ q # p \/ x # k => store'[q].keys[x] = store[q].keys[x]
  BY <1>0, <1>4 DEF DelStoreType
<1>5. ASSUME NEW x, store' = [store EXCEPT ![p].audit = @ \cup {x}]
      PROVE  /\ AssetsSame /\ HiddenSame /\ RequestsSame /\ KeysSame
             /\ x \in store'[p].audit /\ \A q \in Places : store[q].audit \subseteq store'[q].audit
  BY <1>0, <1>5 DEF DelStoreType
<1> HIDE DEF AssetsSame, HiddenSame, RequestsSame, KeysSame, AuditSame
<1> QED
  BY <1>1, <1>2, <1>3, <1>4, <1>5

(* A call moves alone, and keeps what it asks. *)
LEMMA MoveFields ==
    ASSUME TypeInv, NEW c \in DelCalls, NEW p, NEW pc, NEW answer, Move(c, p, pc, answer)
    PROVE  /\ delCall'[c].pc = pc /\ delCall'[c].answer = answer /\ delCall'[c].clean = Clean(c, p)
           /\ delCall'[c].op = delCall[c].op /\ delCall'[c].key = delCall[c].key
           /\ delCall'[c].alone = delCall[c].alone /\ delCall'[c].before = delCall[c].before
           /\ \A d \in DelCalls : d # c => delCall'[d] = delCall[d]
<1>1. delCall \in [DelCalls -> DelCallType]
  BY DEF TypeInv, DelTypeOK
<1> QED
  BY <1>1 DEF Move, DelCallType

(* A call that begins is not alone when another one has its key. *)
LEMMA StartFields ==
    ASSUME TypeInv, NEW c \in DelCalls, NEW op, NEW k, StartCall(c, op, k)
    PROVE  /\ delCall[c].pc = "idle"
           /\ delCall'[c].pc = IF op[1] = "upload" THEN "act" ELSE "lookup"
           /\ delCall'[c].op = op /\ delCall'[c].key = k /\ delCall'[c].answer = NoAnswer
           /\ delCall'[c].alone => \A d \in DelCalls : d # c /\ InCall(d) => delCall[d].key # k
           /\ delCall'[c].before = {e \in DelCalls : delCall[e].pc = "done"}
           /\ \A d \in DelCalls : d # c =>
                 /\ delCall'[d].pc = delCall[d].pc /\ delCall'[d].answer = delCall[d].answer
                 /\ delCall'[d].op = delCall[d].op /\ delCall'[d].key = delCall[d].key
                 /\ delCall'[d].clean = delCall[d].clean /\ delCall'[d].before = delCall[d].before
                 /\ delCall'[d].alone => delCall[d].alone
<1> DEFINE peers == {d \in DelCalls \ {c} : InCall(d) /\ delCall[d].key = k}
           alone == peers = {}
           before == {e \in DelCalls : delCall[e].pc = "done"}
           pc == IF op[1] = "upload" THEN "act" ELSE "lookup"
<1>1. delCall \in [DelCalls -> DelCallType]
  BY DEF TypeInv, DelTypeOK
<1>2. delCall'[c] = [IdleDelCall EXCEPT !.pc = pc, !.op = op, !.key = k, !.alone = alone, !.before = before]
  BY DEF StartCall
<1>3. delCall[c].pc = "idle"
  BY DEF StartCall
<1>4. /\ delCall'[c].pc = pc /\ delCall'[c].op = op /\ delCall'[c].key = k
      /\ delCall'[c].answer = NoAnswer /\ delCall'[c].before = before
  <2> HIDE DEF pc, before, alone
  <2> QED
    BY <1>2 DEF IdleDelCall
<1>5. delCall'[c].alone => peers = {}
  <2>1. delCall'[c].alone = alone
    <3> HIDE DEF pc, before, alone
    <3> QED
      BY <1>2 DEF IdleDelCall
  <2> QED
    BY <2>1, Zenon
<1>6. ASSUME NEW d \in DelCalls, d # c
      PROVE  /\ delCall'[d].pc = delCall[d].pc /\ delCall'[d].answer = delCall[d].answer
             /\ delCall'[d].op = delCall[d].op /\ delCall'[d].key = delCall[d].key
             /\ delCall'[d].clean = delCall[d].clean /\ delCall'[d].before = delCall[d].before
             /\ delCall'[d].alone => delCall[d].alone
  <2> DEFINE b == delCall[d].alone /\ d \notin peers
  <2>1. delCall'[d] = [delCall[d] EXCEPT !.alone = b]
    BY <1>6 DEF StartCall
  <2>2. b => delCall[d].alone
    BY Zenon
  <2> HIDE DEF b
  <2>3. /\ delCall'[d].pc = delCall[d].pc /\ delCall'[d].answer = delCall[d].answer
        /\ delCall'[d].op = delCall[d].op /\ delCall'[d].key = delCall[d].key
        /\ delCall'[d].clean = delCall[d].clean /\ delCall'[d].before = delCall[d].before
        /\ delCall'[d].alone = b
    BY <1>1, <2>1 DEF DelCallType
  <2> QED
    BY <2>2, <2>3
<1> QED
  BY <1>3, <1>4, <1>5, <1>6

(* A restart loses the calls it interrupts. *)
LEMMA RestartFields ==
    ASSUME TypeInv, RestartGateway, NEW c \in DelCalls
    PROVE  /\ delCall'[c].pc = IF InCall(c) THEN "lost" ELSE delCall[c].pc
           /\ delCall'[c].clean => delCall[c].clean /\ mode = "prisma"
           /\ delCall'[c].answer = delCall[c].answer /\ delCall'[c].alone = delCall[c].alone
           /\ delCall'[c].op = delCall[c].op /\ delCall'[c].key = delCall[c].key
           /\ delCall'[c].before = delCall[c].before
<1> DEFINE pc == IF InCall(c) THEN "lost" ELSE delCall[c].pc
           clean == delCall[c].clean /\ mode = "prisma"
<1>1. delCall[c] \in DelCallType
  BY DEF TypeInv, DelTypeOK
<1>2. delCall'[c] = [delCall[c] EXCEPT !.pc = pc, !.clean = clean]
  BY DEF RestartGateway
<1>3. clean => delCall[c].clean /\ mode = "prisma"
  BY Zenon
<1> HIDE DEF clean
<1>4. /\ delCall'[c].pc = pc /\ delCall'[c].clean = clean
      /\ delCall'[c].answer = delCall[c].answer /\ delCall'[c].alone = delCall[c].alone
      /\ delCall'[c].op = delCall[c].op /\ delCall'[c].key = delCall[c].key
      /\ delCall'[c].before = delCall[c].before
  BY <1>1, <1>2 DEF DelCallType
<1> QED
  BY <1>3, <1>4

-----------------------------------------------------------------------------
(* The assets.                                                             *)

(* Where a call stands tells what it has answered so far. *)
CallShape ==
    \A c \in DelCalls :
        /\ delCall[c].pc = "idle" => delCall[c].op = NoOp /\ delCall[c].key = "none"
        /\ delCall[c].pc \in {"idle", "lookup", "act"} => delCall[c].answer = NoAnswer
        /\ delCall[c].pc \in {"lookup", "persist"} => delCall[c].op[1] # "upload"
        /\ delCall[c].pc = "persist" => delCall[c].answer.outcome \in {"SUCCESS", "NOT_FOUND"}
        /\ delCall[c].pc = "audit" => delCall[c].answer.outcome = "SUCCESS"

Moved(c) == delCall[c].answer # NoAnswer

Uploaded(a) == \E e \in DelCalls : delCall[e].op = <<"upload", a>> /\ Moved(e)

(* An asset is where its upload put it, and nowhere else. *)
AssetsMade ==
    /\ \A p \in Places, a \in OwnAssets : store[p].assets[a] # "none" => Uploaded(a)
    /\ \A c, d \in DelCalls :
          delCall[c].op = delCall[d].op /\ delCall[c].op[1] = "upload" /\ Moved(c) /\ Moved(d) => c = d
    /\ \A a \in OwnAssets : store["db"].assets[a] = "none" \/ store["memory"].assets[a] = "none"
    /\ \A w \in Processors : \A a \in run[w].assets : store[Home].assets[a] # "none"

AssetInv == CallShape /\ AssetsMade

(* A step that uploads nothing, and takes no asset from where a run has    *)
(* seen it.                                                                *)
LEMMA MadeStays ==
    ASSUME TypeInv, AssetsMade, Home' = Home,
           \A d \in DelCalls : Moved(d) => delCall'[d].op = delCall[d].op /\ delCall'[d].answer # NoAnswer,
           \A d \in DelCalls : delCall'[d].op[1] = "upload" /\ delCall'[d].answer # NoAnswer =>
                                  Moved(d) /\ delCall'[d].op = delCall[d].op,
           \A p \in Places, a \in OwnAssets : store[p].assets[a] = "none" => store'[p].assets[a] = "none",
           \A w \in Processors : \A a \in run'[w].assets : store'[Home].assets[a] # "none"
    PROVE  AssetsMade'
<1>1. \A a \in OwnAssets : Uploaded(a) => Uploaded(a)'
  BY DEF Uploaded, Moved
<1>2. \A p \in Places, a \in OwnAssets : store'[p].assets[a] # "none" => Uploaded(a)'
  BY <1>1 DEF AssetsMade
<1>3. \A c, d \in DelCalls :
          delCall'[c].op = delCall'[d].op /\ delCall'[c].op[1] = "upload" /\ Moved(c)' /\ Moved(d)' => c = d
  BY DEF AssetsMade, Moved
<1>4. \A a \in OwnAssets : store'["db"].assets[a] = "none" \/ store'["memory"].assets[a] = "none"
  BY DEF AssetsMade, Places
<1> QED
  BY <1>2, <1>3, <1>4 DEF AssetsMade

(* A call that moves on stands where its answer says. *)
LEMMA ShapeStays ==
    ASSUME TypeInv, CallShape, NEW c \in DelCalls, NEW p, NEW pc \in {"act", "persist", "audit", "done"}, NEW answer,
           Move(c, p, pc, answer),
           pc = "act" => answer = NoAnswer,
           pc = "persist" => delCall[c].op[1] # "upload" /\ answer.outcome \in {"SUCCESS", "NOT_FOUND"},
           pc = "audit" => answer.outcome = "SUCCESS"
    PROVE  CallShape'
<1>1. /\ delCall'[c].pc = pc /\ delCall'[c].answer = answer /\ delCall'[c].op = delCall[c].op
      /\ \A d \in DelCalls : d # c => delCall'[d] = delCall[d]
  BY MoveFields
<1> QED
  BY <1>1 DEF CallShape

(* The id an upload is given names nothing yet. *)
LEMMA FreshUpload ==
    ASSUME TypeInv, AssetInv, NEW c \in DelCalls, NEW p, CreateUploadPolicy(c, p)
    PROVE  /\ delCall[c].op[2] \in OwnAssets /\ delCall[c].op = <<"upload", delCall[c].op[2]>>
           /\ delCall[c].op[1] = "upload" /\ delCall[c].answer = NoAnswer
           /\ ~Uploaded(delCall[c].op[2])
           /\ \A q \in Places : store[q].assets[delCall[c].op[2]] = "none"
<1> DEFINE a == delCall[c].op[2]
<1>1. delCall[c].op \in Ops /\ delCall[c].op[1] = "upload" /\ delCall[c].pc = "act"
  BY DEF CreateUploadPolicy, Acts, TypeInv, CallsAsk
<1>2. PICK kind \in DOMAIN Targets : \E x \in Targets[kind] : delCall[c].op = <<kind, x>>
  BY <1>1 DEF Ops
<1>3. a \in OwnAssets /\ delCall[c].op = <<"upload", a>> /\ delCall[c].answer = NoAnswer
  BY <1>1, <1>2, OpTarget DEF AssetInv, CallShape
<1>4. ~Uploaded(a)
  BY <1>3 DEF CreateUploadPolicy, Uploaded, Moved
<1>5. \A q \in Places : store[q].assets[a] = "none"
  BY <1>3, <1>4 DEF AssetInv, AssetsMade
<1> QED
  BY <1>1, <1>3, <1>4, <1>5

(* What a call does keeps the assets where they are: an upload is given an *)
(* id of its own.                                                          *)
LEMMA CallStepAssets ==
    ASSUME TypeInv, AssetInv, NEW c \in DelCalls, DelCallStep(c)
    PROVE  AssetInv'
<1>0. /\ CallShape /\ AssetsMade
      /\ store \in [Places -> DelStoreType]
      /\ run \in [Processors -> RunType]
      /\ delCall[c].pc # "idle" => delCall[c].op \in Ops /\ delCall[c].key \in DelKeys
  BY DEF AssetInv, TypeInv, DelTypeOK, CallsAsk
<1>00. UNCHANGED <<mode, run>> /\ Home' = Home
  BY DEF DelCallStep, StartCall, ResolveIdempotency, CreateUploadPolicy, DeleteAsset, DeleteTaskView,
         CreateAccountDeleteRequest, PersistIdempotency, AppendAuditLog, Home
<1>000. Success(NoRequest) # NoAnswer /\ Success(NoRequest).outcome = "SUCCESS"
  BY DEF Success, NoAnswer
(* A step of which the assets know nothing. *)
<1>a. ASSUME NEW p, NEW pc \in {"act", "persist", "audit", "done"}, NEW answer, Move(c, p, pc, answer),
             answer = delCall[c].answer \/ (delCall[c].answer = NoAnswer /\ delCall[c].op[1] # "upload"),
             \A q \in Places, a \in OwnAssets : store'[q].assets[a] = "none" <=> store[q].assets[a] = "none"
      PROVE  AssetsMade'
  <2>1. /\ delCall'[c].answer = answer /\ delCall'[c].op = delCall[c].op
        /\ \A d \in DelCalls : d # c => delCall'[d] = delCall[d]
    BY <1>a, MoveFields
  <2>2. \A d \in DelCalls : Moved(d) => delCall'[d].op = delCall[d].op /\ delCall'[d].answer # NoAnswer
    BY <1>a, <2>1 DEF Moved
  <2>3. \A d \in DelCalls : delCall'[d].op[1] = "upload" /\ delCall'[d].answer # NoAnswer =>
                               Moved(d) /\ delCall'[d].op = delCall[d].op
    BY <1>a, <2>1 DEF Moved
  <2>4. \A w \in Processors : \A a \in run'[w].assets : store'[Home].assets[a] # "none"
    BY <1>0, <1>00, <1>a DEF AssetsMade, RunType, Home, Places
  <2> QED
    BY <1>0, <1>00, <1>a, <2>2, <2>3, <2>4, MadeStays
<1>1. ASSUME NEW op \in Ops, NEW k \in DelKeys, StartCall(c, op, k)
      PROVE  AssetInv'
  <2>1. /\ delCall[c].pc = "idle"
        /\ delCall'[c].pc = IF op[1] = "upload" THEN "act" ELSE "lookup"
        /\ delCall'[c].op = op /\ delCall'[c].answer = NoAnswer
        /\ \A d \in DelCalls : d # c =>
              /\ delCall'[d].pc = delCall[d].pc /\ delCall'[d].answer = delCall[d].answer
              /\ delCall'[d].op = delCall[d].op /\ delCall'[d].key = delCall[d].key
    BY <1>1, StartFields
  <2>2. store' = store
    BY <1>1 DEF StartCall
  <2>3. ~Moved(c)
    BY <1>0, <2>1 DEF CallShape, Moved
  <2>4. CallShape'
    BY <1>0, <2>1 DEF CallShape
  <2>5. \A d \in DelCalls : Moved(d) => delCall'[d].op = delCall[d].op /\ delCall'[d].answer # NoAnswer
    BY <2>1, <2>3 DEF Moved
  <2>6. \A d \in DelCalls : delCall'[d].op[1] = "upload" /\ delCall'[d].answer # NoAnswer =>
                               Moved(d) /\ delCall'[d].op = delCall[d].op
    BY <2>1 DEF Moved
  <2>7. \A w \in Processors : \A a \in run'[w].assets : store'[Home].assets[a] # "none"
    BY <1>0, <1>00, <2>2 DEF AssetsMade
  <2>8. AssetsMade'
    BY <1>0, <1>00, <2>2, <2>5, <2>6, <2>7, MadeStays
  <2> QED
    BY <2>4, <2>8 DEF AssetInv
<1>2. ASSUME NEW p \in Places, ResolveIdempotency(c, p)
      PROVE  AssetInv'
  <2>1. PICK pc \in {"act", "done"} : \E answer : Move(c, p, pc, answer) /\ (pc = "act" => answer = NoAnswer)
    BY <1>2 DEF ResolveIdempotency
  <2>1a. PICK answer : Move(c, p, pc, answer) /\ (pc = "act" => answer = NoAnswer)
    BY <2>1
  <2>2. delCall[c].answer = NoAnswer /\ delCall[c].op[1] # "upload"
    BY <1>0, <1>2 DEF ResolveIdempotency, CallShape
  <2>3. store' = store
    BY <1>2 DEF ResolveIdempotency
  <2>4. AssetsMade'
    BY <1>a, <2>1a, <2>2, <2>3
  <2>5. CallShape'
    BY <1>0, <2>1a, ShapeStays
  <2> QED
    BY <2>4, <2>5 DEF AssetInv
<1>3. ASSUME NEW p \in Places, CreateUploadPolicy(c, p)
      PROVE  AssetInv'
  <2> DEFINE a == delCall[c].op[2]
  <2>1. /\ a \in OwnAssets /\ delCall[c].op = <<"upload", a>> /\ delCall[c].op[1] = "upload"
        /\ delCall[c].answer = NoAnswer
    BY <1>3, FreshUpload
  <2>3. \A q \in Places : store[q].assets[a] = "none"
    BY <1>3, FreshUpload
  <2>4. \A q \in Places, b \in OwnAssets :
            store'[q].assets[b] = IF q = p /\ b = a THEN "active" ELSE store[q].assets[b]
    <3>1. store' = [store EXCEPT ![p].assets[a] = "active"]
      BY <1>3 DEF CreateUploadPolicy
    <3> HIDE DEF a
    <3> QED
      BY <1>0, <2>1, <3>1 DEF DelStoreType
  <2>5. Move(c, p, "audit", Success(NoRequest))
    BY <1>3 DEF CreateUploadPolicy
  <2>6. /\ delCall'[c].answer # NoAnswer /\ delCall'[c].op = delCall[c].op
        /\ \A d \in DelCalls : d # c => delCall'[d] = delCall[d]
    BY <1>000, <2>5, MoveFields
  <2>7. CallShape'
    BY <1>0, <1>000, <2>5, ShapeStays
  <2>8. \A b \in OwnAssets : (Uploaded(b) \/ b = a) => Uploaded(b)'
    BY <2>1, <2>6 DEF Uploaded, Moved
  <2>9. \A q \in Places, b \in OwnAssets : store'[q].assets[b] # "none" => Uploaded(b)'
    BY <1>0, <2>4, <2>8 DEF AssetsMade
  <2>10. \A d, e \in DelCalls :
            delCall'[d].op = delCall'[e].op /\ delCall'[d].op[1] = "upload" /\ Moved(d)' /\ Moved(e)' => d = e
    <3>1. \A d \in DelCalls : delCall[d].op = delCall[c].op => ~Moved(d)
      BY <1>3 DEF CreateUploadPolicy, Moved
    <3> QED
      BY <1>0, <2>1, <2>6, <3>1 DEF AssetsMade, Moved
  <2>11. \A b \in OwnAssets : store'["db"].assets[b] = "none" \/ store'["memory"].assets[b] = "none"
    BY <1>0, <2>3, <2>4 DEF AssetsMade, Places
  <2>12. \A w \in Processors : \A b \in run'[w].assets : store'[Home].assets[b] # "none"
    BY <1>0, <1>00, <2>4 DEF AssetsMade, RunType, Home, Places
  <2>13. AssetsMade'
    BY <1>00, <2>9, <2>10, <2>11, <2>12 DEF AssetsMade
  <2> QED
    BY <2>7, <2>13 DEF AssetInv
<1>4. ASSUME NEW p \in Places, DeleteAsset(c, p)
      PROVE  AssetInv'
  <2> DEFINE a == delCall[c].op[2]
             q == IF p = "db" /\ store["db"].assets[a] # "none" THEN "db" ELSE "memory"
  <2>1. a \in OwnAssets /\ delCall[c].op[1] # "upload" /\ delCall[c].answer = NoAnswer /\ q \in Places
    BY <1>0, <1>4, OpTarget DEF DeleteAsset, Acts, CallShape, Places
  <2>2. PICK answer : Move(c, p, "persist", answer) /\ answer.outcome \in {"SUCCESS", "NOT_FOUND"}
    <3>1. PICK answer \in {Success(NoRequest), Plain("NOT_FOUND")} : Move(c, p, "persist", answer)
      BY <1>4 DEF DeleteAsset
    <3> QED
      BY <3>1 DEF Success, Plain
  <2>3. \A x \in Places, b \in OwnAssets : store'[x].assets[b] = "none" <=> store[x].assets[b] = "none"
    <3>1. CASE UNCHANGED store
      BY <3>1
    <3>2. CASE store[q].assets[a] # "none" /\ store' = [store EXCEPT ![q].assets[a] = "deleted"]
      <4>1. \A x \in Places, b \in OwnAssets :
                store'[x].assets[b] = IF x = q /\ b = a THEN "deleted" ELSE store[x].assets[b]
        <5> HIDE DEF a, q
        <5> QED
          BY <1>0, <2>1, <3>2 DEF DelStoreType
      <4> HIDE DEF a, q
      <4> QED
        BY <3>2, <4>1
    <3> QED
      BY <1>4, <3>1, <3>2 DEF DeleteAsset
  <2>4. AssetsMade'
    BY <1>a, <2>1, <2>2, <2>3
  <2>5. CallShape'
    BY <1>0, <2>1, <2>2, ShapeStays
  <2> QED
    BY <2>4, <2>5 DEF AssetInv
<1>5. ASSUME NEW p \in Places, DeleteTaskView(c, p)
      PROVE  AssetInv'
  <2>1. delCall[c].op[1] # "upload" /\ delCall[c].answer = NoAnswer
    BY <1>0, <1>5 DEF DeleteTaskView, Acts, CallShape
  <2>2. PICK pc, answer : /\ pc \in {"persist", "done"} /\ Move(c, p, pc, answer)
                          /\ pc = "persist" => answer.outcome \in {"SUCCESS", "NOT_FOUND"}
    BY <1>5 DEF DeleteTaskView, Success, Plain
  <2>3. AssetsSame
    <3>1. PICK t : UNCHANGED store \/ store' = [store EXCEPT ![p].hidden = @ \cup {t}]
      BY <1>5 DEF DeleteTaskView
    <3>2. CASE UNCHANGED store
      BY <3>2 DEF AssetsSame
    <3>3. CASE store' = [store EXCEPT ![p].hidden = @ \cup {t}]
      BY <3>3, Writes
    <3> QED
      BY <3>1, <3>2, <3>3
  <2>4. AssetsMade'
    BY <1>a, <2>1, <2>2, <2>3 DEF AssetsSame
  <2>5. CallShape'
    BY <1>0, <2>1, <2>2, ShapeStays
  <2> QED
    BY <2>4, <2>5 DEF AssetInv
<1>6. ASSUME NEW p \in Places, NEW r \in Requests, CreateAccountDeleteRequest(c, p, r)
      PROVE  AssetInv'
  <2>1. delCall[c].op[1] # "upload" /\ delCall[c].answer = NoAnswer
    BY <1>0, <1>6 DEF CreateAccountDeleteRequest, Acts, CallShape
  <2>2. Move(c, p, "persist", Success(r)) /\ Success(r).outcome = "SUCCESS"
    BY <1>6 DEF CreateAccountDeleteRequest, Success
  <2>3. AssetsSame
    BY <1>6, Writes DEF CreateAccountDeleteRequest
  <2>4. AssetsMade'
    BY <1>a, <2>1, <2>2, <2>3 DEF AssetsSame
  <2>5. CallShape'
    BY <1>0, <2>1, <2>2, ShapeStays
  <2> QED
    BY <2>4, <2>5 DEF AssetInv
<1>7. ASSUME NEW p \in Places, PersistIdempotency(c, p)
      PROVE  AssetInv'
  <2> DEFINE pc == AfterPersist(delCall[c].answer.outcome)
             row == [op |-> delCall[c].op, answer |-> delCall[c].answer]
  <2>1. delCall[c].key \in DelKeys /\ delCall[c].answer.outcome \in {"SUCCESS", "NOT_FOUND"}
    BY <1>0, <1>7 DEF PersistIdempotency, CallShape
  <2>2. /\ pc \in {"act", "persist", "audit", "done"} /\ Move(c, p, pc, delCall[c].answer)
        /\ pc \notin {"act", "persist"} /\ (pc = "audit" => delCall[c].answer.outcome = "SUCCESS")
    BY <1>7, <2>1 DEF PersistIdempotency, AfterPersist
  <2>3. store' = [store EXCEPT ![p].keys[delCall[c].key] = row]
    BY <1>7 DEF PersistIdempotency
  <2> HIDE DEF row, pc
  <2>4. AssetsSame
    BY <2>1, <2>3, Writes
  <2>5. AssetsMade'
    BY <1>a, <2>2, <2>4 DEF AssetsSame
  <2>6. CallShape'
    BY <1>0, <2>2, ShapeStays
  <2> QED
    BY <2>5, <2>6 DEF AssetInv
<1>8. ASSUME NEW p \in Places, AppendAuditLog(c, p)
      PROVE  AssetInv'
  <2>1. Move(c, p, "done", delCall[c].answer)
    BY <1>8 DEF AppendAuditLog
  <2>2. AssetsSame
    BY <1>8, Writes DEF AppendAuditLog
  <2>3. AssetsMade'
    BY <1>a, <2>1, <2>2 DEF AssetsSame
  <2>4. CallShape'
    BY <1>0, <2>1, ShapeStays
  <2> QED
    BY <2>3, <2>4 DEF AssetInv
<1> QED
  BY <1>1, <1>2, <1>3, <1>4, <1>5, <1>6, <1>7, <1>8 DEF DelCallStep

(* A step that leaves the calls alone, and the assets a run has seen where *)
(* they are.                                                               *)
LEMMA AssetsStay ==
    ASSUME TypeInv, AssetInv, UNCHANGED <<mode, delCall>>,
           \A p \in Places, a \in OwnAssets : store[p].assets[a] = "none" => store'[p].assets[a] = "none",
           \A w \in Processors : \A a \in run'[w].assets : store'[Home].assets[a] # "none"
    PROVE  AssetInv'
<1>1. Home' = Home
  BY DEF Home
<1>2. AssetsMade'
  BY <1>1, MadeStays DEF AssetInv, Moved
<1>3. CallShape'
  BY DEF AssetInv, CallShape
<1> QED
  BY <1>2, <1>3 DEF AssetInv

(* A run takes no asset from where it has seen it. *)
LEMMA RunStepAssets ==
    ASSUME TypeInv, AssetInv, NEW w \in Processors, RunStep(w) \/ RollBackRun(w) \/ StopRun(w)
    PROVE  AssetInv'
<1>0. /\ AssetsMade /\ Home \in Places
      /\ store \in [Places -> DelStoreType] /\ run \in [Processors -> RunType]
      /\ run[w].pc = "scan" <=> run[w].req = NoRequest
  BY DEF AssetInv, TypeInv, DelTypeOK, Home, Places
<1>1. UNCHANGED <<mode, delCall>>
  BY DEF RunStep, Scan, Claim, SelectAssets, SelectTasks, Commit, MarkFailed, AuditRun, RollBackRun, StopRun
<1>2. \A p \in Places, a \in OwnAssets : store'[p].assets[a] = "none" <=> store[p].assets[a] = "none"
  <2>1. CASE UNCHANGED store
    BY <2>1
  <2>2. ASSUME NEW r, NEW s, NEW p \in Places, store' = [store EXCEPT ![p].requests[r] = s]
        PROVE  AssetsSame
    BY <1>0, <2>2 DEF AssetsSame, DelStoreType
  <2>3. ASSUME NEW x, NEW p \in Places, store' = [store EXCEPT ![p].audit = @ \cup {x}]
        PROVE  AssetsSame
    BY <2>3, Writes, Zenon
  <2>4. ASSUME Commit(w)
        PROVE  \A p \in Places, a \in OwnAssets : store'[p].assets[a] = "none" <=> store[p].assets[a] = "none"
    <3>1. store[Home] \in DelStoreType
      BY <1>0
    <3>2. Erased(w).assets = [a \in OwnAssets |-> IF a \in run[w].assets THEN "deleted" ELSE store[Home].assets[a]]
      BY <3>1 DEF Erased, DelStoreType
    <3>3. \A p \in Places : store'[p] = IF p = Home THEN Erased(w) ELSE store[p]
      BY <1>0, <2>4 DEF Commit
    <3>4. \A a \in run[w].assets : store[Home].assets[a] # "none"
      BY <1>0 DEF AssetsMade
    <3> QED
      BY <3>2, <3>3, <3>4
  <2>4a. ASSUME store' = [store EXCEPT ![Home] = AssetsErased(Active)]
         PROVE  \A p \in Places, a \in OwnAssets : store'[p].assets[a] = "none" <=> store[p].assets[a] = "none"
    <3>1. AssetsErased(Active).assets = [a \in OwnAssets |-> IF a \in Active THEN "deleted" ELSE store[Home].assets[a]]
      BY <1>0 DEF AssetsErased, DelStoreType
    <3>2. \A p \in Places : store'[p] = IF p = Home THEN AssetsErased(Active) ELSE store[p]
      BY <1>0, <2>4a
    <3> QED
      BY <3>1, <3>2 DEF Active
  <2>5. \/ UNCHANGED store \/ Commit(w) \/ store' = [store EXCEPT ![Home] = AssetsErased(Active)]
        \/ \E r, s : store' = [store EXCEPT ![Home].requests[r] = s]
        \/ \E x : store' = [store EXCEPT ![Home].audit = @ \cup {x}]
    BY DEF RunStep, Scan, Claim, SelectAssets, SelectTasks, MarkFailed, AuditRun, RollBackRun, StopRun
  <2>6. UNCHANGED store \/ Commit(w) \/ store' = [store EXCEPT ![Home] = AssetsErased(Active)] \/ AssetsSame
    BY <1>0, <2>2, <2>3, <2>5, Zenon
  <2>7. AssetsSame => \A p \in Places, a \in OwnAssets : store'[p].assets[a] = "none" <=> store[p].assets[a] = "none"
    BY DEF AssetsSame
  <2> QED
    BY <2>1, <2>4, <2>4a, <2>6, <2>7, Zenon
<1>3. \A v \in Processors : run'[v].assets \subseteq run[v].assets \cup Active
  <2>1. /\ \A some : [run EXCEPT ![w].todo = some][w].assets = run[w].assets
        /\ [run EXCEPT ![w].pc = "tasks", ![w].assets = Active][w].assets = Active
        /\ [run EXCEPT ![w].pc = "commit", ![w].tasks = tasks][w].assets = run[w].assets
        /\ \A pc : [run EXCEPT ![w].pc = pc][w].assets = run[w].assets
        /\ \A some : [IdleRun EXCEPT !.todo = some].assets = {} /\ IdleRun.assets = {}
    BY <1>0 DEF RunType, IdleRun
  <2>2. run'[w].assets \subseteq run[w].assets \cup Active
    <3>1. CASE RunStep(w)
      <4>1. CASE Scan(w)
        <5>1. PICK some : run' = [run EXCEPT ![w].todo = some]
          BY <4>1 DEF Scan
        <5> QED
          BY <2>1, <5>1
      <4>1a. ASSUME NEW r \in Requests, Claim(w, r)
             PROVE  run'[w].assets \subseteq run[w].assets \cup Active
        <5>1. PICK some : \/ run' = [run EXCEPT ![w].todo = some]
                          \/ run' = [run EXCEPT ![w].pc = "assets", ![w].req = r, ![w].todo = some]
          BY <4>1a DEF Claim
        <5>2. run'[w].assets = run[w].assets
          <6>1. CASE run' = [run EXCEPT ![w].todo = some]
            BY <2>1, <6>1
          <6>2. CASE run' = [run EXCEPT ![w].pc = "assets", ![w].req = r, ![w].todo = some]
            BY <1>0, <6>2 DEF RunType
          <6> QED
            BY <5>1, <6>1, <6>2
        <5> QED
          BY <5>2
      <4>2. CASE SelectAssets(w)
        <5>1. run' = [run EXCEPT ![w].pc = "tasks", ![w].assets = Active]
          BY <4>2 DEF SelectAssets
        <5> QED
          BY <2>1, <5>1
      <4>2a. CASE SelectTasks(w)
        <5>1. run' = [run EXCEPT ![w].pc = "commit", ![w].tasks = tasks]
          BY <4>2a DEF SelectTasks
        <5> QED
          BY <2>1, <5>1
      <4>2b. CASE Commit(w) \/ MarkFailed(w)
        <5>1. PICK pc : run' = [run EXCEPT ![w].pc = pc]
          BY <4>2b DEF Commit, MarkFailed
        <5> QED
          BY <2>1, <5>1
      <4>3. CASE \E p \in Places : AuditRun(w, p)
        BY <1>0, <2>1, <4>3 DEF AuditRun, RunType
      <4> QED
        BY <3>1, <4>1, <4>1a, <4>2, <4>2a, <4>2b, <4>3 DEF RunStep
    <3>2. CASE RollBackRun(w) \/ StopRun(w)
      BY <1>0, <2>1, <3>2 DEF RollBackRun, StopRun, RunType
    <3> QED
      BY <3>1, <3>2
  <2>3. \A v \in Processors : v # w => run'[v] = run[v]
    <3>1. CASE RunStep(w)
      BY <1>0, <3>1 DEF RunStep, Scan, Claim, SelectAssets, SelectTasks, Commit, MarkFailed, AuditRun
    <3>2. CASE RollBackRun(w) \/ StopRun(w)
      BY <1>0, <3>2 DEF RollBackRun, StopRun
    <3> QED
      BY <3>1, <3>2
  <2> QED
    BY <2>2, <2>3
<1>4. \A v \in Processors : \A a \in run'[v].assets : a \in OwnAssets /\ store'[Home].assets[a] # "none"
  BY <1>0, <1>2, <1>3 DEF AssetsMade, Active, RunType
<1> QED
  BY <1>1, <1>2, <1>4, AssetsStay

(* A restart ends the runs that have seen what it loses. *)
LEMMA RestartAssets ==
    ASSUME TypeInv, AssetInv, RestartGateway
    PROVE  AssetInv'
<1>0. /\ AssetsMade /\ CallShape /\ Home' = Home /\ UNCHANGED mode
      /\ store \in [Places -> DelStoreType] /\ run \in [Processors -> RunType]
      /\ mode \in {"prisma", "memory"}
  BY DEF AssetInv, TypeInv, DelTypeOK, Home, RestartGateway
<1>1. \A c \in DelCalls :
          /\ delCall'[c].pc = IF InCall(c) THEN "lost" ELSE delCall[c].pc
          /\ delCall'[c].answer = delCall[c].answer
          /\ delCall'[c].op = delCall[c].op /\ delCall'[c].key = delCall[c].key
  BY RestartFields
<1>2. CallShape'
  BY <1>0, <1>1 DEF CallShape
<1>3. store'["memory"] = EmptyStore /\ store'["db"] = store["db"]
  BY <1>0 DEF RestartGateway, Places
<1>4. \A p \in Places, a \in OwnAssets : store[p].assets[a] = "none" => store'[p].assets[a] = "none"
  BY <1>3 DEF Places, EmptyStore
<1>5. \A w \in Processors : \A a \in run'[w].assets : store'[Home].assets[a] # "none"
  <2>1. CASE mode = "prisma"
    BY <1>0, <1>3, <2>1 DEF RestartGateway, Home, AssetsMade
  <2>2. CASE mode = "memory"
    BY <2>2 DEF RestartGateway, IdleRun
  <2> QED
    BY <1>0, <2>1, <2>2
<1>6. AssetsMade'
  BY <1>0, <1>1, <1>4, <1>5, MadeStays DEF Moved
<1> QED
  BY <1>2, <1>6 DEF AssetInv

(* Every step keeps the invariant of the assets. *)
LEMMA AssetStep ==
    ASSUME TypeInv, AssetInv, [DelNext]_delVars
    PROVE  AssetInv'
<1>1. ASSUME UNCHANGED <<mode, store, delCall, run>>
      PROVE  AssetInv'
  <2>1. \A w \in Processors : \A a \in run'[w].assets : store'[Home].assets[a] # "none"
    BY <1>1 DEF AssetInv, AssetsMade
  <2> QED
    BY <1>1, <2>1, AssetsStay
<1>2. ASSUME NEW c \in DelCalls, DelCallStep(c)
      PROVE  AssetInv'
  BY <1>2, CallStepAssets
<1>3. ASSUME NEW w \in Processors, RunStep(w) \/ RollBackRun(w) \/ StopRun(w)
      PROVE  AssetInv'
  BY <1>3, RunStepAssets
<1>4. ASSUME NEW t \in OwnTasks, CreateTask(t)
      PROVE  AssetInv'
  BY <1>1, <1>4 DEF CreateTask
<1>5. CASE RestartGateway
  BY <1>5, RestartAssets
<1>6. CASE Tick \/ UNCHANGED delVars
  BY <1>1, <1>6 DEF Tick, delVars
<1> QED
  BY <1>2, <1>3, <1>4, <1>5, <1>6 DEF DelNext

-----------------------------------------------------------------------------
(* The invariant of the runs.                                              *)

(* What a call makes of the tables: it makes requests that were not there, *)
(* and an asset that was there stays or is deleted.                        *)
CallFrame ==
    /\ UNCHANGED <<mode, tasks, run, covered, orphan>>
    /\ \A r \in Requests :
          /\ eta[r] # 0 => /\ eta'[r] # 0
                           /\ \A p \in Places : store'[p].requests[r] = store[p].requests[r]
          /\ eta'[r] = 0 => \A p \in Places : store'[p].requests[r] = store[p].requests[r]
          /\ eta[r] = 0 => \A p \in Places : store'[p].requests[r] \in {store[p].requests[r], "PENDING"}
    /\ \A p \in Places, a \in OwnAssets :
          /\ store[p].assets[a] # "none" => store'[p].assets[a] # "none"
          /\ store[p].assets[a] = "deleted" => store'[p].assets[a] = "deleted"
    /\ \A p \in Places : store[p].hidden \subseteq store'[p].hidden

LEMMA CallFrames ==
    ASSUME TypeInv, AssetInv, NEW c \in DelCalls, DelCallStep(c)
    PROVE  CallFrame
<1>0. /\ store \in [Places -> DelStoreType]
      /\ eta \in [Requests -> 0..(LastTick + Sla)]
      /\ clock \in Nat /\ Sla \in Nat \ {0}
      /\ delCall[c].pc # "idle" => delCall[c].op \in Ops /\ delCall[c].key \in DelKeys
  BY DeletionAssumption DEF TypeInv, DelTypeOK, CallsAsk
<1>1. ASSUME UNCHANGED <<mode, store, tasks, eta, run, covered, orphan>>
      PROVE  CallFrame
  BY <1>1 DEF CallFrame
<1>1a. ASSUME NEW p \in Places, NEW place,
              store' = [store EXCEPT ![p] = place],
              place.requests = store[p].requests, place.assets = store[p].assets,
              store[p].hidden \subseteq place.hidden,
              UNCHANGED <<mode, tasks, eta, run, covered, orphan>>
       PROVE  CallFrame
  <2>1. \A q \in Places : /\ store'[q].requests = store[q].requests
                          /\ store'[q].assets = store[q].assets
                          /\ store[q].hidden \subseteq store'[q].hidden
    BY <1>0, <1>1a
  <2> QED
    BY <1>1a, <2>1 DEF CallFrame
<1>2. ASSUME NEW p \in Places, CreateUploadPolicy(c, p)
      PROVE  CallFrame
  <2>1. delCall[c].op[2] \in OwnAssets
    BY <1>2, <1>0, OpTarget DEF CreateUploadPolicy, Acts
  <2>2. \A q \in Places : store[q].assets[delCall[c].op[2]] = "none"
    BY <1>0, <1>2, <2>1, FreshUpload
  <2>3. store' = [store EXCEPT ![p].assets[delCall[c].op[2]] = "active"]
        /\ UNCHANGED <<mode, tasks, eta, run, covered, orphan>>
    BY <1>2 DEF CreateUploadPolicy
  <2> QED
    BY <1>0, <2>1, <2>2, <2>3 DEF CallFrame, DelStoreType
<1>3. ASSUME NEW p \in Places, DeleteAsset(c, p)
      PROVE  CallFrame
  <2>1. delCall[c].op[2] \in OwnAssets
    BY <1>3, <1>0, OpTarget DEF DeleteAsset, Acts
  <2>2. PICK q \in Places : UNCHANGED store \/ store' = [store EXCEPT ![q].assets[delCall[c].op[2]] = "deleted"]
    BY <1>3 DEF DeleteAsset, Places
  <2>3. CASE UNCHANGED store
    BY <1>1, <1>3, <2>3 DEF DeleteAsset
  <2>4. CASE store' = [store EXCEPT ![q].assets[delCall[c].op[2]] = "deleted"]
    <3>1. \A x \in Places : /\ store'[x].requests = store[x].requests
                            /\ store'[x].assets = IF x = q THEN [store[q].assets EXCEPT ![delCall[c].op[2]] = "deleted"]
                                                  ELSE store[x].assets
                            /\ store'[x].hidden = store[x].hidden
      BY <1>0, <2>4 DEF DelStoreType
    <3>2. \A x \in Places : store[x].assets \in [OwnAssets -> {"none", "active", "deleted"}]
      BY <1>0 DEF DelStoreType
    <3>3. UNCHANGED <<mode, tasks, eta, run, covered, orphan>>
      BY <1>3 DEF DeleteAsset
    <3> QED
      BY <2>1, <3>1, <3>2, <3>3 DEF CallFrame
  <2> QED
    BY <2>2, <2>3, <2>4
<1>4. ASSUME NEW p \in Places, DeleteTaskView(c, p)
      PROVE  CallFrame
  <2>1. CASE UNCHANGED store
    BY <1>1, <1>4, <2>1 DEF DeleteTaskView
  <2>2. CASE store' = [store EXCEPT ![p].hidden = @ \cup {delCall[c].op[2]}]
    <3> DEFINE place == [store[p] EXCEPT !.hidden = @ \cup {delCall[c].op[2]}]
    <3>1. store' = [store EXCEPT ![p] = place]
      BY <2>2
    <3>2. place.requests = store[p].requests /\ place.assets = store[p].assets
      BY <1>0 DEF DelStoreType
    <3>3. store[p].hidden \subseteq place.hidden
      BY <1>0 DEF DelStoreType
    <3> HIDE DEF place
    <3> QED
      BY <1>1a, <1>4, <3>1, <3>2, <3>3 DEF DeleteTaskView
  <2> QED
    BY <1>4, <2>1, <2>2 DEF DeleteTaskView
<1>5. ASSUME NEW p \in Places, NEW r \in Requests, CreateAccountDeleteRequest(c, p, r)
      PROVE  CallFrame
  <2>1. \A q \in Places : /\ store'[q].requests = IF q = p THEN [store[p].requests EXCEPT ![r] = "PENDING"]
                                                  ELSE store[q].requests
                          /\ store'[q].assets = store[q].assets
                          /\ store'[q].hidden = store[q].hidden
    BY <1>0, <1>5 DEF CreateAccountDeleteRequest, DelStoreType
  <2>2. \A q \in Places : store[q].requests \in [Requests -> ReqStatus]
    BY <1>0 DEF DelStoreType
  <2>3. eta[r] = 0 /\ eta' = [eta EXCEPT ![r] = clock + Sla] /\ clock + Sla # 0
    BY <1>0, <1>5 DEF CreateAccountDeleteRequest
  <2>4. UNCHANGED <<mode, tasks, run, covered, orphan>>
    BY <1>5 DEF CreateAccountDeleteRequest
  <2> QED
    BY <1>0, <2>1, <2>2, <2>3, <2>4 DEF CallFrame
<1>6. ASSUME NEW p \in Places, PersistIdempotency(c, p)
      PROVE  CallFrame
  <2> DEFINE keys == [store[p].keys EXCEPT ![delCall[c].key] =
                         [op |-> delCall[c].op, answer |-> delCall[c].answer]]
             place == [store[p] EXCEPT !.keys = keys]
  <2>1. store' = [store EXCEPT ![p].keys = keys]
    BY <1>6 DEF PersistIdempotency
  <2> HIDE DEF keys
  <2>2. store' = [store EXCEPT ![p] = place]
    BY <2>1
  <2>3. /\ place.requests = store[p].requests /\ place.assets = store[p].assets
        /\ place.hidden = store[p].hidden
    BY <1>0 DEF DelStoreType
  <2> HIDE DEF place
  <2> QED
    BY <1>1a, <1>6, <2>2, <2>3 DEF PersistIdempotency
<1>7. ASSUME NEW p \in Places, AppendAuditLog(c, p)
      PROVE  CallFrame
  <2> DEFINE place == [store[p] EXCEPT !.audit = @ \cup {c}]
  <2>1. store' = [store EXCEPT ![p] = place]
    BY <1>7 DEF AppendAuditLog
  <2>2. /\ place.requests = store[p].requests /\ place.assets = store[p].assets
        /\ place.hidden = store[p].hidden
    BY <1>0 DEF DelStoreType
  <2> HIDE DEF place
  <2> QED
    BY <1>1a, <1>7, <2>1, <2>2 DEF AppendAuditLog
<1>8. ASSUME NEW op, NEW k, StartCall(c, op, k)
      PROVE  CallFrame
  BY <1>1, <1>8 DEF StartCall
<1>9. ASSUME NEW p, ResolveIdempotency(c, p)
      PROVE  CallFrame
  BY <1>1, <1>9 DEF ResolveIdempotency
<1> QED
  BY <1>2, <1>3, <1>4, <1>5, <1>6, <1>7, <1>8, <1>9 DEF DelCallStep

(* A call disturbs nothing a run relies on. *)
LEMMA CallKeepsRuns ==
    ASSUME TypeInv, TypeInv', RunInv, CallFrame
    PROVE  RunInv'
<1> USE DEF Places
<1>0. /\ Home' = Home /\ Home \in Places
      /\ store \in [Places -> DelStoreType] /\ store' \in [Places -> DelStoreType]
      /\ covered \in [Requests -> [assets : SUBSET OwnAssets, tasks : SUBSET OwnTasks]]
      /\ run \in [Processors -> RunType] /\ orphan \subseteq Requests
      /\ \A w \in Processors : run[w].pc = "scan" <=> run[w].req = NoRequest
  BY DEF CallFrame, Home, TypeInv, DelTypeOK
<1>1. \A r \in Requests : StatusOf(r) # "none" => StatusOf(r)' = StatusOf(r)
  BY <1>0 DEF CallFrame, RunInv, Unmade, StatusOf
<1>2. \A r \in Requests : StatusOf(r) = "none" => StatusOf(r)' \in {"none", "PENDING"}
  BY <1>0 DEF CallFrame, RunInv, Unmade, StatusOf
<1>3. Unmade'
  BY DEF CallFrame, RunInv, Unmade
<1>4. RunsTaken'
  BY <1>0, <1>1 DEF CallFrame, RunInv, RunsTaken, Taken, RunType
<1>5. ClaimedByOne'
  BY <1>0, <1>1 DEF CallFrame, RunInv, ClaimedByOne, RunType
<1>6. InFlight'
  <2> SUFFICES ASSUME NEW w \in Processors, run[w].pc \in {"assets", "tasks", "commit"}
               PROVE  LET r == run[w].req
                      IN  /\ covered[r].tasks \subseteq tasks
                          /\ \A a \in covered[r].assets : store'[Home].assets[a] # "none"
                          /\ run[w].pc \in {"tasks", "commit"} =>
                                \A a \in covered[r].assets :
                                    a \in run[w].assets \/ store'[Home].assets[a] = "deleted"
                          /\ run[w].pc = "commit" => covered[r].tasks \subseteq run[w].tasks
    BY <1>0 DEF CallFrame, InFlight
  <2>1. run[w].req \in Requests /\ covered[run[w].req].assets \subseteq OwnAssets
    BY <1>0 DEF RunType
  <2> QED
    BY <1>0, <2>1 DEF CallFrame, RunInv, InFlight
<1>7. DoneIsComplete'
  BY <1>0, <1>1, <1>2 DEF CallFrame, RunInv, DoneIsComplete
<1> QED
  BY <1>3, <1>4, <1>5, <1>6, <1>7 DEF RunInv

(* A step of one run. *)
LEMMA RunStepInv ==
    ASSUME TypeInv, TypeInv', RunInv, NEW w \in Processors, RunStep(w) \/ RollBackRun(w) \/ StopRun(w)
    PROVE  RunInv'
<1> USE DEF Places
<1>0. /\ Home \in Places
      /\ store \in [Places -> DelStoreType] /\ store' \in [Places -> DelStoreType]
      /\ covered \in [Requests -> [assets : SUBSET OwnAssets, tasks : SUBSET OwnTasks]]
      /\ run \in [Processors -> RunType] /\ orphan \subseteq Requests
      /\ \A v \in Processors : run[v].pc = "scan" <=> run[v].req = NoRequest
      /\ NoRequest \notin Requests
  BY DeletionAssumption DEF Home, TypeInv, DelTypeOK
<1>00. UNCHANGED <<mode, tasks, eta>> /\ Home' = Home
  BY DEF RunStep, Scan, Claim, SelectAssets, SelectTasks, Commit, MarkFailed, AuditRun, RollBackRun, StopRun, Home
<1>000. \A v \in Processors : run[v].pc # "scan" => run[v].req \in Requests
  BY <1>0 DEF RunType
(* A step that moves the run's pc and leaves its request and the statuses. *)
<1>a. ASSUME \A p \in Places : /\ store'[p].requests = store[p].requests
                               /\ store'[p].hidden = store[p].hidden
                               /\ \A a \in OwnAssets : store[p].assets[a] = "deleted" =>
                                                          store'[p].assets[a] = "deleted",
             UNCHANGED <<covered, orphan>>,
             \A v \in Processors \ {w} : run'[v] = run[v],
             run'[w].req = run[w].req \/ run'[w].req = NoRequest,
             run'[w].pc \in {"assets", "tasks", "commit"} => /\ run'[w].req = run[w].req
                                                             /\ run[w].pc \in {"assets", "tasks", "commit"},
             InFlight'
      PROVE  RunInv'
  <2>1. \A r \in Requests : StatusOf(r)' = StatusOf(r)
    BY <1>0, <1>00, <1>a DEF StatusOf
  <2>2. Unmade'
    BY <1>00, <1>a DEF RunInv, Unmade
  <2>3. RunsTaken'
    <3>1. \A r \in Requests : Taken(r) => Taken(r)'
      BY <2>1 DEF Taken
    <3>2. \A v \in Processors : run'[v].req # NoRequest => run'[v].req = run[v].req /\ run[v].req \in Requests
      BY <1>0, <1>000, <1>a
    <3>3. \A v \in Processors : run'[v].req # NoRequest => Taken(run[v].req)'
      BY <3>1, <3>2 DEF RunInv, RunsTaken, Taken, StatusOf
    <3>4. \A r \in orphan' : Taken(r)'
      BY <1>0, <1>a, <3>1 DEF RunInv, RunsTaken
    <3>5. mode' = "memory" => orphan' = {}
      BY <1>00, <1>a DEF RunInv, RunsTaken
    <3> QED
      BY <3>3, <3>4, <3>5 DEF RunsTaken
  <2>4. ClaimedByOne'
    BY <1>0, <1>00, <1>000, <1>a, <2>1 DEF RunInv, ClaimedByOne
  <2>5. DoneIsComplete'
    <3>1. \A r \in Requests : covered'[r] = covered[r] /\ covered[r].assets \subseteq OwnAssets
      BY <1>0, <1>a
    <3>2. store'[Home].hidden = store[Home].hidden
      BY <1>0, <1>a
    <3>3. \A a \in OwnAssets : store[Home].assets[a] = "deleted" => store'[Home].assets[a] = "deleted"
      BY <1>0, <1>a
    <3> QED
      BY <1>0, <1>00, <2>1, <3>1, <3>2, <3>3 DEF RunInv, DoneIsComplete
  <2> QED
    BY <1>a, <2>2, <2>3, <2>4, <2>5 DEF RunInv
<1>1. CASE Scan(w)
  <2>1. InFlight'
    BY <1>0, <1>00, <1>1 DEF Scan, RunInv, InFlight, RunType, IdleRun
  <2> QED
    BY <1>0, <1>00, <1>1, <1>a, <2>1 DEF Scan, RunType, IdleRun
<1>2. ASSUME NEW r \in Requests, Claim(w, r), ~Claimable(r)
      PROVE  RunInv'
  <2>1. InFlight'
    BY <1>0, <1>00, <1>2, SMTT(30) DEF Claim, RunInv, InFlight, RunType
  <2> QED
    BY <1>0, <1>00, <1>2, <1>a, <2>1 DEF Claim, RunType
<1>3. ASSUME NEW r \in Requests, Claim(w, r), Claimable(r)
      PROVE  RunInv'
  <2>1. /\ run[w].pc = "scan" /\ StatusOf(r) = "PENDING"
        /\ store' = [store EXCEPT ![Home].requests[r] = "PROCESSING"]
        /\ covered' = [covered EXCEPT ![r] = [assets |-> Active, tasks |-> tasks]]
        /\ run'[w].pc = "assets" /\ run'[w].req = r
        /\ \A v \in Processors \ {w} : run'[v] = run[v]
        /\ UNCHANGED orphan
    BY <1>0, <1>3 DEF Claim, Claimable, RunType
  <2>2. /\ \A p \in Places : /\ store'[p].assets = store[p].assets
                             /\ store'[p].hidden = store[p].hidden
        /\ \A p \in Places : store'[p].requests =
               IF p = Home THEN [store[p].requests EXCEPT ![r] = "PROCESSING"] ELSE store[p].requests
        /\ \A p \in Places : store[p].requests \in [Requests -> ReqStatus]
    BY <1>0, <2>1 DEF DelStoreType
  <2>3. /\ StatusOf(r)' = "PROCESSING"
        /\ \A x \in Requests \ {r} : StatusOf(x)' = StatusOf(x)
    BY <1>0, <1>00, <2>2 DEF StatusOf
  <2>4. r \notin orphan /\ \A v \in Processors : run[v].req # r
    BY <2>1, <1>0 DEF RunInv, RunsTaken, Taken
  <2>5. eta[r] # 0
    BY <1>0, <2>1 DEF RunInv, Unmade, StatusOf
  <2>6. Unmade'
    BY <1>0, <1>00, <2>2, <2>5 DEF RunInv, Unmade
  <2>7. RunsTaken'
    <3>1. \A x \in Requests : Taken(x) \/ x = r => Taken(x)'
      BY <2>3 DEF Taken
    <3>2. \A v \in Processors : run'[v].req # NoRequest =>
              run'[v].req \in Requests /\ (run'[v].req = r \/ Taken(run'[v].req))
      BY <1>0, <1>000, <2>1 DEF RunInv, RunsTaken
    <3>3. \A v \in Processors : run'[v].req # NoRequest => Taken(run[v].req)'
      BY <3>1, <3>2 DEF Taken, StatusOf
    <3>4. \A x \in orphan' : Taken(x)'
      BY <1>0, <2>1, <3>1 DEF RunInv, RunsTaken
    <3>5. mode' = "memory" => orphan' = {}
      BY <1>00, <2>1 DEF RunInv, RunsTaken
    <3> QED
      BY <3>3, <3>4, <3>5 DEF RunsTaken
  <2>8. ClaimedByOne'
    BY <1>0, <1>00, <1>000, <2>1, <2>3, <2>4 DEF RunInv, ClaimedByOne
  <2>9. covered'[r].tasks = tasks /\ covered'[r].assets = Active /\ \A x \in Requests \ {r} : covered'[x] = covered[x]
    BY <1>0, <2>1
  <2>10. InFlight'
    <3>1. \A v \in Processors \ {w} : run'[v] = run[v] /\ (run[v].pc # "scan" => run[v].req \in Requests \ {r})
      BY <1>000, <2>1, <2>4
    <3>2. \A a \in Active : store'[Home].assets[a] # "none"
      BY <1>0, <2>2 DEF Active
    <3> QED
      BY <1>0, <1>00, <2>1, <2>2, <2>9, <3>1, <3>2 DEF RunInv, InFlight
  <2>11. DoneIsComplete'
    BY <1>0, <1>00, <2>2, <2>3, <2>9 DEF RunInv, DoneIsComplete
  <2> QED
    BY <2>6, <2>7, <2>8, <2>10, <2>11 DEF RunInv
<1>4. CASE SelectAssets(w)
  <2>1. /\ run[w].pc = "assets" /\ run'[w].pc = "tasks" /\ run'[w].req = run[w].req /\ run'[w].assets = Active
        /\ \A v \in Processors \ {w} : run'[v] = run[v]
        /\ UNCHANGED <<covered, orphan>>
    BY <1>0, <1>4 DEF SelectAssets, RunType
  <2>1a. \A p \in Places :
            /\ store'[p].requests = store[p].requests /\ store'[p].hidden = store[p].hidden
            /\ \A a \in OwnAssets : store'[p].assets[a] = store[p].assets[a]
                                    \/ (store[p].assets[a] = "active" /\ store'[p].assets[a] = "deleted")
    <3>1. store' = store \/ store' = [store EXCEPT ![Home] = AssetsErased(Active)]
      BY <1>4 DEF SelectAssets
    <3>2. /\ AssetsErased(Active).assets = [a \in OwnAssets |-> IF a \in Active THEN "deleted" ELSE store[Home].assets[a]]
          /\ AssetsErased(Active).requests = store[Home].requests /\ AssetsErased(Active).hidden = store[Home].hidden
      BY <1>0 DEF AssetsErased, DelStoreType
    <3> QED
      BY <1>0, <3>1, <3>2 DEF Active
  <2>2. \A a \in OwnAssets : store[Home].assets[a] \in {"none", "active", "deleted"}
    BY <1>0 DEF DelStoreType
  <2>3. covered[run[w].req].assets \subseteq OwnAssets
    BY <1>0, <1>000, <2>1
  <2>4. InFlight'
    BY <1>0, <1>00, <1>000, <2>1, <2>1a, <2>2, <2>3 DEF RunInv, InFlight, Active
  <2> QED
    BY <1>a, <2>1, <2>1a, <2>4
<1>5. CASE SelectTasks(w)
  <2>1. /\ run[w].pc = "tasks" /\ run'[w].pc = "commit" /\ run'[w].req = run[w].req
        /\ run'[w].tasks = tasks /\ run'[w].assets = run[w].assets
        /\ \A v \in Processors \ {w} : run'[v] = run[v]
        /\ UNCHANGED <<store, covered, orphan>>
    BY <1>0, <1>5 DEF SelectTasks, RunType
  <2>2. InFlight'
    BY <1>00, <2>1 DEF RunInv, InFlight
  <2> QED
    BY <1>a, <2>1, <2>2
<1>6. CASE RollBackRun(w)
  <2>1. /\ run[w].pc # "scan" /\ run'[w].pc = "failed" /\ run'[w].req = run[w].req
        /\ \A v \in Processors \ {w} : run'[v] = run[v]
        /\ UNCHANGED <<store, covered, orphan>>
    BY <1>0, <1>6 DEF RollBackRun, RunType
  <2>2. InFlight'
    BY <1>00, <2>1 DEF RunInv, InFlight
  <2> QED
    BY <1>a, <2>1, <2>2
<1>7. ASSUME NEW p \in Places, AuditRun(w, p)
      PROVE  RunInv'
  <2>1. /\ run'[w].pc = "scan" /\ run'[w].req = NoRequest
        /\ \A v \in Processors \ {w} : run'[v] = run[v]
        /\ UNCHANGED <<covered, orphan>>
    BY <1>0, <1>7 DEF AuditRun, RunType, IdleRun
  <2>2. \A q \in Places : /\ store'[q].requests = store[q].requests
                          /\ store'[q].assets = store[q].assets
                          /\ store'[q].hidden = store[q].hidden
    BY <1>0, <1>7 DEF AuditRun, DelStoreType
  <2>3. InFlight'
    BY <1>0, <1>00, <2>1, <2>2 DEF RunInv, InFlight
  <2> QED
    BY <1>a, <2>1, <2>2, <2>3
<1>8. CASE StopRun(w)
  <2>1. /\ run'[w].pc = "scan" /\ run'[w].req = NoRequest
        /\ \A v \in Processors \ {w} : run'[v] = run[v]
        /\ UNCHANGED <<covered, store>> /\ mode = "prisma"
        /\ orphan' \subseteq orphan \cup {run[w].req} /\ (run[w].req = NoRequest => orphan' = orphan)
    BY <1>0, <1>8 DEF StopRun, RunType, IdleRun
  <2>2. \A r \in Requests : StatusOf(r)' = StatusOf(r)
    BY <1>0, <1>00, <2>1 DEF StatusOf
  <2>3. InFlight'
    BY <1>0, <1>00, <2>1 DEF RunInv, InFlight
  <2>4. Unmade'
    BY <1>00, <2>1 DEF RunInv, Unmade
  <2>5. RunsTaken'
    BY <1>0, <1>00, <1>000, <2>1, <2>2 DEF RunInv, RunsTaken, Taken, RunType
  <2>6. ClaimedByOne'
    BY <1>0, <1>00, <1>000, <2>1, <2>2 DEF RunInv, ClaimedByOne
  <2>7. DoneIsComplete'
    BY <1>00, <2>1, <2>2 DEF RunInv, DoneIsComplete
  <2> QED
    BY <2>3, <2>4, <2>5, <2>6, <2>7 DEF RunInv
<1>9. CASE Commit(w)
  <2> DEFINE r == run[w].req
  <2>1. /\ run[w].pc = "commit" /\ run'[w].pc \in {"audit", "failed"} /\ run'[w].req = r
        /\ \A v \in Processors \ {w} : run'[v] = run[v]
        /\ UNCHANGED <<covered, orphan>>
    BY <1>0, <1>9 DEF Commit, RunType
  <2>2. r \in Requests /\ StatusOf(r) = "PROCESSING" /\ \A v \in Processors \ {w} : run[v].req # r
    BY <1>0, <1>000, <2>1 DEF RunInv, ClaimedByOne
  <2>3. /\ \A p \in Places : store'[p].requests =
               IF p = Home THEN [store[p].requests EXCEPT ![r] = "DONE"] ELSE store[p].requests
        /\ \A p \in Places : store[p].requests \in [Requests -> ReqStatus]
        /\ store'[Home].assets = [a \in OwnAssets |-> IF a \in run[w].assets THEN "deleted" ELSE store[Home].assets[a]]
        /\ store'[Home].hidden = store[Home].hidden \cup run[w].tasks
    <3>1. store' = [store EXCEPT ![Home] = Erased(w)]
      BY <1>9 DEF Commit
    <3>2. store[Home] \in DelStoreType
      BY <1>0
    <3>3. /\ Erased(w).requests = [store[Home].requests EXCEPT ![r] = "DONE"]
          /\ Erased(w).assets = [a \in OwnAssets |-> IF a \in run[w].assets THEN "deleted" ELSE store[Home].assets[a]]
          /\ Erased(w).hidden = store[Home].hidden \cup run[w].tasks
      BY <3>2 DEF Erased, DelStoreType
    <3>4. \A p \in Places : store[p].requests \in [Requests -> ReqStatus]
      BY <1>0 DEF DelStoreType
    <3> QED
      BY <1>0, <3>1, <3>3, <3>4
  <2>4. StatusOf(r)' = "DONE" /\ \A x \in Requests \ {r} : StatusOf(x)' = StatusOf(x)
    BY <1>0, <1>00, <2>1, <2>2, <2>3 DEF StatusOf
  <2>5. eta[r] # 0
    BY <1>0, <2>2 DEF RunInv, Unmade, StatusOf
  <2>6. Unmade'
    BY <1>0, <1>00, <2>3, <2>5 DEF RunInv, Unmade
  <2>7. RunsTaken'
    BY <1>0, <1>00, <2>1, <2>4 DEF RunInv, RunsTaken, Taken, RunType
  <2>8. ClaimedByOne'
    BY <1>0, <1>00, <1>000, <2>1, <2>2, <2>4 DEF RunInv, ClaimedByOne
  <2>9. \A a \in OwnAssets : /\ store[Home].assets[a] # "none" => store'[Home].assets[a] # "none"
                             /\ store[Home].assets[a] = "deleted" => store'[Home].assets[a] = "deleted"
                             /\ a \in run[w].assets => store'[Home].assets[a] = "deleted"
    BY <2>3
  <2>10. \A x \in Requests : covered[x].assets \subseteq OwnAssets
    BY <1>0
  <2>11. InFlight'
    BY <1>00, <1>000, <2>1, <2>9, <2>10 DEF RunInv, InFlight
  <2>12. DoneIsComplete'
    <3>1. /\ \A a \in covered[r].assets : store'[Home].assets[a] = "deleted"
          /\ covered[r].tasks \subseteq store'[Home].hidden
      BY <2>1, <2>2, <2>3, <2>9, <2>10 DEF RunInv, InFlight
    <3> QED
      BY <1>00, <2>1, <2>3, <2>4, <2>9, <2>10, <3>1 DEF RunInv, DoneIsComplete
  <2> QED
    BY <2>6, <2>7, <2>8, <2>11, <2>12 DEF RunInv
<1>10. CASE MarkFailed(w)
  <2> DEFINE r == run[w].req
  <2>1. /\ run[w].pc = "failed" /\ run'[w].pc = "audit" /\ run'[w].req = r
        /\ \A v \in Processors \ {w} : run'[v] = run[v]
        /\ UNCHANGED <<covered, orphan>>
    BY <1>0, <1>10 DEF MarkFailed, RunType
  <2>2. r \in Requests /\ Taken(r) /\ \A v \in Processors \ {w} : run[v].req # r
    BY <1>0, <1>000, <2>1 DEF RunInv, ClaimedByOne, RunsTaken
  <2>3. /\ \A p \in Places : store'[p].requests =
               IF p = Home THEN [store[p].requests EXCEPT ![r] = "FAILED"] ELSE store[p].requests
        /\ \A p \in Places : store[p].requests \in [Requests -> ReqStatus]
        /\ \A p \in Places : store'[p].assets = store[p].assets /\ store'[p].hidden = store[p].hidden
    BY <1>0, <1>10, <2>2 DEF MarkFailed, DelStoreType
  <2>4. StatusOf(r)' = "FAILED" /\ \A x \in Requests \ {r} : StatusOf(x)' = StatusOf(x)
    BY <1>0, <1>00, <2>1, <2>2, <2>3 DEF StatusOf
  <2>5. eta[r] # 0
    BY <1>0, <2>2 DEF RunInv, Unmade, StatusOf, Taken
  <2>6. Unmade'
    BY <1>0, <1>00, <2>3, <2>5 DEF RunInv, Unmade
  <2>7. RunsTaken'
    BY <1>0, <1>00, <2>1, <2>4 DEF RunInv, RunsTaken, Taken, RunType
  <2>8. ClaimedByOne'
    BY <1>0, <1>00, <1>000, <2>1, <2>2, <2>4 DEF RunInv, ClaimedByOne
  <2>9. InFlight'
    BY <1>0, <1>00, <2>1, <2>3 DEF RunInv, InFlight
  <2>10. DoneIsComplete'
    BY <1>0, <1>00, <2>1, <2>3, <2>4 DEF RunInv, DoneIsComplete
  <2> QED
    BY <2>6, <2>7, <2>8, <2>9, <2>10 DEF RunInv
<1> QED
  BY <1>1, <1>2, <1>3, <1>4, <1>5, <1>6, <1>7, <1>8, <1>9, <1>10 DEF RunStep

(* The restart of the gateway: with the database it touches nothing a run  *)
(* relies on, in memory it ends the run and forgets the requests.          *)
LEMMA RestartInv ==
    ASSUME TypeInv, RunInv, RestartGateway
    PROVE  RunInv'
<1> USE DEF Places
<1>0. /\ store \in [Places -> DelStoreType] /\ mode \in {"prisma", "memory"}
      /\ Home' = Home
      /\ store'["memory"] = EmptyStore /\ store'["db"] = store["db"]
      /\ UNCHANGED <<mode, tasks, eta, covered, orphan>>
  BY DEF RestartGateway, Home, TypeInv, DelTypeOK
<1>1. Unmade'
  BY <1>0 DEF RunInv, Unmade, EmptyStore
<1>2. CASE mode = "prisma"
  <2>1. store'[Home] = store[Home] /\ run' = run
    BY <1>0, <1>2 DEF Home, RestartGateway
  <2>2. \A r : StatusOf(r)' = StatusOf(r)
    BY <1>0, <2>1 DEF StatusOf
  <2>3. RunsTaken' /\ ClaimedByOne'
    BY <1>0, <2>1, <2>2 DEF RunInv, RunsTaken, Taken, ClaimedByOne
  <2>4. InFlight' /\ DoneIsComplete'
    BY <1>0, <2>1, <2>2 DEF RunInv, InFlight, DoneIsComplete
  <2> QED
    BY <1>1, <2>3, <2>4 DEF RunInv
<1>3. CASE mode = "memory"
  <2>1. \A w \in Processors : run'[w] = IdleRun
    BY <1>3 DEF RestartGateway
  <2>2. \A w \in Processors : run'[w].pc = "scan" /\ run'[w].req = NoRequest
    BY <2>1 DEF IdleRun
  <2>3. orphan' = {}
    BY <1>0, <1>3 DEF RunInv, RunsTaken
  <2>4. Home = "memory" /\ \A r \in Requests : StatusOf(r)' = "none"
    BY <1>0, <1>3 DEF Home, StatusOf, EmptyStore
  <2>5. RunsTaken' /\ InFlight' /\ ClaimedByOne'
    BY <2>2, <2>3 DEF RunsTaken, InFlight, ClaimedByOne
  <2>6. DoneIsComplete'
    BY <2>4 DEF DoneIsComplete
  <2> QED
    BY <1>1, <2>5, <2>6 DEF RunInv
<1> QED
  BY <1>0, <1>2, <1>3

(* Every step keeps the invariant of the runs. *)
LEMMA RunStepKeeps ==
    ASSUME TypeInv, TypeInv', AssetInv, RunInv, [DelNext]_delVars
    PROVE  RunInv'
<1> DEFINE Same == UNCHANGED <<mode, store, eta, run, covered, orphan>>
<1>1. ASSUME Same, tasks \subseteq tasks'
      PROVE  RunInv'
  <2>1. Home' = Home /\ \A r : StatusOf(r)' = StatusOf(r)
    BY <1>1 DEF Home, StatusOf
  <2>2. Unmade' /\ RunsTaken' /\ ClaimedByOne' /\ DoneIsComplete'
    BY <1>1, <2>1 DEF RunInv, Unmade, RunsTaken, Taken, ClaimedByOne, DoneIsComplete
  <2>3. InFlight'
    BY <1>1, <2>1 DEF RunInv, InFlight
  <2> QED
    BY <2>2, <2>3 DEF RunInv
<1>2. ASSUME NEW c \in DelCalls, DelCallStep(c)
      PROVE  RunInv'
  BY <1>2, CallFrames, CallKeepsRuns
<1>3. ASSUME NEW w \in Processors, RunStep(w) \/ RollBackRun(w) \/ StopRun(w)
      PROVE  RunInv'
  BY <1>3, RunStepInv
<1>4. ASSUME NEW t \in OwnTasks, CreateTask(t)
      PROVE  RunInv'
  BY <1>1, <1>4 DEF CreateTask
<1>5. CASE RestartGateway
  BY <1>5, RestartInv
<1>6. CASE Tick \/ UNCHANGED delVars
  BY <1>1, <1>6 DEF Tick, delVars
<1> QED
  BY <1>2, <1>3, <1>4, <1>5, <1>6 DEF DelNext

(* Both hold at the start. *)
LEMMA InitInv ==
    ASSUME DelInit
    PROVE  TypeInv /\ AssetInv /\ RunInv
<1> USE DEF Places
<1>1. EmptyStore \in DelStoreType
  <2> DEFINE Row == [op : Ops \cup {NoOp}, answer : DelAnswer]
  <2>1. NoRow \in Row
    BY AnswerTypes DEF NoRow
  <2> HIDE DEF Row
  <2>2. [k \in DelKeys |-> NoRow] \in [DelKeys -> Row]
    BY <2>1
  <2>3. /\ [a \in OwnAssets |-> "none"] \in [OwnAssets -> {"none", "active", "deleted"}]
        /\ [r \in Requests |-> "none"] \in [Requests -> ReqStatus]
    BY DEF ReqStatus
  <2> QED
    BY <2>2, <2>3 DEF EmptyStore, DelStoreType, Row
<1>2. IdleDelCall \in DelCallType /\ IdleDelCall.pc = "idle"
  BY AnswerTypes DEF IdleDelCall, DelCallType
<1>3. IdleRun \in RunType /\ IdleRun.pc = "scan" /\ IdleRun.req = NoRequest
  BY DEF IdleRun, RunType
<1>4. \A w \in Processors : run[w] = IdleRun
  BY DEF DelInit
<1>5. DelTypeOK
  <2>1. mode \in {"prisma", "memory"} /\ clock \in 0..LastTick /\ delFaults \in 0..DelMaxFaults
    BY DeletionAssumption DEF DelInit
  <2>2. store \in [Places -> DelStoreType]
    BY <1>1 DEF DelInit
  <2>3. eta \in [Requests -> 0..(LastTick + Sla)]
    BY DeletionAssumption DEF DelInit
  <2>4. delCall \in [DelCalls -> DelCallType] /\ run \in [Processors -> RunType]
    BY <1>2, <1>3 DEF DelInit
  <2>5. tasks \subseteq OwnTasks /\ orphan \subseteq Requests
        /\ covered \in [Requests -> [assets : SUBSET OwnAssets, tasks : SUBSET OwnTasks]]
    BY DEF DelInit
  <2> QED
    BY <1>3, <1>4, <2>1, <2>2, <2>3, <2>4, <2>5 DEF DelTypeOK
<1>6. CallsAsk
  BY <1>2 DEF DelInit, CallsAsk
<1>7. \A p \in Places, r \in Requests : store[p].requests[r] = "none"
  BY DEF DelInit, EmptyStore
<1>8. Home \in Places
  BY DEF Home
<1>9. RunInv
  BY <1>3, <1>4, <1>7, <1>8 DEF RunInv, Unmade, RunsTaken, ClaimedByOne, InFlight, DoneIsComplete, StatusOf, DelInit
<1>10. CallShape
  BY DEF DelInit, CallShape, IdleDelCall
<1>11. AssetsMade
  BY DEF DelInit, AssetsMade, Moved, EmptyStore, IdleDelCall, IdleRun
<1> QED
  BY <1>5, <1>6, <1>9, <1>10, <1>11 DEF TypeInv, AssetInv

LEMMA DelInvariant == DelSpec => [](TypeInv /\ AssetInv /\ RunInv)
<1>1. DelInit => TypeInv /\ AssetInv /\ RunInv
  BY InitInv
<1>2. TypeInv /\ AssetInv /\ RunInv /\ [DelNext]_delVars => TypeInv' /\ AssetInv' /\ RunInv'
  BY TypeStep, AssetStep, RunStepKeeps
<1> QED
  BY <1>1, <1>2, PTL DEF DelSpec

-----------------------------------------------------------------------------
(* The invariant of the keys.                                              *)

(* What the user sees of an operation that was successful. *)
Effect(op, answer) ==
    /\ op[1] = "upload" => store[Home].assets[op[2]] # "none"
    /\ op[1] = "asset" => (\A p \in Places : store[p].assets[op[2]] # "active") /\ Uploaded(op[2])
    /\ op[1] = "view" => op[2] \in store[Home].hidden
    /\ op[1] = "account" => answer.request \in Requests /\ StatusOf(answer.request) # "none"

Asks(c, op, k) == delCall[c].op = op /\ delCall[c].key = k

Audited(op, k) == \E d \in DelCalls : Asks(d, op, k) /\ d \in store[Home].audit

InAudit(op, k) == \E d \in DelCalls : Asks(d, op, k) /\ delCall[d].pc = "audit"

Row(k) == store[Home].keys[k]

Tells(op, answer) == [op |-> op, answer |-> answer]

(* The calls of an orderly key follow each other. *)
OneByOne(k) ==
    \A c, d \in DelCalls :
        delCall[c].key = k /\ delCall[d].key = k /\ InCall(c) /\ InCall(d) => c = d

(* The row of an orderly key is in one place, and tells of what was done. *)
RowTells(k) ==
    /\ mode = "prisma" => store["memory"].keys[k] = NoRow
    /\ Row(k) # NoRow => Row(k).op \in Ops
    /\ \A op \in Ops, answer \in DelAnswer :
          Row(k) = Tells(op, answer) =>
             /\ answer.outcome \in {"SUCCESS", "NOT_FOUND"}
             /\ answer.outcome = "SUCCESS" => Effect(op, answer) /\ (Audited(op, k) \/ InAudit(op, k))

(* What a call of an orderly key has done so far. *)
CallTells(c, k) ==
    \A op \in Ops, answer \in DelAnswer :
        Asks(c, op, k) /\ delCall[c].answer = answer =>
           /\ delCall[c].pc = "act" /\ op[1] # "upload" => Row(k) = NoRow
           /\ delCall[c].pc \in {"persist", "audit"} /\ answer.outcome = "SUCCESS" => Effect(op, answer)
           /\ delCall[c].pc = "persist" => Row(k) = NoRow
           /\ delCall[c].pc \in {"audit", "done"} /\ op[1] # "upload" /\ answer # Plain("CONFLICT") =>
                 Row(k) = Tells(op, answer)
           /\ delCall[c].pc = "done" /\ answer = Plain("CONFLICT") => Row(k) # NoRow /\ Row(k).op # op
           /\ delCall[c].pc = "done" /\ answer.outcome = "SUCCESS" => Effect(op, answer) /\ Audited(op, k)

KeyTells(k) == OneByOne(k) /\ RowTells(k) /\ \A c \in DelCalls : CallTells(c, k)

(* The calls a call has come after are done. *)
BeforeDone == \A c, d \in DelCalls : c \in delCall[d].before => delCall[c].pc = "done"

KeyInv == BeforeDone /\ \A k \in DelKeys : Orderly(k) => KeyTells(k)

(* No operation is the operation of a call that has not begun. *)
LEMMA NoOpIsNone == NoOp \notin Ops /\ \A op \in Ops : \A answer : Tells(op, answer) # NoRow
<1>1. NoOp \notin Ops
  <2> SUFFICES ASSUME NoOp \in Ops
               PROVE  FALSE
    OBVIOUS
  <2>1. PICK kind \in DOMAIN Targets : \E x \in Targets[kind] : NoOp = <<kind, x>>
    BY DEF Ops
  <2>2. kind = "none"
    BY <2>1 DEF NoOp
  <2> QED
    BY <2>2 DEF Targets
<1>2. ASSUME NEW op \in Ops, NEW answer
      PROVE  Tells(op, answer) # NoRow
  BY <1>1 DEF Tells, NoRow
<1> QED
  BY <1>1, <1>2

(* The steps that take nothing back: all of them but a restart without a   *)
(* database.                                                               *)
Keeps ==
    /\ UNCHANGED mode
    /\ \A a \in OwnAssets :
          /\ store[Home].assets[a] # "none" => store'[Home].assets[a] # "none"
          /\ (\A p \in Places : store[p].assets[a] # "active") /\ Uploaded(a) =>
                (\A p \in Places : store'[p].assets[a] # "active") /\ Uploaded(a)'
    /\ store[Home].hidden \subseteq store'[Home].hidden
    /\ \A r \in Requests : store[Home].requests[r] # "none" => store'[Home].requests[r] # "none"
    /\ store[Home].audit \subseteq store'[Home].audit
    /\ \A d \in DelCalls :
          delCall[d].key # "none" => delCall'[d].op = delCall[d].op /\ delCall'[d].key = delCall[d].key

(* What is to be seen and audited stays so. *)
LEMMA EffectStays ==
    ASSUME Keeps
    PROVE  /\ Home' = Home
           /\ \A op \in Ops : \A answer : Effect(op, answer) => Effect(op, answer)'
           /\ \A op, k : k \in DelKeys /\ Audited(op, k) => Audited(op, k)'
<1>1. Home' = Home
  BY DEF Keeps, Home
<1>2. ASSUME NEW op \in Ops, NEW answer, Effect(op, answer)
      PROVE  Effect(op, answer)'
  BY <1>1, <1>2, OpTarget DEF Keeps, Effect, StatusOf
<1>3. ASSUME NEW op, NEW k \in DelKeys, Audited(op, k)
      PROVE  Audited(op, k)'
  BY <1>1, <1>3, DeletionAssumption DEF Keeps, Audited, Asks
<1> QED
  BY <1>1, <1>2, <1>3

(* What a call has done so far stays done while it does not move. *)
LEMMA CallStays ==
    ASSUME Keeps, NEW k \in DelKeys, NEW d \in DelCalls, CallTells(d, k),
           delCall'[d].op = delCall[d].op, delCall'[d].key = delCall[d].key,
           delCall'[d].answer = delCall[d].answer, delCall'[d].pc = delCall[d].pc,
           Row(k)' = Row(k) \/ (Row(k) = NoRow /\ delCall[d].pc \notin {"act", "persist"})
    PROVE  CallTells(d, k)'
<1> SUFFICES ASSUME NEW op \in Ops, NEW answer \in DelAnswer,
                    delCall'[d].op = op, delCall'[d].key = k, delCall'[d].answer = answer
             PROVE  /\ delCall'[d].pc = "act" /\ op[1] # "upload" => Row(k)' = NoRow
                    /\ delCall'[d].pc \in {"persist", "audit"} /\ answer.outcome = "SUCCESS" => Effect(op, answer)'
                    /\ delCall'[d].pc = "persist" => Row(k)' = NoRow
                    /\ delCall'[d].pc \in {"audit", "done"} /\ op[1] # "upload" /\ answer # Plain("CONFLICT") =>
                          Row(k)' = Tells(op, answer)
                    /\ delCall'[d].pc = "done" /\ answer = Plain("CONFLICT") => Row(k)' # NoRow /\ Row(k)'.op # op
                    /\ delCall'[d].pc = "done" /\ answer.outcome = "SUCCESS" => Effect(op, answer)' /\ Audited(op, k)'
  BY DEF CallTells, Asks, Plain, Tells
<1>1. /\ delCall[d].pc = "act" /\ op[1] # "upload" => Row(k) = NoRow
      /\ delCall[d].pc \in {"persist", "audit"} /\ answer.outcome = "SUCCESS" => Effect(op, answer)
      /\ delCall[d].pc = "persist" => Row(k) = NoRow
      /\ delCall[d].pc \in {"audit", "done"} /\ op[1] # "upload" /\ answer # Plain("CONFLICT") =>
            Row(k) = Tells(op, answer)
      /\ delCall[d].pc = "done" /\ answer = Plain("CONFLICT") => Row(k) # NoRow /\ Row(k).op # op
      /\ delCall[d].pc = "done" /\ answer.outcome = "SUCCESS" => Effect(op, answer) /\ Audited(op, k)
  BY DEF CallTells, Asks
<1>2. /\ Effect(op, answer) => Effect(op, answer)'
      /\ Audited(op, k) => Audited(op, k)'
  BY EffectStays
<1>3. Tells(op, answer) # NoRow
  BY NoOpIsNone
<1> QED
  BY <1>1, <1>2, <1>3

(* The row of a key stays right while it is not written. *)
LEMMA RowStays ==
    ASSUME Keeps, NEW k \in DelKeys, RowTells(k),
           \A p \in Places : store'[p].keys[k] = store[p].keys[k],
           \A d \in DelCalls : delCall[d].key = k /\ delCall[d].pc = "audit" =>
                                  delCall'[d].pc = "audit" \/ d \in store'[Home].audit
    PROVE  Row(k)' = Row(k) /\ RowTells(k)'
<1>1. Row(k)' = Row(k) /\ Home' = Home /\ UNCHANGED mode
  BY EffectStays DEF Row, Home, Places, Keeps
<1>2. ASSUME NEW op \in Ops, NEW answer \in DelAnswer, Row(k) = Tells(op, answer)
      PROVE  /\ answer.outcome \in {"SUCCESS", "NOT_FOUND"}
             /\ answer.outcome = "SUCCESS" => Effect(op, answer)' /\ (Audited(op, k)' \/ InAudit(op, k)')
  <2>1. /\ answer.outcome \in {"SUCCESS", "NOT_FOUND"}
        /\ answer.outcome = "SUCCESS" => Effect(op, answer) /\ (Audited(op, k) \/ InAudit(op, k))
    BY <1>2 DEF RowTells
  <2>2. /\ Effect(op, answer) => Effect(op, answer)'
        /\ Audited(op, k) => Audited(op, k)'
    BY EffectStays
  <2>3. InAudit(op, k) => Audited(op, k)' \/ InAudit(op, k)'
    BY <1>1, DeletionAssumption DEF InAudit, Audited, Asks, Keeps
  <2> QED
    BY <2>1, <2>2, <2>3
<1>3. mode' = "prisma" => store'["memory"].keys[k] = NoRow
  BY <1>1 DEF RowTells, Places
<1>4. Row(k)' # NoRow => Row(k)'.op \in Ops
  BY <1>1 DEF RowTells
<1>5. ASSUME NEW op \in Ops, NEW answer \in DelAnswer, Row(k)' = Tells(op, answer)
      PROVE  /\ answer.outcome \in {"SUCCESS", "NOT_FOUND"}
             /\ answer.outcome = "SUCCESS" => Effect(op, answer)' /\ (Audited(op, k)' \/ InAudit(op, k)')
  BY <1>1, <1>2, <1>5
<1>6. RowTells(k)'
  BY <1>3, <1>4, <1>5 DEF RowTells, Tells
<1> QED
  BY <1>1, <1>6

(* What a call asks stays, and once it is answered it stays so. *)
LEMMA CallsStay ==
    ASSUME TypeInv, AssetInv, NEW c \in DelCalls, DelCallStep(c)
    PROVE  /\ \A d \in DelCalls :
                 delCall[d].key # "none" => delCall'[d].op = delCall[d].op /\ delCall'[d].key = delCall[d].key
           /\ \A a \in OwnAssets : Uploaded(a) => Uploaded(a)'
<1>1. \/ \E op \in Ops, k \in DelKeys : StartCall(c, op, k)
      \/ \E p \in Places : \E pc, answer : Move(c, p, pc, answer) /\ (delCall[c].answer = NoAnswer \/ answer = delCall[c].answer)
  <2>1. delCall[c].pc \in {"lookup", "act"} => delCall[c].answer = NoAnswer
    BY DEF AssetInv, CallShape
  <2> QED
    BY <2>1 DEF DelCallStep, ResolveIdempotency, CreateUploadPolicy, DeleteAsset, DeleteTaskView,
                CreateAccountDeleteRequest, PersistIdempotency, AppendAuditLog, Acts
<1>2. CASE \E op \in Ops, k \in DelKeys : StartCall(c, op, k)
  <2>1. PICK op \in Ops, k \in DelKeys : StartCall(c, op, k)
    BY <1>2
  <2>2. /\ delCall[c].pc = "idle"
        /\ \A d \in DelCalls : d # c =>
              /\ delCall'[d].answer = delCall[d].answer
              /\ delCall'[d].op = delCall[d].op /\ delCall'[d].key = delCall[d].key
    BY <2>1, StartFields
  <2>3. delCall[c].key = "none" /\ delCall[c].answer = NoAnswer
    BY <2>2 DEF AssetInv, CallShape
  <2> QED
    BY <2>2, <2>3 DEF Uploaded, Moved
<1>3. CASE \E p \in Places : \E pc, answer : Move(c, p, pc, answer) /\ (delCall[c].answer = NoAnswer \/ answer = delCall[c].answer)
  <2>1. PICK p \in Places : \E pc, answer : Move(c, p, pc, answer) /\ (delCall[c].answer = NoAnswer \/ answer = delCall[c].answer)
    BY <1>3
  <2>2. PICK pc, answer : Move(c, p, pc, answer) /\ (delCall[c].answer = NoAnswer \/ answer = delCall[c].answer)
    BY <2>1
  <2>3. /\ delCall'[c].answer = answer
        /\ delCall'[c].op = delCall[c].op /\ delCall'[c].key = delCall[c].key
        /\ \A d \in DelCalls : d # c => delCall'[d] = delCall[d]
    BY <2>2, MoveFields
  <2> QED
    BY <2>2, <2>3 DEF Uploaded, Moved
<1> QED
  BY <1>1, <1>2, <1>3

(* What a call does takes nothing back. *)
LEMMA CallKeeps ==
    ASSUME TypeInv, AssetInv, NEW c \in DelCalls, DelCallStep(c)
    PROVE  Keeps
<1>1. CallFrame
  BY CallFrames
<1>2. Home \in Places /\ Home' = Home
  BY <1>1 DEF Home, Places, CallFrame
<1>0. store \in [Places -> DelStoreType]
  BY DEF TypeInv, DelTypeOK
<1>3. /\ \A d \in DelCalls :
            delCall[d].key # "none" => delCall'[d].op = delCall[d].op /\ delCall'[d].key = delCall[d].key
      /\ \A a \in OwnAssets : Uploaded(a) => Uploaded(a)'
  BY CallsStay
<1>4. \A r \in Requests : store[Home].requests[r] # "none" => store'[Home].requests[r] # "none"
  BY <1>1, <1>2 DEF CallFrame
<1>5. /\ \A p \in Places, a \in OwnAssets :
            store'[p].assets[a] = "active" => store[p].assets[a] = "active" \/ ~Uploaded(a)
      /\ store[Home].audit \subseteq store'[Home].audit
  <2>1. CASE UNCHANGED store
    BY <2>1
  <2>2. CASE AssetsSame /\ AuditSame
    BY <1>2, <2>2 DEF AssetsSame, AuditSame
  <2>3. ASSUME NEW p \in Places, CreateUploadPolicy(c, p)
        PROVE  <1>5!1 /\ <1>5!2
    <3> DEFINE b == delCall[c].op[2]
    <3>1. b \in OwnAssets /\ ~Uploaded(b)
      BY <2>3, FreshUpload
    <3>2. store' = [store EXCEPT ![p].assets[b] = "active"]
      BY <2>3 DEF CreateUploadPolicy
    <3> HIDE DEF b
    <3> QED
      BY <1>0, <1>2, <3>1, <3>2 DEF DelStoreType
  <2>4. ASSUME NEW p \in Places, DeleteAsset(c, p)
        PROVE  <1>5!1 /\ <1>5!2
    <3> DEFINE b == delCall[c].op[2]
    <3>1. b \in OwnAssets
      BY <2>4, OpTarget DEF DeleteAsset, Acts, TypeInv, CallsAsk
    <3>2. PICK q \in Places : UNCHANGED store \/ store' = [store EXCEPT ![q].assets[b] = "deleted"]
      BY <2>4 DEF DeleteAsset, Places
    <3> HIDE DEF b
    <3>3. CASE store' = [store EXCEPT ![q].assets[b] = "deleted"]
      BY <1>0, <1>2, <3>1, <3>3 DEF DelStoreType
    <3> QED
      BY <2>1, <3>2, <3>3
  <2>5. ASSUME NEW p \in Places, DeleteTaskView(c, p)
        PROVE  UNCHANGED store \/ (AssetsSame /\ AuditSame)
    <3>1. PICK t : UNCHANGED store \/ store' = [store EXCEPT ![p].hidden = @ \cup {t}]
      BY <2>5 DEF DeleteTaskView
    <3>2. CASE store' = [store EXCEPT ![p].hidden = @ \cup {t}]
      BY <3>2, Writes
    <3> QED
      BY <3>1, <3>2
  <2>6. ASSUME NEW p \in Places, NEW r \in Requests, CreateAccountDeleteRequest(c, p, r)
        PROVE  AssetsSame /\ AuditSame
    BY <2>6, Writes DEF CreateAccountDeleteRequest
  <2>7. ASSUME NEW p \in Places, PersistIdempotency(c, p)
        PROVE  AssetsSame /\ AuditSame
    <3> DEFINE row == [op |-> delCall[c].op, answer |-> delCall[c].answer]
    <3>1. delCall[c].key \in DelKeys /\ store' = [store EXCEPT ![p].keys[delCall[c].key] = row]
      BY <2>7 DEF PersistIdempotency, TypeInv, CallsAsk
    <3> HIDE DEF row
    <3> QED
      BY <3>1, Writes
  <2>8. ASSUME NEW p \in Places, AppendAuditLog(c, p)
        PROVE  <1>5!1 /\ <1>5!2
    <3>1. AssetsSame /\ \A q \in Places : store[q].audit \subseteq store'[q].audit
      BY <2>8, Writes, Zenon DEF AppendAuditLog
    <3> QED
      BY <1>2, <3>1 DEF AssetsSame
  <2>9. ASSUME NEW op, NEW k, StartCall(c, op, k)
        PROVE  UNCHANGED store
    BY <2>9 DEF StartCall
  <2>10. ASSUME NEW p, ResolveIdempotency(c, p)
         PROVE  UNCHANGED store
    BY <2>10 DEF ResolveIdempotency
  <2>11. CASE \E op \in Ops, k \in DelKeys : StartCall(c, op, k)
    BY <2>1, <2>9, <2>11
  <2>12. CASE \E p \in Places : ResolveIdempotency(c, p) \/ CreateUploadPolicy(c, p) \/ DeleteAsset(c, p)
    BY <2>1, <2>10, <2>3, <2>4, <2>12
  <2>13. CASE \E p \in Places : DeleteTaskView(c, p) \/ PersistIdempotency(c, p) \/ AppendAuditLog(c, p)
                                 \/ \E r \in Requests : CreateAccountDeleteRequest(c, p, r)
    BY <2>1, <2>2, <2>5, <2>6, <2>7, <2>8, <2>13
  <2> QED
    BY <2>11, <2>12, <2>13 DEF DelCallStep
<1> QED
  BY <1>1, <1>2, <1>3, <1>4, <1>5 DEF Keeps, CallFrame

(* What a run does takes nothing back. *)
LEMMA RunKeeps ==
    ASSUME TypeInv, AssetInv, NEW w \in Processors, RunStep(w) \/ RollBackRun(w) \/ StopRun(w)
    PROVE  /\ Keeps /\ UNCHANGED delCall
           /\ KeysSame
<1>0. /\ store \in [Places -> DelStoreType] /\ Home \in Places
      /\ run \in [Processors -> RunType]
      /\ run[w].pc = "scan" <=> run[w].req = NoRequest
  BY DEF TypeInv, DelTypeOK, Home, Places
<1>1. UNCHANGED <<mode, delCall>>
  BY DEF RunStep, Scan, Claim, SelectAssets, SelectTasks, Commit, MarkFailed, AuditRun, RollBackRun, StopRun
<1>2. \A a \in OwnAssets : Uploaded(a) => Uploaded(a)'
  BY <1>1 DEF Uploaded, Moved
<1> DEFINE Good ==
              /\ KeysSame
              /\ \A p \in Places :
                    /\ store[p].hidden \subseteq store'[p].hidden /\ store[p].audit \subseteq store'[p].audit
                    /\ \A r \in Requests : store[p].requests[r] # "none" => store'[p].requests[r] # "none"
                    /\ \A a \in OwnAssets : store'[p].assets[a] = store[p].assets[a]
                                            \/ (store'[p].assets[a] = "deleted" /\ store[p].assets[a] # "none")
<1>3. CASE UNCHANGED store
  <2>1. Good
    BY <1>3 DEF KeysSame
  <2> QED
    BY <1>0, <1>1, <1>2, <2>1 DEF Keeps
<1>4. ASSUME NEW r \in Requests, NEW s \in {"PROCESSING", "FAILED"}, store' = [store EXCEPT ![Home].requests[r] = s]
      PROVE  Good
  <2>1. /\ AssetsSame /\ HiddenSame /\ KeysSame /\ AuditSame
        /\ \A p \in Places, x \in Requests :
              store'[p].requests[x] = IF p = Home /\ x = r THEN s ELSE store[p].requests[x]
    BY <1>0, <1>4 DEF DelStoreType, AssetsSame, HiddenSame, KeysSame, AuditSame
  <2> QED
    BY <2>1 DEF AssetsSame, HiddenSame, AuditSame
<1>5. ASSUME NEW x, NEW p \in Places, store' = [store EXCEPT ![p].audit = @ \cup {x}]
      PROVE  Good
  <2>1. /\ AssetsSame /\ HiddenSame /\ RequestsSame /\ KeysSame
        /\ \A q \in Places : store[q].audit \subseteq store'[q].audit
    BY <1>5, Writes, Zenon
  <2> QED
    BY <2>1 DEF AssetsSame, HiddenSame, RequestsSame
<1>6. ASSUME Commit(w)
      PROVE  Good
  <2>1. store[Home] \in DelStoreType /\ run[w].req \in Requests
    BY <1>0, <1>6 DEF Commit, RunType
  <2>2. /\ Erased(w).assets = [a \in OwnAssets |-> IF a \in run[w].assets THEN "deleted" ELSE store[Home].assets[a]]
        /\ Erased(w).hidden = store[Home].hidden \cup run[w].tasks
        /\ Erased(w).requests = [store[Home].requests EXCEPT ![run[w].req] = "DONE"]
        /\ Erased(w).keys = store[Home].keys /\ Erased(w).audit = store[Home].audit
    BY <2>1 DEF Erased, DelStoreType
  <2>3. \A p \in Places : store'[p] = IF p = Home THEN Erased(w) ELSE store[p]
    BY <1>0, <1>6 DEF Commit
  <2>4. \A a \in run[w].assets : store[Home].assets[a] # "none"
    BY DEF AssetInv, AssetsMade
  <2>5. store[Home].requests \in [Requests -> ReqStatus]
    BY <2>1 DEF DelStoreType
  <2> QED
    BY <2>1, <2>2, <2>3, <2>4, <2>5 DEF KeysSame
<1>6a. ASSUME store' = [store EXCEPT ![Home] = AssetsErased(Active)]
       PROVE  Good
  <2>1. /\ AssetsErased(Active).assets = [a \in OwnAssets |-> IF a \in Active THEN "deleted" ELSE store[Home].assets[a]]
        /\ AssetsErased(Active).hidden = store[Home].hidden /\ AssetsErased(Active).requests = store[Home].requests
        /\ AssetsErased(Active).keys = store[Home].keys /\ AssetsErased(Active).audit = store[Home].audit
    BY <1>0 DEF AssetsErased, DelStoreType
  <2>2. \A p \in Places : store'[p] = IF p = Home THEN AssetsErased(Active) ELSE store[p]
    BY <1>0, <1>6a
  <2> QED
    BY <2>1, <2>2 DEF Active, KeysSame
<1>7. \/ UNCHANGED store \/ Commit(w) \/ store' = [store EXCEPT ![Home] = AssetsErased(Active)]
      \/ \E r \in Requests, s \in {"PROCESSING", "FAILED"} : store' = [store EXCEPT ![Home].requests[r] = s]
      \/ \E x : store' = [store EXCEPT ![Home].audit = @ \cup {x}]
  <2>1. run[w].pc = "failed" => run[w].req \in Requests
    BY <1>0 DEF RunType
  <2> QED
    BY <2>1 DEF RunStep, Scan, Claim, SelectAssets, SelectTasks, MarkFailed, AuditRun, RollBackRun, StopRun
<1>8. UNCHANGED store \/ Good
  <2> HIDE DEF Good
  <2> QED
    BY <1>0, <1>4, <1>5, <1>6, <1>6a, <1>7, Zenon
<1>9. ASSUME Good
      PROVE  Keeps
  <2>1. \A a \in OwnAssets : (\A p \in Places : store[p].assets[a] # "active") =>
                                (\A p \in Places : store'[p].assets[a] # "active")
    BY <1>9
  <2>2. Home' = Home
    BY <1>1 DEF Home
  <2> QED
    BY <1>0, <1>1, <1>2, <1>9, <2>1, <2>2 DEF Keeps
<1> QED
  BY <1>1, <1>3, <1>8, <1>9 DEF KeysSame

(* A step that leaves the calls of a key and its rows alone. *)
LEMMA KeyUntouched ==
    ASSUME Keeps, NEW k \in DelKeys, KeyTells(k),
           \A p \in Places : store'[p].keys[k] = store[p].keys[k],
           \A d \in DelCalls : delCall[d].key = k \/ delCall'[d].key = k =>
                                  /\ delCall'[d].op = delCall[d].op /\ delCall'[d].key = delCall[d].key
                                  /\ delCall'[d].answer = delCall[d].answer /\ delCall'[d].pc = delCall[d].pc
    PROVE  KeyTells(k)'
<1>0. OneByOne(k) /\ RowTells(k) /\ \A d \in DelCalls : CallTells(d, k)
  BY DEF KeyTells
<1>1. Row(k)' = Row(k) /\ RowTells(k)'
  BY <1>0, RowStays
<1>2. ASSUME NEW d \in DelCalls
      PROVE  CallTells(d, k)'
  <2>1. CASE delCall'[d].key = k
    BY <1>0, <1>1, <2>1, CallStays
  <2>2. CASE delCall'[d].key # k
    BY <2>2 DEF CallTells, Asks
  <2> QED
    BY <2>1, <2>2
<1>3. OneByOne(k)'
  BY <1>0 DEF OneByOne, InCall
<1> QED
  BY <1>1, <1>2, <1>3 DEF KeyTells

(* What a clean call does it does where everything is. *)
LEMMA CleanAtHome ==
    ASSUME TypeInv, NEW c \in DelCalls, NEW p \in Places, Reaches(p), Clean(c, p)
    PROVE  p = Home
BY DEF Places, Reaches, Clean, Home, TypeInv, DelTypeOK

(* A call of an orderly key that moves finds the other calls of the key    *)
(* done.                                                                   *)
LEMMA OwnMove ==
    ASSUME TypeInv, Keeps, NEW k \in DelKeys, NEW c \in DelCalls, NEW p, NEW pc, NEW answer,
           pc # "idle", Move(c, p, pc, answer), delCall[c].key = k, InCall(c),
           KeyTells(k), Row(k)' = Row(k) \/ Row(k) = NoRow,
           CallTells(c, k)', RowTells(k)'
    PROVE  KeyTells(k)'
<1>0. OneByOne(k) /\ \A d \in DelCalls : CallTells(d, k)
  BY DEF KeyTells
<1>1. /\ delCall'[c].key = k
      /\ \A d \in DelCalls : d # c => delCall'[d] = delCall[d]
  BY MoveFields
<1>2. \A d \in DelCalls : d # c /\ delCall[d].key = k => ~InCall(d)
  BY <1>0 DEF OneByOne
<1>3. OneByOne(k)'
  BY <1>1, <1>2 DEF OneByOne, InCall
<1>4. ASSUME NEW d \in DelCalls, d # c
      PROVE  CallTells(d, k)'
  <2>1. CASE delCall[d].key = k
    <3>1. delCall[d].pc \notin {"act", "persist"}
      BY <1>2, <1>4, <2>1 DEF InCall
    <3> QED
      BY <1>0, <1>1, <1>4, <3>1, CallStays
  <2>2. CASE delCall[d].key # k
    BY <1>1, <1>4, <2>2 DEF CallTells, Asks
  <2> QED
    BY <2>1, <2>2
<1> QED
  BY <1>3, <1>4 DEF KeyTells

(* Nothing makes the calls of a key orderly again. *)
LEMMA OrderlyBefore ==
    ASSUME TypeInv, AssetInv, [DelNext]_delVars, NEW k \in DelKeys, Orderly(k)'
    PROVE  Orderly(k)
<1>1. CASE UNCHANGED delCall
  BY <1>1 DEF Orderly
<1>2. ASSUME NEW c \in DelCalls, NEW op \in Ops, NEW x \in DelKeys, StartCall(c, op, x)
      PROVE  Orderly(k)
  <2>1. /\ delCall[c].pc = "idle"
        /\ \A d \in DelCalls : d # c =>
              /\ delCall'[d].pc = delCall[d].pc /\ delCall'[d].key = delCall[d].key
              /\ delCall'[d].clean = delCall[d].clean /\ (delCall'[d].alone => delCall[d].alone)
    BY <1>2, StartFields
  <2>2. delCall[c].key # k
    BY <2>1, DeletionAssumption DEF AssetInv, CallShape
  <2> QED
    BY <2>1, <2>2 DEF Orderly
<1>3. ASSUME NEW c \in DelCalls, NEW p, NEW pc, NEW answer, Move(c, p, pc, answer), InCall(c)
      PROVE  Orderly(k)
  <2>1. /\ delCall'[c].clean = Clean(c, p) /\ delCall'[c].key = delCall[c].key /\ delCall'[c].alone = delCall[c].alone
        /\ \A d \in DelCalls : d # c => delCall'[d] = delCall[d]
    BY <1>3, MoveFields
  <2>2. delCall'[c].clean => delCall[c].clean
    BY <2>1 DEF Clean
  <2>3. delCall[c].pc # "lost"
    BY <1>3 DEF InCall
  <2> QED
    BY <2>1, <2>2, <2>3 DEF Orderly
<1>4. CASE RestartGateway
  <2>1. \A c \in DelCalls :
            /\ delCall'[c].pc = IF InCall(c) THEN "lost" ELSE delCall[c].pc
            /\ delCall'[c].clean => delCall[c].clean
            /\ delCall'[c].alone = delCall[c].alone /\ delCall'[c].key = delCall[c].key
    BY <1>4, RestartFields
  <2> QED
    BY <2>1 DEF Orderly, InCall
<1>5. ASSUME NEW c \in DelCalls, DelCallStep(c)
      PROVE  \/ \E op \in Ops, x \in DelKeys : StartCall(c, op, x)
             \/ \E p, pc, answer : Move(c, p, pc, answer) /\ InCall(c)
  BY <1>5 DEF DelCallStep, ResolveIdempotency, CreateUploadPolicy, DeleteAsset, DeleteTaskView,
              CreateAccountDeleteRequest, PersistIdempotency, AppendAuditLog, Acts, InCall
<1>6. ASSUME NEW w \in Processors, RunStep(w) \/ RollBackRun(w) \/ StopRun(w)
      PROVE  UNCHANGED delCall
  BY <1>6, RunKeeps
<1>7. CASE \E t \in OwnTasks : CreateTask(t)
  BY <1>1, <1>7 DEF CreateTask
<1>8. CASE Tick \/ UNCHANGED delVars
  BY <1>1, <1>8 DEF Tick, delVars
<1>9. CASE \E c \in DelCalls : DelCallStep(c)
  BY <1>2, <1>3, <1>5, <1>9
<1>10. CASE \E w \in Processors : RunStep(w) \/ RollBackRun(w) \/ StopRun(w)
  BY <1>1, <1>6, <1>10
<1> QED
  BY <1>4, <1>7, <1>8, <1>9, <1>10 DEF DelNext

(* A record of the types of a row is what it tells. *)
LEMMA RowsTell ==
    ASSUME TypeInv, NEW k \in DelKeys
    PROVE  Row(k).answer \in DelAnswer /\ Row(k) = Tells(Row(k).op, Row(k).answer)
<1>1. Home \in Places /\ store \in [Places -> DelStoreType]
  BY DEF TypeInv, DelTypeOK, Home, Places
<1>2. Row(k) \in [op : Ops \cup {NoOp}, answer : DelAnswer]
  BY <1>1 DEF Row, DelStoreType
<1> QED
  BY <1>2 DEF Tells

(* A step of a call that has an orderly key keeps what the key tells.      *)
LEMMA OwnKey ==
    ASSUME TypeInv, AssetInv, NEW k \in DelKeys, NEW c \in DelCalls, DelCallStep(c), delCall'[c].key = k,
           KeyTells(k), Orderly(k)'
    PROVE  KeyTells(k)'
<1>0. /\ OneByOne(k) /\ RowTells(k) /\ \A d \in DelCalls : CallTells(d, k)
      /\ CallShape /\ AssetsMade /\ Keeps
      /\ store \in [Places -> DelStoreType]
      /\ delCall[c].pc # "idle" => delCall[c].op \in Ops /\ delCall[c].key \in DelKeys
      /\ delCall[c].answer \in DelAnswer
      /\ Home \in Places /\ UNCHANGED mode /\ Home' = Home
  BY CallKeeps DEF KeyTells, AssetInv, TypeInv, DelTypeOK, CallsAsk, DelCallType, Home, Places, Keeps
<1>00. \A p \in Places : \A pc, answer :
           Move(c, p, pc, answer) /\ Reaches(p) =>
              /\ p = Home /\ delCall[c].key = k
              /\ delCall'[c].pc = pc /\ delCall'[c].answer = answer /\ delCall'[c].op = delCall[c].op
              /\ \A d \in DelCalls : d # c => delCall'[d] = delCall[d]
  <2> SUFFICES ASSUME NEW p \in Places, NEW pc, NEW answer, Move(c, p, pc, answer), Reaches(p)
               PROVE  /\ p = Home /\ delCall[c].key = k
                      /\ delCall'[c].pc = pc /\ delCall'[c].answer = answer /\ delCall'[c].op = delCall[c].op
                      /\ \A d \in DelCalls : d # c => delCall'[d] = delCall[d]
    OBVIOUS
  <2>1. /\ delCall'[c].pc = pc /\ delCall'[c].answer = answer /\ delCall'[c].clean = Clean(c, p)
        /\ delCall'[c].op = delCall[c].op /\ delCall'[c].key = delCall[c].key
        /\ \A d \in DelCalls : d # c => delCall'[d] = delCall[d]
    BY MoveFields
  <2>2. Clean(c, p)
    BY <2>1 DEF Orderly
  <2> QED
    BY <2>1, <2>2, CleanAtHome
<1>000. /\ \A r \in Requests \cup {NoRequest} : Success(r).outcome = "SUCCESS" /\ Success(r) # Plain("CONFLICT")
        /\ Plain("CONFLICT").outcome = "CONFLICT" /\ Plain("NOT_FOUND").outcome = "NOT_FOUND"
        /\ NoAnswer.outcome = "none"
  BY DEF Success, Plain, NoAnswer
(* It begins. *)
<1>1. ASSUME NEW op \in Ops, NEW x \in DelKeys, StartCall(c, op, x)
      PROVE  KeyTells(k)'
  <2>1. /\ delCall'[c].pc = IF op[1] = "upload" THEN "act" ELSE "lookup"
        /\ delCall'[c].op = op /\ delCall'[c].key = x /\ delCall'[c].answer = NoAnswer
        /\ delCall'[c].alone => \A d \in DelCalls : d # c /\ InCall(d) => delCall[d].key # x
        /\ \A d \in DelCalls : d # c =>
              /\ delCall'[d].pc = delCall[d].pc /\ delCall'[d].answer = delCall[d].answer
              /\ delCall'[d].op = delCall[d].op /\ delCall'[d].key = delCall[d].key
    BY <1>1, StartFields
  <2>2. x = k /\ \A d \in DelCalls : d # c /\ InCall(d) => delCall[d].key # k
    BY <2>1 DEF Orderly
  <2>3. OneByOne(k)'
    BY <2>1, <2>2 DEF OneByOne, InCall
  <2>4. store' = store /\ delCall[c].key # k
    BY <1>0, <1>1, DeletionAssumption DEF StartCall, CallShape
  <2>5. Row(k)' = Row(k) /\ RowTells(k)'
    BY <1>0, <2>1, <2>4, RowStays
  <2>6. CallTells(c, k)'
    BY <2>1, <1>000 DEF CallTells, Asks
  <2>7. \A d \in DelCalls : d # c => CallTells(d, k)'
    BY <1>0, <2>1, <2>5, CallStays
  <2> QED
    BY <2>3, <2>5, <2>6, <2>7 DEF KeyTells
(* It leaves the rows of the keys alone. *)
<1>a. ASSUME NEW p \in Places, NEW pc, NEW answer, Move(c, p, pc, answer), Reaches(p), pc # "idle", InCall(c),
             KeysSame, delCall[c].pc = "audit" => pc = "audit" \/ c \in store'[Home].audit,
             Row(k)' = Row(k) => CallTells(c, k)'
      PROVE  KeyTells(k)'
  <2>1. /\ delCall[c].key = k
        /\ delCall'[c].pc = pc /\ \A d \in DelCalls : d # c => delCall'[d] = delCall[d]
    BY <1>a, <1>00
  <2>2. \A d \in DelCalls : delCall[d].key = k /\ delCall[d].pc = "audit" =>
                               delCall'[d].pc = "audit" \/ d \in store'[Home].audit
    BY <1>0, <1>a, <2>1
  <2>3. \A q \in Places : store'[q].keys[k] = store[q].keys[k]
    BY <1>a DEF KeysSame
  <2>4. Row(k)' = Row(k) /\ RowTells(k)'
    BY <1>0, <2>2, <2>3, RowStays
  <2>5. CallTells(c, k)'
    BY <1>a, <2>4
  <2> QED
    BY <1>0, <1>a, <2>1, <2>4, <2>5, OwnMove
(* It looks its key up. *)
<1>2. ASSUME NEW p \in Places, ResolveIdempotency(c, p)
      PROVE  KeyTells(k)'
  <2> DEFINE row == KeyRow(p, delCall[c].key)
  <2>1. /\ delCall[c].pc = "lookup" /\ Reaches(p) /\ store' = store /\ InCall(c)
        /\ delCall[c].op \in Ops /\ delCall[c].op[1] # "upload"
    BY <1>0, <1>2 DEF ResolveIdempotency, InCall, CallShape
  <2>2. \/ row = NoRow /\ Move(c, p, "act", NoAnswer)
        \/ row # NoRow /\ row.op # delCall[c].op /\ Move(c, p, "done", Plain("CONFLICT"))
        \/ row # NoRow /\ row.op = delCall[c].op /\ Move(c, p, "done", row.answer)
    BY <1>2 DEF ResolveIdempotency
  <2>3. p = Home /\ delCall[c].key = k /\ delCall'[c].op = delCall[c].op
    BY <1>00, <2>1, <2>2
  <2>4. row = Row(k)
    BY <1>0, <2>3 DEF KeyRow, Row, RowTells, Home, TypeInv, DelTypeOK
  <2> HIDE DEF row
  <2>5. KeysSame
    BY <2>1 DEF KeysSame
  <2>6. CASE row = NoRow /\ Move(c, p, "act", NoAnswer)
    <3>1. delCall'[c].pc = "act" /\ delCall'[c].answer = NoAnswer
      BY <1>00, <2>1, <2>6
    <3>2. Row(k)' = Row(k) => CallTells(c, k)'
      BY <1>000, <2>4, <2>6, <3>1 DEF CallTells
    <3> QED
      BY <1>a, <2>1, <2>5, <2>6, <3>2
  <2>7. CASE row # NoRow /\ row.op # delCall[c].op /\ Move(c, p, "done", Plain("CONFLICT"))
    <3>1. delCall'[c].pc = "done" /\ delCall'[c].answer = Plain("CONFLICT")
      BY <1>00, <2>1, <2>7
    <3>2. Row(k)' = Row(k) => CallTells(c, k)'
      BY <1>000, <2>3, <2>4, <2>7, <3>1 DEF CallTells, Asks
    <3> QED
      BY <1>a, <2>1, <2>5, <2>7, <3>2
  <2>8. CASE row # NoRow /\ row.op = delCall[c].op /\ Move(c, p, "done", row.answer)
    <3>1. delCall'[c].pc = "done" /\ delCall'[c].answer = row.answer
      BY <1>00, <2>1, <2>8
    <3>2. row.answer \in DelAnswer /\ row = Tells(delCall[c].op, row.answer)
      BY <2>4, <2>8, RowsTell
    <3>3. /\ row.answer.outcome \in {"SUCCESS", "NOT_FOUND"}
          /\ row.answer.outcome = "SUCCESS" =>
                Effect(delCall[c].op, row.answer) /\ (Audited(delCall[c].op, k) \/ InAudit(delCall[c].op, k))
      BY <1>0, <2>1, <2>4, <3>2 DEF RowTells
    <3>4. ~InAudit(delCall[c].op, k)
      BY <1>0, <2>1, <2>3 DEF InAudit, Asks, OneByOne, InCall
    <3>5. PICK op \in Ops, answer \in DelAnswer : op = delCall[c].op /\ answer = row.answer
      BY <2>1, <3>2
    <3>6. answer.outcome = "SUCCESS" => Effect(op, answer)' /\ Audited(op, k)'
      BY <1>0, <3>3, <3>4, <3>5, EffectStays
    <3>7. answer # Plain("CONFLICT")
      BY <1>000, <3>3, <3>5
    <3>8. Row(k)' = Row(k) => CallTells(c, k)'
      <4> SUFFICES ASSUME Row(k)' = Row(k)
                   PROVE  CallTells(c, k)'
        OBVIOUS
      <4>1. Row(k)' = Tells(op, answer)
        BY <2>4, <3>2, <3>5
      <4> QED
        BY <2>3, <3>1, <3>5, <3>6, <3>7, <4>1 DEF CallTells, Asks, Tells
    <3> QED
      BY <1>a, <2>1, <2>5, <2>8, <3>8
  <2> QED
    BY <2>2, <2>6, <2>7, <2>8
(* It does what it was asked to: what the answer tells is to be seen. *)
<1>b. ASSUME NEW p \in Places, NEW pc \in {"persist", "audit"}, NEW answer \in DelAnswer, Move(c, p, pc, answer),
             Reaches(p), delCall[c].pc = "act", KeysSame,
             pc = "persist" <=> delCall[c].op[1] # "upload",
             answer.outcome = "SUCCESS" => \A op \in Ops : op = delCall[c].op => Effect(op, answer)'
      PROVE  KeyTells(k)'
  <2>1. /\ delCall[c].key = k /\ delCall'[c].pc = pc /\ delCall'[c].answer = answer
        /\ delCall'[c].op = delCall[c].op /\ delCall[c].op \in Ops
    BY <1>0, <1>00, <1>b
  <2>2. delCall[c].op[1] # "upload" => Row(k) = NoRow
    BY <1>0, <1>b, <2>1 DEF CallTells, Asks
  <2>3. PICK op \in Ops : op = delCall[c].op
    BY <2>1
  <2>4. answer.outcome = "SUCCESS" => Effect(op, answer)'
    BY <1>b, <2>3
  <2>5. ASSUME Row(k)' = Row(k)
        PROVE  CallTells(c, k)'
    BY <1>b, <2>1, <2>2, <2>3, <2>4, <2>5 DEF CallTells, Asks
  <2> QED
    BY <1>a, <1>b, <2>5 DEF InCall
<1>3. ASSUME NEW p \in Places, CreateUploadPolicy(c, p)
      PROVE  KeyTells(k)'
  <2> DEFINE a == delCall[c].op[2]
  <2>1. /\ a \in OwnAssets /\ delCall[c].op = <<"upload", a>> /\ delCall[c].op[1] = "upload"
        /\ delCall[c].pc = "act" /\ Reaches(p) /\ Move(c, p, "audit", Success(NoRequest))
        /\ store' = [store EXCEPT ![p].assets[a] = "active"]
    BY <1>3, FreshUpload DEF CreateUploadPolicy, Acts
  <2>2. p = Home
    BY <1>00, <2>1
  <2>3. store'[Home].assets[a] # "none" /\ KeysSame
    <3> HIDE DEF a
    <3> QED
      BY <1>0, <2>1, <2>2 DEF DelStoreType, KeysSame
  <2>4. \A op \in Ops : op = delCall[c].op => Effect(op, Success(NoRequest))'
    BY <1>0, <2>1, <2>3 DEF Effect
  <2> QED
    BY <1>b, <2>1, <2>3, <2>4, AnswerTypes
<1>4. ASSUME NEW p \in Places, DeleteAsset(c, p)
      PROVE  KeyTells(k)'
  <2> DEFINE a == delCall[c].op[2]
             q == IF p = "db" /\ store["db"].assets[a] # "none" THEN "db" ELSE "memory"
  <2>1. /\ delCall[c].pc = "act" /\ Reaches(p) /\ delCall[c].op[1] = "asset" /\ delCall[c].op \in Ops
        /\ a \in OwnAssets
    BY <1>0, <1>4, OpTarget DEF DeleteAsset, Acts
  <2>2. CASE /\ store[q].assets[a] # "none"
             /\ store' = [store EXCEPT ![q].assets[a] = "deleted"]
             /\ Move(c, p, "persist", Success(NoRequest))
    <3>1. q \in Places
      BY DEF Places
    <3>2. \A x \in Places : x # q => store[x].assets[a] = "none"
      BY <1>0, <2>1, <2>2, <3>1 DEF AssetsMade, Places
    <3>3. /\ KeysSame
          /\ \A x \in Places : store'[x].assets[a] = IF x = q THEN "deleted" ELSE store[x].assets[a]
      <4> HIDE DEF a, q
      <4> QED
        BY <1>0, <2>1, <2>2, <3>1 DEF DelStoreType, KeysSame
    <3>4. \A x \in Places : store'[x].assets[a] # "active"
      BY <3>2, <3>3
    <3>5. PICK b \in OwnAssets : b = a /\ Uploaded(b)'
      <4>1. PICK b \in OwnAssets : b = a
        BY <2>1
      <4>2. Uploaded(b)
        BY <1>0, <2>1, <2>2, <3>1, <4>1 DEF AssetsMade
      <4> QED
        BY <4>1, <4>2, CallsStay
    <3>6. \A op \in Ops : op = delCall[c].op => Effect(op, Success(NoRequest))'
      <4> SUFFICES ASSUME NEW op \in Ops, op = delCall[c].op
                   PROVE  Effect(op, Success(NoRequest))'
        OBVIOUS
      <4>1. op[2] = b /\ op[1] = "asset"
        BY <2>1, <3>5
      <4>2. (\A x \in Places : store'[x].assets[op[2]] # "active") /\ Uploaded(op[2])'
        BY <3>4, <3>5, <4>1 DEF Uploaded
      <4> QED
        BY <4>1, <4>2 DEF Effect
    <3> QED
      BY <1>b, <2>1, <2>2, <3>3, <3>6, AnswerTypes
  <2>3. CASE Move(c, p, "persist", Plain("NOT_FOUND")) /\ UNCHANGED store
    <3>1. KeysSame
      BY <2>3 DEF KeysSame
    <3> QED
      BY <1>b, <1>000, <2>1, <2>3, <3>1, AnswerTypes DEF DelOutcome
  <2> QED
    BY <1>4, <2>2, <2>3 DEF DeleteAsset
<1>5. ASSUME NEW p \in Places, DeleteTaskView(c, p)
      PROVE  KeyTells(k)'
  <2> DEFINE t == delCall[c].op[2]
  <2>1. delCall[c].pc = "act" /\ Reaches(p) /\ delCall[c].op[1] = "view" /\ delCall[c].op \in Ops
    BY <1>0, <1>5 DEF DeleteTaskView, Acts
  <2>2. CASE /\ store' = [store EXCEPT ![p].hidden = @ \cup {t}]
             /\ Move(c, p, "persist", Success(NoRequest))
    <3>1. p = Home
      BY <1>00, <2>1, <2>2
    <3>2. KeysSame /\ t \in store'[Home].hidden
      <4> HIDE DEF t
      <4> QED
        BY <2>2, <3>1, Writes
    <3>3. \A op \in Ops : op = delCall[c].op => Effect(op, Success(NoRequest))'
      BY <1>0, <2>1, <3>2 DEF Effect
    <3> QED
      BY <1>b, <2>1, <2>2, <3>2, <3>3, AnswerTypes
  <2>3. CASE Move(c, p, "persist", Plain("NOT_FOUND")) /\ UNCHANGED store
    <3>1. KeysSame
      BY <2>3 DEF KeysSame
    <3> QED
      BY <1>b, <1>000, <2>1, <2>3, <3>1, AnswerTypes DEF DelOutcome
  <2>4. CASE mode = "prisma" /\ p = "memory" /\ Move(c, p, "done", Plain("ERROR"))
    BY <1>00, <2>1, <2>4 DEF Home
  <2> QED
    BY <1>5, <2>2, <2>3, <2>4 DEF DeleteTaskView
<1>6. ASSUME NEW p \in Places, NEW r \in Requests, CreateAccountDeleteRequest(c, p, r)
      PROVE  KeyTells(k)'
  <2>1. /\ delCall[c].pc = "act" /\ Reaches(p) /\ delCall[c].op[1] = "account" /\ delCall[c].op \in Ops
        /\ store' = [store EXCEPT ![p].requests[r] = "PENDING"] /\ Move(c, p, "persist", Success(r))
    BY <1>0, <1>6 DEF CreateAccountDeleteRequest, Acts
  <2>2. p = Home
    BY <1>00, <2>1
  <2>3. KeysSame /\ store'[Home].requests[r] = "PENDING"
    <3>1. PICK x \in Places : x = Home /\ store' = [store EXCEPT ![x].requests[r] = "PENDING"]
      BY <1>0, <2>1, <2>2
    <3>2. KeysSame /\ store'[x].requests[r] = "PENDING"
      BY <1>0, <3>1 DEF DelStoreType, KeysSame
    <3> QED
      BY <3>1, <3>2
  <2>4. Success(r).request = r
    BY DEF Success
  <2>5. \A op \in Ops : op = delCall[c].op => Effect(op, Success(r))'
    BY <1>0, <2>1, <2>3, <2>4 DEF Effect, StatusOf
  <2> QED
    BY <1>b, <2>1, <2>3, <2>5, AnswerTypes
(* It writes its row. *)
<1>7. ASSUME NEW p \in Places, PersistIdempotency(c, p)
      PROVE  KeyTells(k)'
  <2> DEFINE pc == AfterPersist(delCall[c].answer.outcome)
             row == [op |-> delCall[c].op, answer |-> delCall[c].answer]
  <2>1. /\ delCall[c].pc = "persist" /\ Reaches(p) /\ Move(c, p, pc, delCall[c].answer)
        /\ store' = [store EXCEPT ![p].keys[delCall[c].key] = row]
        /\ delCall[c].op \in Ops /\ delCall[c].op[1] # "upload"
        /\ delCall[c].answer.outcome \in {"SUCCESS", "NOT_FOUND"}
    BY <1>0, <1>7 DEF PersistIdempotency, CallShape
  <2>2. pc = IF delCall[c].answer.outcome = "NOT_FOUND" THEN "done" ELSE "audit"
    BY DEF AfterPersist
  <2> HIDE DEF pc
  <2>3. /\ p = Home /\ delCall[c].key = k /\ delCall'[c].pc = pc /\ delCall'[c].answer = delCall[c].answer
        /\ delCall'[c].op = delCall[c].op
    BY <1>00, <2>1
  <2>4. PICK op \in Ops, answer \in DelAnswer : op = delCall[c].op /\ answer = delCall[c].answer
    BY <1>0, <2>1
  <2>5. Row(k) = NoRow /\ (answer.outcome = "SUCCESS" => Effect(op, answer))
    BY <1>0, <2>1, <2>3, <2>4 DEF CallTells, Asks
  <2>6. answer.outcome = "SUCCESS" => Effect(op, answer)'
    BY <1>0, <2>5, EffectStays
  <2>7. /\ store'[Home].keys[k] = Tells(op, answer)
        /\ \A q \in Places : q # Home => store'[q].keys[k] = store[q].keys[k]
    <3>0. PICK told : told = Tells(op, answer)
      OBVIOUS
    <3>1. PICK x \in Places : x = Home /\ store' = [store EXCEPT ![x].keys[k] = told]
      BY <2>1, <2>3, <2>4, <3>0 DEF Tells
    <3>2. \A q \in Places, y \in DelKeys :
              /\ q = x /\ y = k => store'[q].keys[y] = told
              /\ q # x \/ y # k => store'[q].keys[y] = store[q].keys[y]
      BY <1>0, <3>1 DEF DelStoreType
    <3> QED
      BY <3>0, <3>1, <3>2
  <2>8. Row(k)' = Tells(op, answer)
    BY <1>0, <2>7 DEF Row
  <2>9. RowTells(k)'
    <3>1. mode' = "prisma" => store'["memory"].keys[k] = NoRow
      BY <1>0, <2>7 DEF RowTells, Home, Places
    <3>2. answer.outcome = "SUCCESS" => InAudit(op, k)'
      BY <2>1, <2>2, <2>3, <2>4, <1>7 DEF InAudit, Asks
    <3>3. \A o \in Ops, x \in DelAnswer : Row(k)' = Tells(o, x) => o = op /\ x = answer
      BY <2>8 DEF Tells
    <3>4. \A o \in Ops, x \in DelAnswer : Row(k)' = Tells(o, x) =>
              /\ x.outcome \in {"SUCCESS", "NOT_FOUND"}
              /\ x.outcome = "SUCCESS" => Effect(o, x)' /\ InAudit(o, k)'
      BY <2>1, <2>4, <2>6, <3>2, <3>3
    <3>5. Row(k)' # NoRow => Row(k)'.op \in Ops
      BY <2>8 DEF Tells
    <3> QED
      BY <3>1, <3>4, <3>5 DEF RowTells, Tells
  <2>10. CallTells(c, k)'
    <3>1. pc \in {"audit", "done"} /\ (pc = "done" => answer.outcome = "NOT_FOUND") /\ answer # Plain("CONFLICT")
      BY <1>000, <2>1, <2>2, <2>4
    <3> QED
      BY <2>3, <2>4, <2>6, <2>8, <3>1 DEF CallTells, Asks, Tells
  <2>11. pc # "idle" /\ InCall(c)
    BY <2>1, <2>2 DEF InCall
  <2> QED
    BY <1>0, <2>1, <2>3, <2>5, <2>9, <2>10, <2>11, OwnMove
(* It tells the audit log. *)
<1>8. ASSUME NEW p \in Places, AppendAuditLog(c, p)
      PROVE  KeyTells(k)'
  <2>1. /\ delCall[c].pc = "audit" /\ Reaches(p) /\ Move(c, p, "done", delCall[c].answer)
        /\ store' = [store EXCEPT ![p].audit = @ \cup {c}]
        /\ delCall[c].op \in Ops /\ delCall[c].answer.outcome = "SUCCESS" /\ InCall(c)
    BY <1>0, <1>8 DEF AppendAuditLog, CallShape, InCall
  <2>2. /\ p = Home /\ delCall[c].key = k /\ delCall'[c].pc = "done" /\ delCall'[c].answer = delCall[c].answer
        /\ delCall'[c].op = delCall[c].op
    BY <1>00, <2>1
  <2>3. KeysSame /\ c \in store'[Home].audit
    BY <2>1, <2>2, Writes
  <2>4. PICK op \in Ops, answer \in DelAnswer : op = delCall[c].op /\ answer = delCall[c].answer
    BY <1>0, <2>1
  <2>5. /\ Effect(op, answer) /\ answer # Plain("CONFLICT")
        /\ op[1] # "upload" => Row(k) = Tells(op, answer)
    BY <1>0, <1>000, <2>1, <2>2, <2>4 DEF CallTells, Asks
  <2>6. Effect(op, answer)'
    BY <1>0, <2>5, EffectStays
  <2>7. delCall'[c].key = k
    OBVIOUS
  <2>8. Audited(op, k)'
    BY <1>0, <2>2, <2>3, <2>4, <2>7 DEF Audited, Asks
  <2>9. ASSUME Row(k)' = Row(k)
        PROVE  CallTells(c, k)'
    BY <2>2, <2>4, <2>5, <2>6, <2>8, <2>9 DEF CallTells, Asks, Tells
  <2> QED
    BY <1>a, <2>1, <2>3, <2>9
<1> QED
  BY <1>1, <1>2, <1>3, <1>4, <1>5, <1>6, <1>7, <1>8 DEF DelCallStep

(* A restart loses no row of an orderly key. *)
LEMMA RestartKeys ==
    ASSUME TypeInv, AssetInv, RestartGateway, NEW k \in DelKeys, KeyTells(k), Orderly(k)'
    PROVE  KeyTells(k)'
<1>0. /\ store'["memory"] = EmptyStore /\ store'["db"] = store["db"]
      /\ UNCHANGED mode /\ Home' = Home /\ mode \in {"prisma", "memory"}
  BY DEF RestartGateway, Places, TypeInv, DelTypeOK, Home
<1>1. \A c \in DelCalls :
          /\ delCall'[c].pc = IF InCall(c) THEN "lost" ELSE delCall[c].pc
          /\ delCall'[c].clean => delCall[c].clean /\ mode = "prisma"
          /\ delCall'[c].answer = delCall[c].answer
          /\ delCall'[c].op = delCall[c].op /\ delCall'[c].key = delCall[c].key
  BY RestartFields
<1>2. CASE mode = "prisma"
  <2>1. \A a \in OwnAssets : Uploaded(a) => Uploaded(a)'
    BY <1>1 DEF Uploaded, Moved
  <2>2. \A p \in Places, a \in OwnAssets : store[p].assets[a] # "active" => store'[p].assets[a] # "active"
    BY <1>0 DEF Places, EmptyStore
  <2>3. Keeps
    BY <1>0, <1>1, <1>2, <2>1, <2>2 DEF Keeps, Home
  <2>4. \A p \in Places : store'[p].keys[k] = store[p].keys[k]
    BY <1>0, <1>2 DEF Places, EmptyStore, KeyTells, RowTells
  <2>5. \A d \in DelCalls : delCall[d].key = k \/ delCall'[d].key = k => delCall'[d].pc = delCall[d].pc
    BY <1>1 DEF Orderly
  <2> QED
    BY <1>1, <2>3, <2>4, <2>5, KeyUntouched
<1>3. CASE mode = "memory"
  <2>1. \A c \in DelCalls : delCall'[c].key # k
    BY <1>1, <1>3 DEF Orderly
  <2>2. Row(k)' = NoRow
    BY <1>0, <1>3 DEF Row, Home, EmptyStore
  <2>3. OneByOne(k)' /\ \A c \in DelCalls : CallTells(c, k)'
    BY <2>1 DEF OneByOne, CallTells, Asks
  <2>4. RowTells(k)'
    BY <1>0, <1>3, <2>2, NoOpIsNone DEF RowTells, Tells
  <2> QED
    BY <2>3, <2>4 DEF KeyTells
<1> QED
  BY <1>0, <1>2, <1>3

(* A step of a call of another key. *)
LEMMA OtherKey ==
    ASSUME TypeInv, AssetInv, NEW k \in DelKeys, NEW c \in DelCalls, DelCallStep(c), delCall'[c].key # k,
           KeyTells(k)
    PROVE  KeyTells(k)'
<1>1. Keeps /\ delCall[c].key # k
  BY CallKeeps, DeletionAssumption DEF Keeps
<1>2. \A d \in DelCalls : d # c =>
          /\ delCall'[d].op = delCall[d].op /\ delCall'[d].key = delCall[d].key
          /\ delCall'[d].answer = delCall[d].answer /\ delCall'[d].pc = delCall[d].pc
  <2>1. \/ \E op \in Ops, x \in DelKeys : StartCall(c, op, x)
        \/ \E p, pc, answer : Move(c, p, pc, answer)
    BY DEF DelCallStep, ResolveIdempotency, CreateUploadPolicy, DeleteAsset, DeleteTaskView,
           CreateAccountDeleteRequest, PersistIdempotency, AppendAuditLog
  <2>2. CASE \E op \in Ops, x \in DelKeys : StartCall(c, op, x)
    BY <2>2, StartFields
  <2>3. CASE \E p, pc, answer : Move(c, p, pc, answer)
    BY <2>3, MoveFields
  <2> QED
    BY <2>1, <2>2, <2>3
<1>3. \A q \in Places : store'[q].keys[k] = store[q].keys[k]
  <2>0. store \in [Places -> DelStoreType]
    BY DEF TypeInv, DelTypeOK
  <2>1. ASSUME NEW p \in Places, NEW x \in DelKeys, NEW row, x # k, store' = [store EXCEPT ![p].keys[x] = row]
        PROVE  \A q \in Places : store'[q].keys[k] = store[q].keys[k]
    BY <2>0, <2>1 DEF DelStoreType
  <2>2. ASSUME NEW p \in Places, PersistIdempotency(c, p)
        PROVE  \A q \in Places : store'[q].keys[k] = store[q].keys[k]
    <3>1. delCall[c].key \in DelKeys
      BY <2>2 DEF PersistIdempotency, TypeInv, CallsAsk
    <3>2. PICK x \in DelKeys : x = delCall[c].key
      BY <3>1
    <3>3. \E row : store' = [store EXCEPT ![p].keys[x] = row]
      BY <2>2, <3>2 DEF PersistIdempotency
    <3> QED
      BY <1>1, <2>1, <3>2, <3>3
  <2>3. KeysSame => \A q \in Places : store'[q].keys[k] = store[q].keys[k]
    BY DEF KeysSame
  <2>4. UNCHANGED store => KeysSame
    BY DEF KeysSame
  <2>5. ASSUME NEW p \in Places, NEW a \in OwnAssets, NEW s, store' = [store EXCEPT ![p].assets[a] = s]
        PROVE  KeysSame
    BY <2>5, Writes
  <2>6. ASSUME NEW p \in Places, NEW t, store' = [store EXCEPT ![p].hidden = @ \cup {t}]
        PROVE  KeysSame
    BY <2>6, Writes
  <2>7. ASSUME NEW p \in Places, NEW r \in Requests, NEW s, store' = [store EXCEPT ![p].requests[r] = s]
        PROVE  KeysSame
    BY <2>7, Writes
  <2>8. ASSUME NEW p \in Places, NEW x, store' = [store EXCEPT ![p].audit = @ \cup {x}]
        PROVE  KeysSame
    BY <2>8, Writes
  <2>9. ASSUME NEW p \in Places, CreateUploadPolicy(c, p) \/ DeleteAsset(c, p)
        PROVE  KeysSame
    <3>1. delCall[c].op[2] \in OwnAssets
      BY <2>9, OpTarget DEF CreateUploadPolicy, DeleteAsset, Acts, TypeInv, CallsAsk
    <3>2. PICK a \in OwnAssets : a = delCall[c].op[2]
      BY <3>1
    <3>3. UNCHANGED store \/ \E q \in Places : \E s : store' = [store EXCEPT ![q].assets[a] = s]
      BY <2>9, <3>2 DEF CreateUploadPolicy, DeleteAsset, Places
    <3> QED
      BY <2>4, <2>5, <3>3
  <2>10. ASSUME NEW p \in Places, DeleteTaskView(c, p)
         PROVE  KeysSame
    <3>1. UNCHANGED store \/ \E t : store' = [store EXCEPT ![p].hidden = @ \cup {t}]
      BY <2>10 DEF DeleteTaskView
    <3> QED
      BY <2>4, <2>6, <3>1
  <2>11. ASSUME NEW p \in Places, NEW r \in Requests, CreateAccountDeleteRequest(c, p, r)
         PROVE  KeysSame
    BY <2>7, <2>11 DEF CreateAccountDeleteRequest
  <2>12. ASSUME NEW p \in Places, AppendAuditLog(c, p)
         PROVE  KeysSame
    BY <2>8, <2>12 DEF AppendAuditLog
  <2>13. ASSUME NEW p \in Places, ResolveIdempotency(c, p)
         PROVE  KeysSame
    BY <2>4, <2>13 DEF ResolveIdempotency
  <2>14. ASSUME NEW op, NEW x, StartCall(c, op, x)
         PROVE  KeysSame
    BY <2>4, <2>14 DEF StartCall
  <2>15. KeysSame \/ \E p \in Places : PersistIdempotency(c, p)
    BY <2>9, <2>10, <2>11, <2>12, <2>13, <2>14 DEF DelCallStep
  <2> QED
    BY <2>2, <2>3, <2>15
<1> QED
  BY <1>1, <1>2, <1>3, KeyUntouched

(* Every step keeps what the rows and the calls of the orderly keys tell. *)
LEMMA KeyStep ==
    ASSUME TypeInv, AssetInv, KeyInv, [DelNext]_delVars
    PROVE  KeyInv'
<1>1. ASSUME NEW k \in DelKeys, Orderly(k)'
      PROVE  KeyTells(k)'
  <2>0. Orderly(k) /\ KeyTells(k)
    BY <1>1, OrderlyBefore DEF KeyInv
  <2>1. ASSUME UNCHANGED <<mode, store, delCall>>
        PROVE  KeyTells(k)'
    <3>1. Home' = Home /\ \A a \in OwnAssets : Uploaded(a) => Uploaded(a)'
      BY <2>1 DEF Home, Uploaded, Moved
    <3>2. Keeps
      BY <2>1, <3>1 DEF Keeps
    <3> QED
      BY <2>0, <2>1, <3>2, KeyUntouched
  <2>2. ASSUME NEW c \in DelCalls, DelCallStep(c)
        PROVE  KeyTells(k)'
    BY <1>1, <2>0, <2>2, OwnKey, OtherKey
  <2>3. ASSUME NEW w \in Processors, RunStep(w) \/ RollBackRun(w) \/ StopRun(w)
        PROVE  KeyTells(k)'
    <3>1. Keeps /\ UNCHANGED delCall /\ \A q \in Places : store'[q].keys[k] = store[q].keys[k]
      BY <2>3, RunKeeps DEF KeysSame
    <3> QED
      BY <2>0, <3>1, KeyUntouched
  <2>4. ASSUME NEW t \in OwnTasks, CreateTask(t)
        PROVE  KeyTells(k)'
    BY <2>1, <2>4 DEF CreateTask
  <2>5. CASE RestartGateway
    BY <1>1, <2>0, <2>5, RestartKeys
  <2>6. CASE Tick \/ UNCHANGED delVars
    BY <2>1, <2>6 DEF Tick, delVars
  <2> QED
    BY <2>2, <2>3, <2>4, <2>5, <2>6 DEF DelNext
<1>2. BeforeDone'
  <2>0. BeforeDone
    BY DEF KeyInv
  <2>1. CASE UNCHANGED delCall
    BY <2>0, <2>1 DEF BeforeDone
  <2>2. ASSUME NEW c \in DelCalls, NEW op, NEW x, StartCall(c, op, x)
        PROVE  BeforeDone'
    <3>1. /\ delCall[c].pc = "idle" /\ delCall'[c].before = {e \in DelCalls : delCall[e].pc = "done"}
          /\ \A d \in DelCalls : d # c => delCall'[d].pc = delCall[d].pc /\ delCall'[d].before = delCall[d].before
      BY <2>2, StartFields
    <3> QED
      BY <2>0, <3>1 DEF BeforeDone
  <2>3. ASSUME NEW c \in DelCalls, NEW p, NEW pc, NEW answer, Move(c, p, pc, answer), InCall(c)
        PROVE  BeforeDone'
    <3>1. /\ delCall'[c].before = delCall[c].before
          /\ \A d \in DelCalls : d # c => delCall'[d] = delCall[d]
      BY <2>3, MoveFields
    <3>2. delCall[c].pc # "done"
      BY <2>3 DEF InCall
    <3> QED
      BY <2>0, <3>1, <3>2 DEF BeforeDone
  <2>4. CASE RestartGateway
    <3>1. \A c \in DelCalls : /\ delCall'[c].pc = IF InCall(c) THEN "lost" ELSE delCall[c].pc
                              /\ delCall'[c].before = delCall[c].before
      BY <2>4, RestartFields
    <3> QED
      BY <2>0, <3>1 DEF BeforeDone, InCall
  <2>5. ASSUME NEW c \in DelCalls, DelCallStep(c)
        PROVE  BeforeDone'
    <3>1. \/ \E op, x : StartCall(c, op, x)
          \/ \E p, pc, answer : Move(c, p, pc, answer) /\ InCall(c)
      BY <2>5 DEF DelCallStep, ResolveIdempotency, CreateUploadPolicy, DeleteAsset, DeleteTaskView,
                  CreateAccountDeleteRequest, PersistIdempotency, AppendAuditLog, Acts, InCall
    <3> QED
      BY <2>2, <2>3, <3>1
  <2>6. ASSUME NEW w \in Processors, RunStep(w) \/ RollBackRun(w) \/ StopRun(w)
        PROVE  BeforeDone'
    BY <2>1, <2>6, RunKeeps
  <2>7. CASE \E t \in OwnTasks : CreateTask(t)
    BY <2>1, <2>7 DEF CreateTask
  <2>8. CASE Tick \/ UNCHANGED delVars
    BY <2>1, <2>8 DEF Tick, delVars
  <2> QED
    BY <2>4, <2>5, <2>6, <2>7, <2>8 DEF DelNext
<1>3. KeyInv' = (BeforeDone' /\ \A k \in DelKeys : Orderly(k)' => KeyTells(k)')
  BY DEF KeyInv
<1> QED
  BY <1>1, <1>2, <1>3

(* No key has a row at the start. *)
LEMMA KeyInit ==
    ASSUME DelInit
    PROVE  KeyInv
<1>1. \A c \in DelCalls : delCall[c].pc = "idle" /\ delCall[c].before = {} /\ delCall[c].key = "none"
  BY DEF DelInit, IdleDelCall
<1>2. \A p \in Places, k \in DelKeys : store[p].keys[k] = NoRow
  BY DEF DelInit, EmptyStore
<1>3. ASSUME NEW k \in DelKeys
      PROVE  KeyTells(k)
  <2>1. OneByOne(k) /\ \A c \in DelCalls : CallTells(c, k)
    BY <1>1, DeletionAssumption DEF OneByOne, CallTells, Asks
  <2>2. Row(k) = NoRow
    BY <1>2 DEF Row, Home, Places
  <2>3. RowTells(k)
    BY <1>2, <2>2, NoOpIsNone DEF RowTells, Places
  <2> QED
    BY <2>1, <2>3 DEF KeyTells
<1> QED
  BY <1>1, <1>3 DEF KeyInv, BeforeDone

(* The rows and the calls of the orderly keys tell of what was done. *)
LEMMA KeyInvariant == DelSpec => [](TypeInv /\ KeyInv)
<1>1. DelInit => KeyInv
  BY KeyInit
<1>2. TypeInv /\ AssetInv /\ KeyInv /\ [DelNext]_delVars => KeyInv'
  BY KeyStep
<1> QED
  BY <1>1, <1>2, DelInvariant, PTL DEF DelSpec

(* What the invariant says of a call that is done. *)
LEMMA DoneTells ==
    ASSUME TypeInv, KeyInv, NEW c \in DelCalls, delCall[c].pc = "done", Orderly(delCall[c].key)
    PROVE  /\ delCall[c].key \in DelKeys /\ delCall[c].op \in Ops
           /\ delCall[c].op[1] # "upload" /\ delCall[c].answer # Plain("CONFLICT") =>
                 Row(delCall[c].key) = Tells(delCall[c].op, delCall[c].answer)
           /\ delCall[c].answer = Plain("CONFLICT") => Row(delCall[c].key).op # delCall[c].op
           /\ delCall[c].answer.outcome = "SUCCESS" =>
                 Effect(delCall[c].op, delCall[c].answer) /\ Audited(delCall[c].op, delCall[c].key)
<1>1. delCall[c].key \in DelKeys /\ delCall[c].op \in Ops /\ delCall[c].answer \in DelAnswer
  BY DEF TypeInv, DelTypeOK, CallsAsk, DelCallType
<1>2. CallTells(c, delCall[c].key)
  BY <1>1 DEF KeyInv, KeyTells
<1> QED
  BY <1>1, <1>2 DEF CallTells, Asks

-----------------------------------------------------------------------------
(* The theorems.                                                           *)

(* Compliance: calls, runs of the script, faults and restarts keep the     *)
(* types of the tables and the maps, and a run is about a request exactly  *)
(* between its claim and its audit row.                                    *)
THEOREM DeletionTypeCorrect == DelSpec => []DelTypeOK
<1>1. TypeInv => DelTypeOK
  BY DEF TypeInv
<1> QED
  BY <1>1, DelInvariant, PTL

(* processPendingDeleteRequests: the compare-and-set on PENDING gives a    *)
(* request to one run, however many scan at once and wherever they stop.   *)
THEOREM OneRunPerRequest == DelSpec => []ClaimedByOne
<1>1. RunInv => ClaimedByOne
  BY DEF RunInv
<1> QED
  BY <1>1, DelInvariant, PTL

(* executeDeleteRequestWithPrisma: a DONE request has deleted and hidden   *)
(* all that was there at its claim, whatever the user, other runs and      *)
(* restarts do between its statements and afterwards.                      *)
THEOREM DoneMeansDone == DelSpec => []DoneIsComplete
<1>1. RunInv => DoneIsComplete
  BY DEF RunInv
<1> QED
  BY <1>1, DelInvariant, PTL

(* resolveIdempotency, persistIdempotency: a call that is repeated with    *)
(* its key after it was answered gets the answer it got before, wherever   *)
(* the gateway was restarted and whatever other keys met.                  *)
THEOREM RepeatedCallsAgree == DelSpec => []SameKeySameAnswer
<1>1. TypeInv /\ KeyInv => SameKeySameAnswer
  <2> SUFFICES ASSUME TypeInv, KeyInv, NEW c \in DelCalls, NEW d \in DelCalls,
                      delCall[d].pc = "done", c \in delCall[d].before,
                      delCall[c].key = delCall[d].key, delCall[c].op = delCall[d].op,
                      delCall[c].op[1] # "upload", Orderly(delCall[c].key)
               PROVE  delCall[c].answer = delCall[d].answer
    BY DEF SameKeySameAnswer
  <2>1. delCall[c].pc = "done"
    BY DEF KeyInv, BeforeDone
  <2>2. /\ delCall[c].answer # Plain("CONFLICT") => Row(delCall[c].key) = Tells(delCall[c].op, delCall[c].answer)
        /\ delCall[c].answer = Plain("CONFLICT") => Row(delCall[c].key).op # delCall[c].op
    BY <2>1, DoneTells
  <2>3. /\ delCall[d].answer # Plain("CONFLICT") => Row(delCall[c].key) = Tells(delCall[c].op, delCall[d].answer)
        /\ delCall[d].answer = Plain("CONFLICT") => Row(delCall[c].key).op # delCall[c].op
    BY DoneTells
  <2> QED
    BY <2>2, <2>3 DEF Tells
<1> QED
  BY <1>1, KeyInvariant, PTL

(* deleteAsset, deleteTask, createAccountDeleteRequest: what a call was    *)
(* told it has done is done, stays done and is in the audit log, in        *)
(* whichever of the two places the gateway keeps it.                       *)
THEOREM AnswersAreKept == DelSpec => []AnsweredIsKept
<1>1. TypeInv /\ KeyInv => AnsweredIsKept
  <2> SUFFICES ASSUME TypeInv, KeyInv, NEW c \in DelCalls, Told(c, "SUCCESS"), Orderly(delCall[c].key)
               PROVE  LET x == delCall[c].op[2]
                      IN  /\ CASE delCall[c].op[1] = "upload"  -> store[Home].assets[x] # "none"
                               [] delCall[c].op[1] = "asset"   -> \A p \in Places : store[p].assets[x] # "active"
                               [] delCall[c].op[1] = "view"    -> IsTaskDeleted(Home, x) /\ x \notin VisibleTasks(Home, tasks)
                               [] delCall[c].op[1] = "account" ->
                                     LET r == delCall[c].answer.request
                                     IN  r \in ListedRequests(Home, RequestView(Home, r)) /\ StatusOf(r) # "none"
                          /\ \E d \in DelCalls :
                                /\ delCall[d].op = delCall[c].op /\ delCall[d].key = delCall[c].key
                                /\ d \in ListedAudit(Home)
    BY DEF AnsweredIsKept
  <2> DEFINE op == delCall[c].op
             x == delCall[c].op[2]
             r == delCall[c].answer.request
  <2>1. op \in Ops /\ Effect(op, delCall[c].answer) /\ Audited(op, delCall[c].key)
    BY DoneTells DEF Told
  <2>2. op[1] \in {"upload", "asset", "view", "account"}
    BY <2>1 DEF Ops, Targets
  <2>3. \E d \in DelCalls :
            /\ delCall[d].op = delCall[c].op /\ delCall[d].key = delCall[c].key
            /\ d \in ListedAudit(Home)
    BY <2>1 DEF Audited, Asks, ListedAudit
  <2>4. op[1] = "view" => IsTaskDeleted(Home, x) /\ x \notin VisibleTasks(Home, tasks)
    BY <2>1 DEF Effect, IsTaskDeleted, VisibleTasks, Home
  <2>5. op[1] = "account" => r \in ListedRequests(Home, RequestView(Home, r)) /\ StatusOf(r) # "none"
    BY <2>1 DEF Effect, ListedRequests, RequestView, StatusOf, Home
  <2>6. op[1] = "upload" => store[Home].assets[x] # "none"
    BY <2>1 DEF Effect
  <2>7. op[1] = "asset" => \A p \in Places : store[p].assets[x] # "active"
    BY <2>1 DEF Effect
  <2> QED
    BY <2>2, <2>3, <2>4, <2>5, <2>6, <2>7, Zenon
<1> QED
  BY <1>1, KeyInvariant, PTL

=============================================================================
