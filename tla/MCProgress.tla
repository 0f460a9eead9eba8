------------------------------ MODULE MCProgress ------------------------------
(***************************************************************************)
(* What must come about in the end: deletion requests are settled, a task  *)
(* somebody watches ends, events of webhooks come to rest.  The components *)
(* share no state: a behaviour is one of theirs, chosen at the start.      *)
(***************************************************************************)
EXTENDS AccountDeletion, TaskInput, WebhookDelivery, TLC

VARIABLE part \* the component that moves

MediaOfInput == [t \in InTasks |-> "IMAGE"]

progressVars == <<part, delVars, inVars, vars>>

ProgressInit ==
    /\ part \in {"deletion", "input", "webhooks"}
    /\ DelInit /\ InInit /\ Init
    /\ mode = "memory" => part = "deletion"
    /\ simulation => part = "input"

DeletionMoves(A) == part = "deletion" /\ A /\ UNCHANGED <<part, inVars, vars>>
InputMoves(A)    == part = "input" /\ A /\ UNCHANGED <<part, delVars, vars>>
WebhooksMove(A)  == part = "webhooks" /\ A /\ UNCHANGED <<part, delVars, inVars>>

ProgressNext == DeletionMoves(DelNext) \/ InputMoves(InNext) \/ WebhooksMove(Next)

(* DelFairness, InFairness and the fairness of FairSpec, each of its part. *)
ProgressFairness ==
    /\ WF_progressVars(DeletionMoves(Tick))
    /\ \A w \in Processors : WF_progressVars(DeletionMoves(RunStep(w)))
    /\ \A u \in Uploaders : WF_progressVars(InputMoves(UploadStep(u)))
    /\ \A g \in Pages : WF_progressVars(InputMoves(PageStep(g)))
    /\ \A g \in Pages, t \in InTasks : SF_progressVars(InputMoves(OpenPage(g, t, FALSE)))
    /\ \A d \in Dispatchers : WF_progressVars(WebhooksMove(DispatcherStep(d)))
    /\ \A d \in Dispatchers, ep \in Endpoints : SF_progressVars(WebhooksMove(Post(d, ep)))

ProgressSpec == ProgressInit /\ [][ProgressNext]_progressVars /\ ProgressFairness
=============================================================================
