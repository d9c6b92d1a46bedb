---------------------------- MODULE OversightMC -----------------------------
(* The places where what an agent does is held to somebody's limits: the   *)
(* turns of a conversation with their permission prompts and folder        *)
(* grants, the step-up authorization manager, the pairing of unknown       *)
(* senders, the browsing sessions with their budgets, and the newsroom     *)
(* with its approvals and its hourly limit.  They share no state, so an    *)
(* instance runs one of them, `part`, and the others stand still.          *)
EXTENDS ToolTurn, Authorization, Pairing, Browsing, Newsroom

VARIABLE part

MCAround == [p \in Paths |-> IF p \in Protected THEN {p} ELSE Paths]
MCBelow == [p \in Paths |-> IF p \in Protected THEN {} ELSE Paths]
MCConfigs == {[rules |-> r, open |-> o] :
    r \in {<<>>, <<[covers |-> Protected, ops |-> {}]>>, <<[covers |-> Paths, ops |-> {"read"}]>>},
    o \in {{}, Paths \X {"read"}}}

MCAuthor == [p \in Feed |-> CHOOSE a \in Authors : TRUE]
MCActions == [x \in Limited |-> 1]

Unconfigured ==
    /\ part # "turns" => mode = [streaming |-> FALSE, skip |-> FALSE, failClosed |-> FALSE,
                                checkpoint |-> FALSE, config |-> [rules |-> <<>>, open |-> {}]]
    /\ part # "authorization" => config = [autoApproveAll |-> FALSE, hitl |-> FALSE]
    /\ part # "newsroom" => ~requireApproval

OversightInit ==
    /\ part \in {"turns", "authorization", "pairing", "browsing", "newsroom"}
    /\ ToolInit /\ AuthInit /\ PairingInit /\ BrowsingInit /\ NewsroomInit
    /\ Unconfigured

OversightNext ==
    /\ UNCHANGED part
    /\ \/ part = "turns" /\ ToolNext /\ UNCHANGED <<authVars, pairingVars, browsingVars, newsroomVars>>
       \/ part = "authorization" /\ AuthNext /\ UNCHANGED <<toolVars, pairingVars, browsingVars, newsroomVars>>
       \/ part = "pairing" /\ PairingNext /\ UNCHANGED <<toolVars, authVars, browsingVars, newsroomVars>>
       \/ part = "browsing" /\ BrowsingNext /\ UNCHANGED <<toolVars, authVars, pairingVars, newsroomVars>>
       \/ part = "newsroom" /\ NewsroomNext /\ UNCHANGED <<toolVars, authVars, pairingVars, browsingVars>>

OversightSpec ==
    /\ OversightInit
    /\ [][OversightNext]_<<toolVars, authVars, pairingVars, browsingVars, newsroomVars, part>>
=============================================================================
