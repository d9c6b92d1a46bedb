---------------------------- MODULE AgentTurnsMC ----------------------------
(* The network: one citizen with two overlapping turns, registered up to   *)
(* twice by calls that can overlap, and thresholds of two, so every guard  *)
(* trips after calls that overlapped and after calls that did not; or two  *)
(* citizens of the enclaves.  Registration is in both, each from its side, *)
(* and neither reads the rest of the other, so an instance runs one of     *)
(* them, `part`, and the other stands still.  Both stores are set, or none.*)
EXTENDS AgentTurns, Enclaves

CONSTANTS c1, intro, own

VARIABLE part

MCInterests == {<<c1, own>>}
MCAlike == {<<intro, own>>}
MCStored == {<<c1, own>>}

(* Turns, registrars and handles are told apart by nothing but their name. *)
SlotsAlike == Permutations(Slots) \cup Permutations(Registrars) \cup Permutations(Timers)

NetworkInit ==
    /\ part \in {"turns", "enclaves"}
    /\ Init /\ EnclavesInit
    /\ part # "enclaves" => ~enclaveStore
    /\ moodStore = enclaveStore

NetworkNext ==
    /\ UNCHANGED part
    /\ \/ part = "turns" /\ Next /\ UNCHANGED enclaveVars
       \/ part = "enclaves" /\ EnclavesNext /\ UNCHANGED vars

NetworkSpec == NetworkInit /\ [][NetworkNext]_<<vars, enclaveVars, part>>
=============================================================================
