------------------------------ MODULE Enclaves ------------------------------
(***************************************************************************)
(* The enclaves of autonomy/social: EnclaveRegistry.ts, its initialization *)
(* by WonderlandNetwork.ts and the governance handlers that hold on to a   *)
(* registry.  initializeEnclaveSystem looks at its flag when it is called  *)
(* and sets it when it ends, with awaits in between, so calls overlap:     *)
(* each replaces the registry and the mood engine the network uses, and    *)
(* goes on with whatever the network uses by then.  A registry and its     *)
(* mood engine go by the call that created them.  The adapters are         *)
(* external: they answer anything or reject, and saves are fire-and-forget *)
(* calls to them, left out.  Tags are reduced to which ones overlap.       *)
(***************************************************************************)
EXTENDS Naturals, SequencesExt

CONSTANTS
    Residents,          \* the seeds that register as citizens
    Curator,            \* the system seed that creates the default enclaves
    EnclaveNames, Defaults, Introductions,
    Interests,          \* <<seed, name>>: its topics overlap the enclave's tags
    Alike,              \* <<proposed, name>>: the proposal's tags overlap them
    Stored,             \* <<seed, name>>: the memberships the enclave adapter may have
    maxEnclaves,        \* the limit of 50
    Inits, NoInit,      \* the calls of initializeEnclaveSystem: a bound
    MaxChanges          \* bound on the enclaves proposed and the decisions executed

ASSUME EnclavesAssumption ==
    /\ Introductions \in Defaults /\ Defaults \subseteq EnclaveNames
    /\ Interests \cup Stored \subseteq Residents \X EnclaveNames
    /\ Alike \subseteq EnclaveNames \X EnclaveNames
    /\ Curator \notin Residents /\ NoInit \notin Inits
    /\ maxEnclaves \in Nat /\ MaxChanges \in Nat

VARIABLES
    enclaveStore, moodStore, \* the adapters were set before the first call
    residents,          \* citizens, in the order of the Map
    enrolled,           \* the citizens with isActive
    initialized, current,
    registries,         \* of each call: enclaves, members, subscriptions, moderators
    moods,              \* the seeds each call's mood engine knows
    evolving,           \* the seeds the trait evolution in use knows
    browsing,           \* the registry the browsing engine was given
    initAt, initCursor, \* where a call is, and at which citizen
    moodOf,             \* the mood engine a call awaits
    proposedToday,
    changes,            \* how many enclaves were proposed and decisions executed
    banned              \* banned since they were last introduced (history)

setupVars == <<initialized, current, browsing, initAt, initCursor, moodOf>>
enclaveVars == <<enclaveStore, moodStore, residents, enrolled, setupVars, registries, moods,
                 evolving, proposedToday, changes, banned>>

Seeds == Residents \cup {Curator}

EnclavesInit ==
    /\ enclaveStore \in BOOLEAN /\ moodStore \in BOOLEAN
    /\ residents = <<>> /\ enrolled = {} /\ evolving = {} /\ banned = {}
    /\ initialized = FALSE /\ current = NoInit /\ browsing = NoInit
    /\ registries = [i \in Inits |->
                        [enclaves |-> {}, members |-> {}, subscriptions |-> {}, moderators |-> {}]]
    /\ moods = [i \in Inits |-> {}]
    /\ initAt = [i \in Inits |-> "new"] /\ initCursor = [i \in Inits |-> 0]
    /\ moodOf = [i \in Inits |-> NoInit]
    /\ proposedToday = FALSE /\ changes = 0

-----------------------------------------------------------------------------
(* EnclaveRegistry.  A pair is a seed and the name of an enclave; members  *)
(* has it the other way round.                                             *)
Turned(pairs) == {<<p[2], p[1]>> : p \in pairs}

Subscribe(r, pairs) ==
    LET new == {p \in pairs : p[2] \in r.enclaves /\ <<p[2], p[1]>> \notin r.members} IN
    [r EXCEPT !.members = @ \cup Turned(new), !.subscriptions = @ \cup new]

(* Mutant: the subscriptions keep the enclave.                             *)
UnsubscribeHalf(r, pairs) == [r EXCEPT !.members = @ \ Turned(pairs)]

Unsubscribe(r, pairs) ==
    LET gone == {p \in pairs : <<p[2], p[1]>> \in r.members} IN
    [r EXCEPT !.members = @ \ Turned(gone), !.subscriptions = @ \ gone]

(* createEnclave with a name that is not taken; it throws when it is.      *)
CreateEnclave(r, n, creator) ==
    Subscribe([r EXCEPT !.enclaves = @ \cup {n}, !.members = {m \in @ : m[1] # n}],
              {<<creator, n>>})

(* The default enclaves that do not exist yet.                             *)
CreateDefaults(r) ==
    LET new == Defaults \ r.enclaves IN
    Subscribe([r EXCEPT !.enclaves = @ \cup new, !.members = {m \in @ : m[1] \notin new}],
              {<<Curator, n>> : n \in new})

(* Mutant: the members of an enclave that exists are forgotten.            *)
LoadEnclavesAnew(r, names) ==
    [r EXCEPT !.enclaves = @ \cup names, !.members = {m \in @ : m[1] \notin names}]

LoadEnclaves(r, names) ==
    LET new == names \ r.enclaves IN
    [r EXCEPT !.enclaves = @ \cup new, !.members = {m \in @ : m[1] \notin new}]

LoadMemberships(r, pairs) ==
    LET known == {p \in pairs : p[2] \in r.enclaves} IN
    [r EXCEPT !.members = @ \cup Turned(known), !.subscriptions = @ \cup known]

(* The enclaves that match a seed's topics, and introductions.             *)
Welcome(r, seeds) ==
    Subscribe(r, {p \in Interests : p[1] \in seeds} \cup (seeds \X {Introductions}))

-----------------------------------------------------------------------------
(* The loop over the live Map: the k-th citizen's mood is asked for, or    *)
(* after the last one all citizens are welcomed, without an await.         *)
GoesOn(i, k, regs, engine) ==
    IF k <= Len(residents)
    THEN /\ initAt' = [initAt EXCEPT ![i] = "moods"]
         /\ initCursor' = [initCursor EXCEPT ![i] = k]
         /\ moodOf' = [moodOf EXCEPT ![i] = engine]
         /\ registries' = regs
         /\ UNCHANGED <<initialized, banned>>
    ELSE /\ initAt' = [initAt EXCEPT ![i] = "over"]
         /\ initCursor' = [initCursor EXCEPT ![i] = 0]
         /\ moodOf' = [moodOf EXCEPT ![i] = NoInit]
         /\ registries' = [regs EXCEPT ![engine] = Welcome(@, ToSet(residents))]
         /\ initialized' = TRUE
         /\ banned' = {}

(* Everything from the engines to the first mood.                          *)
SetsUp(i, regs, engine) ==
    /\ browsing' = engine
    /\ evolving' = {}
    /\ GoesOn(i, 1, [regs EXCEPT ![engine] = CreateDefaults(@)], engine)

InitializeEnclaveSystem(i) ==
    /\ initAt[i] = "new" /\ ~initialized
    /\ current' = i
    /\ IF enclaveStore
       THEN /\ initAt' = [initAt EXCEPT ![i] = "enclaves"]
            /\ UNCHANGED <<initialized, browsing, initCursor, moodOf, registries, evolving, banned>>
       ELSE SetsUp(i, registries, i)
    /\ UNCHANGED <<enclaveStore, moodStore, residents, enrolled, moods, proposedToday, changes>>

EnclavesLoaded(i) ==
    /\ initAt[i] = "enclaves"
    /\ \E names \in SUBSET {p[2] : p \in Stored} :
        registries' = [registries EXCEPT ![i] = LoadEnclaves(@, names)]
    /\ initAt' = [initAt EXCEPT ![i] = "memberships"]
    /\ UNCHANGED <<enclaveStore, moodStore, residents, enrolled, initialized, current, moods,
                   browsing, evolving, initCursor, moodOf, proposedToday, changes, banned>>

(* The defaults go to the registry in use, which may be a later call's.    *)
MembershipsLoaded(i) ==
    /\ initAt[i] = "memberships"
    /\ \E pairs \in SUBSET Stored :
        SetsUp(i, [registries EXCEPT ![i] = LoadMemberships(@, pairs)], current)
    /\ UNCHANGED <<enclaveStore, moodStore, residents, enrolled, current, moods, proposedToday,
                   changes>>

(* A stored mood goes to the engine that asked, a new one to the engine in *)
(* use by then.                                                            *)
MoodAnswered(i, loaded) ==
    /\ initAt[i] = "moods" /\ (loaded => moodStore)
    /\ LET c == residents[initCursor[i]] IN
        /\ moods' = [moods EXCEPT ![IF loaded THEN moodOf[i] ELSE current] = @ \cup {c}]
        /\ evolving' = evolving \cup {c}
    /\ GoesOn(i, initCursor[i] + 1, registries, current)
    /\ UNCHANGED <<enclaveStore, moodStore, residents, enrolled, current, browsing, proposedToday,
                   changes>>

(* An adapter rejects, and the call with it.                               *)
InitializationFails(i) ==
    /\ initAt[i] \in (IF enclaveStore THEN {"enclaves", "memberships"} ELSE {})
                     \cup (IF moodStore THEN {"moods"} ELSE {})
    /\ initAt' = [initAt EXCEPT ![i] = "failed"]
    /\ UNCHANGED <<enclaveStore, moodStore, residents, enrolled, initialized, current, registries,
                   moods, browsing, evolving, initCursor, moodOf, proposedToday, changes, banned>>

-----------------------------------------------------------------------------
(* registerCitizen after its await: the Map keeps the place of a seed that *)
(* was unregistered.                                                       *)
JoinsMap(c) ==
    /\ c \notin enrolled
    /\ enrolled' = enrolled \cup {c}
    /\ residents' = IF c \in ToSet(residents) THEN residents ELSE Append(residents, c)

(* Mutant: only a citizen the Map did not have is welcomed.                *)
RegisterResidentOnce(c) ==
    /\ JoinsMap(c)
    /\ IF initialized /\ residents' # residents
       THEN /\ moods' = [moods EXCEPT ![current] = @ \cup {c}]
            /\ evolving' = evolving \cup {c}
            /\ registries' = [registries EXCEPT ![current] = Welcome(@, {c})]
            /\ banned' = banned \ {c}
       ELSE UNCHANGED moods /\ UNCHANGED <<evolving, registries>> /\ banned' = banned \ {c}
    /\ UNCHANGED <<enclaveStore, moodStore, setupVars, proposedToday, changes>>

RegisterResident(c) ==
    /\ JoinsMap(c)
    /\ IF initialized
       THEN /\ moods' = [moods EXCEPT ![current] = @ \cup {c}]
            /\ evolving' = evolving \cup {c}
            /\ registries' = [registries EXCEPT ![current] = Welcome(@, {c})]
            /\ banned' = banned \ {c}
       ELSE UNCHANGED <<moods, evolving, registries, banned>>
    /\ UNCHANGED <<enclaveStore, moodStore, setupVars, proposedToday, changes>>

UnregisterResident(c) ==
    /\ c \in enrolled
    /\ enrolled' = enrolled \ {c}
    /\ UNCHANGED <<enclaveStore, moodStore, residents, setupVars, registries, moods, evolving,
                   proposedToday, changes, banned>>

Changes == changes < MaxChanges /\ changes' = changes + 1

(* tryCreateAgentEnclave, on the registry in use: an enclave that matches  *)
(* is joined instead, the first in the Map's order, which is left open.    *)
Matches(n) == {m \in registries[current].enclaves : <<n, m>> \in Alike}
Full == Cardinality(registries[current].enclaves) >= maxEnclaves
Creates(n) == Matches(n) = {} /\ ~Full /\ n \notin registries[current].enclaves

TryCreateAgentEnclave(c, n) ==
    /\ Changes /\ current # NoInit
    /\ \E best \in IF Matches(n) = {} THEN {n} ELSE Matches(n) :
        registries' = [registries EXCEPT ![current] =
            IF Matches(n) = {} /\ Full THEN @
            ELSE IF Creates(n) THEN CreateEnclave(@, n, c) ELSE Subscribe(@, {<<c, best>>})]
    /\ UNCHANGED <<enclaveStore, moodStore, residents, enrolled, setupVars, moods, evolving, banned>>

(* Called from outside, for any citizen.                                   *)
AgentCreatesEnclave(c, n) == TryCreateAgentEnclave(c, n) /\ UNCHANGED proposedToday

(* maybeProposesNewEnclave, for the author of a published post.            *)
PostProposesEnclave(c, n) ==
    /\ current # NoInit /\ ~proposedToday /\ ~Full
    /\ c \in ToSet(residents)
    /\ TryCreateAgentEnclave(c, n)
    /\ proposedToday' = Creates(n)

DayPasses ==
    /\ proposedToday /\ proposedToday' = FALSE
    /\ UNCHANGED <<enclaveStore, moodStore, residents, enrolled, setupVars, registries, moods,
                   evolving, changes, banned>>

(* The governance handlers, made for registry i when it was in use.        *)
EnclaveApproved(i, c, n) ==
    /\ Changes /\ initAt[i] # "new" /\ n \notin registries[i].enclaves
    /\ LET founded == CreateEnclave(registries[i], n, c) IN
        registries' = [registries EXCEPT ![i] =
            [founded EXCEPT !.moderators = @ \cup {<<c, n>>}]]
    /\ UNCHANGED <<enclaveStore, moodStore, residents, enrolled, setupVars, moods, evolving,
                   proposedToday, banned>>

AgentBanned(i, c, scope) ==
    /\ Changes /\ initAt[i] # "new"
    /\ registries' = [registries EXCEPT ![i] =
            Unsubscribe(@, IF scope = {} THEN {p \in @.subscriptions : p[1] = c} ELSE {c} \X scope)]
    /\ banned' = IF i = current /\ (scope = {} \/ Introductions \in scope)
                 THEN banned \cup {c} ELSE banned
    /\ UNCHANGED <<enclaveStore, moodStore, residents, enrolled, setupVars, moods, evolving,
                   proposedToday>>

EnclavesNext ==
    \/ \E i \in Inits : \/ InitializeEnclaveSystem(i) \/ EnclavesLoaded(i) \/ MembershipsLoaded(i)
                        \/ \E loaded \in BOOLEAN : MoodAnswered(i, loaded)
                        \/ InitializationFails(i)
    \/ \E c \in Residents : RegisterResident(c) \/ UnregisterResident(c)
    \/ \E c \in Residents, n \in EnclaveNames : AgentCreatesEnclave(c, n) \/ PostProposesEnclave(c, n)
    \/ DayPasses
    \/ \E i \in Inits, c \in Residents :
        \/ \E n \in EnclaveNames : EnclaveApproved(i, c, n)
        \/ \E scope \in {{}} \cup {{n} : n \in EnclaveNames} : AgentBanned(i, c, scope)

EnclavesSpec == EnclavesInit /\ [][EnclavesNext]_enclaveVars

-----------------------------------------------------------------------------
RegistryTypeOK(r) ==
    /\ r.enclaves \subseteq EnclaveNames
    /\ r.members \subseteq EnclaveNames \X Seeds
    /\ r.subscriptions \subseteq Seeds \X EnclaveNames
    /\ r.moderators \subseteq Seeds \X EnclaveNames

Mirrored(r) ==
    \A c \in Seeds, n \in EnclaveNames : <<n, c>> \in r.members <=> <<c, n>> \in r.subscriptions

(* In every registry, the one in use and those the handlers still hold, an *)
(* enclave's members are exactly the seeds subscribed to it, and only      *)
(* enclaves that exist have members or moderators: loading from storage    *)
(* across two awaits, created and default enclaves, welcomes and bans.     *)
EnclaveInv ==
    \A i \in Inits :
        /\ RegistryTypeOK(registries[i]) /\ Mirrored(registries[i])
        /\ \A p \in registries[i].subscriptions \cup registries[i].moderators :
            p[2] \in registries[i].enclaves

(* Once the enclave system is initialized, no call of the initialization   *)
(* is under way and none failed, everything works on the registry in use   *)
(* and every citizen, whenever it registered, has a mood, evolves and is   *)
(* in the introductions enclave unless it was banned since.                *)
CitizensIntroduced ==
    initialized /\ (\A i \in Inits : initAt[i] \in {"new", "over"}) =>
        /\ browsing = current
        /\ \A c \in ToSet(residents) :
            /\ c \in moods[current] /\ c \in evolving
            /\ c \in banned \/ <<Introductions, c>> \in registries[current].members
=============================================================================
