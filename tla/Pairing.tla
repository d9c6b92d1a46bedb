------------------------------ MODULE Pairing -------------------------------
(***************************************************************************)
(* Pairing of unknown senders on one channel: PairingManager               *)
(* (channels/pairing/PairingManager.ts) with its callers, the inbound      *)
(* message handler (cli/commands/start/channel-handler.ts) and the owner's *)
(* routes (cli/commands/start/routes/social.ts).                           *)
(*                                                                         *)
(* The requests and the allowlist are two JSON files, read and replaced as *)
(* a whole, with awaits between and no lock, so every call works on the    *)
(* snapshot it read and may put back what another call has changed since.  *)
(* A read is one step with all that is computed from it, a write (a rename *)
(* over the file) is another.                                              *)
(***************************************************************************)
EXTENDS Integers, FiniteSets

CONSTANTS Senders, Codes, NoSender, NoCode,
          PairingCalls,        \* calls under way at a time
          maxPending

ASSUME PairingAssumption ==
    /\ IsFiniteSet(Senders) /\ IsFiniteSet(Codes)
    /\ NoSender \notin Senders /\ NoCode \notin Codes
    /\ maxPending \in Nat \ {0}

PairingRequests == [id : Senders, code : Codes]

VARIABLES
    pending,    \* requests in <channel>-pairing.json
    allowFrom,  \* senders in <channel>-allowFrom.json
    op,         \* where each call is, and what it is about to write
    issued,     \* codes given to senders (history)
    approved,   \* senders whose request an approveCode found (history)
    talked      \* senders whose message got a turn (history)

pairingVars == <<pending, allowFrom, op, issued, approved, talked>>

Idle == [at |-> "idle", sender |-> NoSender, code |-> NoCode, out |-> {}, list |-> {}]

PairingInit ==
    /\ pending = {} /\ allowFrom = {}
    /\ op = [o \in PairingCalls |-> Idle]
    /\ issued = {} /\ approved = {} /\ talked = {}

-----------------------------------------------------------------------------
(* readJsonFile: the file, or nothing when it cannot be read.              *)
Read(file) == {file, {}}

(* The requests that have not expired: any of them may have.               *)
Fresh(requests) == SUBSET requests

(* pruneExcess; which ones were seen last is left open.                    *)
Capped(requests) ==
    IF Cardinality(requests) <= maxPending THEN {requests}
    ELSE {S \in SUBSET requests : Cardinality(S) = maxPending}

CodesOf(requests) == {r.code : r \in requests}

CallGoes(o, fields) == op' = [op EXCEPT ![o] = fields]
Returns(o) == CallGoes(o, Idle)

Begins(o, fields) ==
    /\ op[o].at = "idle" /\ CallGoes(o, fields)
    /\ UNCHANGED <<pending, allowFrom, issued, approved, talked>>

MessageArrives(o, s) == Begins(o, [Idle EXCEPT !.at = "checking", !.sender = s])
ApproveBegins(o, c) == Begins(o, [Idle EXCEPT !.at = "approving", !.code = c])
RejectBegins(o, c) == Begins(o, [Idle EXCEPT !.at = "rejecting", !.code = c])
ListBegins(o) == Begins(o, [Idle EXCEPT !.at = "listing"])
RemoveBegins(o, s) == Begins(o, [Idle EXCEPT !.at = "removing", !.sender = s])

(* isAllowed: a sender on the list gets a turn, any other is paired.       *)
SenderChecked(o) ==
    /\ op[o].at = "checking"
    /\ \E list \in Read(allowFrom) :
         IF op[o].sender \in list
         THEN Returns(o) /\ talked' = talked \cup {op[o].sender}
         ELSE CallGoes(o, [op[o] EXCEPT !.at = "pairing"]) /\ UNCHANGED talked
    /\ UNCHANGED <<pending, allowFrom, issued, approved>>

Writes(o, requests) == CallGoes(o, [op[o] EXCEPT !.at = "writing", !.out = requests])

(* Mutant: the new request is added before the queue's size is looked at.  *)
UpsertRequestUncapped(o) ==
    /\ op[o].at = "pairing"
    /\ \E file \in Read(pending) : \E requests \in Fresh(file) : \E c \in Codes \ CodesOf(requests) :
         /\ \A r \in requests : r.id # op[o].sender
         /\ Writes(o, requests \cup {[id |-> op[o].sender, code |-> c]})
         /\ issued' = issued \cup {<<op[o].sender, c>>}
    /\ UNCHANGED <<pending, allowFrom, approved, talked>>

(* A sender who has a request keeps its code; a full queue takes no new    *)
(* request; a new one gets a code that no request of the snapshot has.     *)
UpsertRequest(o) ==
    /\ op[o].at = "pairing"
    /\ \E file \in Read(pending) : \E requests \in Fresh(file) : \E kept \in Capped(requests) :
         \/ /\ (\E r \in requests : r.id = op[o].sender) \/ Cardinality(kept) >= maxPending
            /\ Writes(o, kept) /\ UNCHANGED issued
         \/ /\ (\A r \in requests : r.id # op[o].sender) /\ Cardinality(kept) < maxPending
            /\ \E c \in Codes \ CodesOf(requests) :
                 /\ Writes(o, kept \cup {[id |-> op[o].sender, code |-> c]})
                 /\ issued' = issued \cup {<<op[o].sender, c>>}
    /\ UNCHANGED <<pending, allowFrom, approved, talked>>

(* listRequests writes only when it pruned something.                      *)
RequestsListed(o) ==
    /\ op[o].at = "listing"
    /\ \E file \in Read(pending) : \E requests \in Fresh(file) : \E kept \in Capped(requests) :
         IF kept = file THEN Returns(o) ELSE Writes(o, kept)
    /\ UNCHANGED <<pending, allowFrom, issued, approved, talked>>

RejectCode(o) ==
    /\ op[o].at = "rejecting"
    /\ \E file \in Read(pending) :
         LET kept == {r \in file : r.code # op[o].code} IN
         IF kept = file THEN Returns(o) ELSE Writes(o, kept)
    /\ UNCHANGED <<pending, allowFrom, issued, approved, talked>>

(* approveCode up to its first write.                                      *)
ApproveCode(o) ==
    /\ op[o].at = "approving"
    /\ \E file \in Read(pending) : \E requests \in Fresh(file) :
         \/ op[o].code \notin CodesOf(requests) /\ Writes(o, requests) /\ UNCHANGED approved
         \/ \E r \in requests :
              /\ r.code = op[o].code
              /\ CallGoes(o, [op[o] EXCEPT !.at = "unlisting", !.out = requests \ {r}, !.sender = r.id])
              /\ approved' = approved \cup {r.id}
    /\ UNCHANGED <<pending, allowFrom, issued, talked>>

(* The requests are replaced; approveCode goes on to the allowlist.        *)
RequestsWritten(o) ==
    /\ \/ op[o].at = "writing" /\ Returns(o)
       \/ op[o].at = "unlisting" /\ CallGoes(o, [op[o] EXCEPT !.at = "admitting", !.out = {}])
    /\ pending' = op[o].out
    /\ UNCHANGED <<allowFrom, issued, approved, talked>>

(* addToAllowlist and removeFromAllowlist up to their writes.              *)
AddToAllowlist(o) ==
    /\ op[o].at = "admitting"
    /\ \E list \in Read(allowFrom) :
         IF op[o].sender \in list THEN Returns(o)
         ELSE CallGoes(o, [op[o] EXCEPT !.at = "replacing", !.list = list \cup {op[o].sender}])
    /\ UNCHANGED <<pending, allowFrom, issued, approved, talked>>

RemoveFromAllowlist(o) ==
    /\ op[o].at = "removing"
    /\ \E list \in Read(allowFrom) :
         IF op[o].sender \notin list THEN Returns(o)
         ELSE CallGoes(o, [op[o] EXCEPT !.at = "replacing", !.list = list \ {op[o].sender}])
    /\ UNCHANGED <<pending, allowFrom, issued, approved, talked>>

AllowlistWritten(o) ==
    /\ op[o].at = "replacing"
    /\ allowFrom' = op[o].list
    /\ Returns(o)
    /\ UNCHANGED <<pending, issued, approved, talked>>

(* A call that throws: a write fails.                                      *)
CallFails(o) ==
    /\ op[o].at \in {"writing", "unlisting", "replacing"}
    /\ Returns(o)
    /\ UNCHANGED <<pending, allowFrom, issued, approved, talked>>

(* The process ends and starts again: the files stay.                      *)
Crash ==
    /\ op' = [o \in PairingCalls |-> Idle]
    /\ UNCHANGED <<pending, allowFrom, issued, approved, talked>>

PairingNext ==
    \/ \E o \in PairingCalls :
         \/ \E s \in Senders : MessageArrives(o, s) \/ RemoveBegins(o, s)
         \/ \E c \in Codes : ApproveBegins(o, c) \/ RejectBegins(o, c)
         \/ ListBegins(o)
         \/ SenderChecked(o) \/ UpsertRequest(o) \/ RequestsListed(o) \/ RejectCode(o)
         \/ ApproveCode(o) \/ RequestsWritten(o) \/ AddToAllowlist(o)
         \/ RemoveFromAllowlist(o) \/ AllowlistWritten(o) \/ CallFails(o)
    \/ Crash

PairingSpec == PairingInit /\ [][PairingNext]_pairingVars
-----------------------------------------------------------------------------
CallStages == {"idle", "checking", "pairing", "listing", "rejecting", "approving", "writing",
           "unlisting", "admitting", "removing", "replacing"}

PairingTypeOK ==
    /\ pending \subseteq PairingRequests /\ allowFrom \subseteq Senders
    /\ op \in [PairingCalls -> [at : CallStages, sender : Senders \cup {NoSender},
                         code : Codes \cup {NoCode}, out : SUBSET PairingRequests,
                         list : SUBSET Senders]]
    /\ issued \subseteq Senders \X Codes
    /\ approved \subseteq Senders /\ talked \subseteq Senders

(* What the file of requests may hold: no more than maxPending requests,   *)
(* one per sender, no code twice, and only codes their senders were given. *)
WellFormed(requests) ==
    /\ Cardinality(requests) <= maxPending
    /\ \A r, q \in requests : r.id = q.id \/ r.code = q.code => r = q
    /\ \A r \in requests : <<r.id, r.code>> \in issued

(* However reads and writes of overlapping calls fall, and whatever a      *)
(* crash cuts off, every version of the file of requests is well formed.   *)
RequestsWellFormed ==
    /\ WellFormed(pending)
    /\ \A o \in PairingCalls : WellFormed(op[o].out)

(* Nobody is on the allowlist, or gets a turn, whose request the owner did *)
(* not approve by a code that was given to this very sender.               *)
OnlyApprovedAdmitted ==
    /\ allowFrom \cup talked \subseteq approved
    /\ \A o \in PairingCalls :
        /\ op[o].list \subseteq approved
        /\ op[o].at \in {"unlisting", "admitting"} => op[o].sender \in approved
    /\ \A s \in approved : \E c \in Codes : <<s, c>> \in issued

PairingInv == PairingTypeOK /\ RequestsWellFormed /\ OnlyApprovedAdmitted
=============================================================================
