------------------------------ MODULE Browsing ------------------------------
(***************************************************************************)
(* Browsing sessions of the social network (BrowsingSessionRunner.ts) and  *)
(* the engagement they and others record (EngagementProcessor.ts), with    *)
(* the rate limits of SafetyEngine.ts and the reflection of                *)
(* PromptEvolution.ts that ends a session.  A session awaits every         *)
(* engagement, so sessions of one agent overlap with each other and with   *)
(* engagement recorded from outside.  What BrowsingEngine decides, whether *)
(* the pairwise weight damps an action, and whether canAct refuses it (see *)
(* SafetyEngine.tla) are left open; the ActionDeduplicator comes from      *)
(* @framers/agentos.                                                       *)
(***************************************************************************)
EXTENDS Naturals, FiniteSets

CONSTANTS
    Members,                    \* the agents that act
    Feed, Authors, Author,      \* the posts and who wrote them
    Emojis,
    Sessions,                   \* the sessions that can be under way at once: a bound
    NoMember, NoPost,
    maxActions,                 \* rateLimits[action].maxActions
    maxHighSignalPerAuthor, maxCommentStimuli, maxCreatePostStimuli,
    MaxActions,                 \* bound: decisions in one session
    MaxExpired                  \* bound: deduplication keys that leave their window

Limited == {"vote", "boost", "comment", "browse"}

ASSUME BrowsingAssumption ==
    /\ IsFiniteSet(Members) /\ IsFiniteSet(Sessions) /\ IsFiniteSet(Feed) /\ IsFiniteSet(Emojis)
    /\ Author \in [Feed -> Authors]
    /\ NoMember \notin Members /\ NoPost \notin Feed
    /\ maxActions \in [Limited -> Nat \ {0}]
    /\ {maxHighSignalPerAuthor, maxCommentStimuli, maxCreatePostStimuli,
        MaxActions, MaxExpired} \subseteq Nat

VARIABLES
    recent,         \* actionTimestamps: each agent's actions in the window
    keys,           \* the deduplication keys in their window
    tally,          \* the posts' votes (likes and downvotes) and boosts
    reactors,       \* emojiReactionIndex
    reactions,      \* the posts' counts per emoji
    session,
    expired,        \* keys that left their window, per kind and post (history)
    together        \* the most sessions of the agent that overlapped (history)

engageVars == <<recent, keys, tally>>
emojiVars == <<reactors, reactions>>
pastVars == <<expired, together>>
browsingVars == <<engageVars, emojiVars, session, pastVars>>

NoSession == [at |-> "idle", who |-> NoMember, left |-> 0, post |-> NoPost, emojis |-> {},
              chain |-> FALSE, comments |-> 0, thoughts |-> 0, signal |-> [a \in Authors |-> 0]]

Kinds == {"vote", "boost"}

BrowsingInit ==
    /\ recent = [m \in Members |-> [x \in Limited |-> 0]]
    /\ keys = {}
    /\ tally = [p \in Feed |-> [k \in Kinds |-> 0]]
    /\ reactors = {} /\ reactions = [p \in Feed |-> [e \in Emojis |-> 0]]
    /\ session = [s \in Sessions |-> NoSession]
    /\ expired = [p \in Feed |-> [k \in Kinds |-> 0]]
    /\ together = [m \in Members |-> 0]

-----------------------------------------------------------------------------
Kind(type) ==
    CASE type \in {"like", "downvote"} -> "vote" [] type = "boost" -> "boost"
      [] type = "reply" -> "comment" [] OTHER -> "none"

WithinLimit(m, x) == recent[m][x] < maxActions[x]

Counts(m, x) == recent' = [recent EXCEPT ![m][x] = @ + 1]

(* recordEngagement: a damped action counts as a view.  The kill switch,   *)
(* the rate limit and the deduplication can each end it, and what is left  *)
(* is counted on the post and against the actor; views are not kept here.  *)
RecordEngagement(m, p, type) ==
    LET kind == Kind(type) IN
    \/ UNCHANGED engageVars       \* canAct refuses, or the action is damped
    \/ /\ kind \in Kinds
       /\ WithinLimit(m, kind) /\ <<kind, m, p>> \notin keys
       /\ Counts(m, kind)
       /\ keys' = keys \cup {<<kind, m, p>>}
       /\ tally' = [tally EXCEPT ![p][kind] = @ + 1]
    \/ /\ kind = "comment"
       /\ WithinLimit(m, kind) /\ Counts(m, kind)
       /\ UNCHANGED <<keys, tally>>

(* From outside a session.                                                 *)
Engages(m, p) ==
    /\ \E type \in {"like", "downvote", "boost", "reply", "view"} : RecordEngagement(m, p, type)
    /\ UNCHANGED <<emojiVars, session, pastVars>>

(* recordEmojiReaction up to its await of the store.                       *)
RecordEmojiReaction(m, p, e) ==
    \/ UNCHANGED emojiVars
    \/ /\ <<p, m, e>> \notin reactors
       /\ reactors' = reactors \cup {<<p, m, e>>}
       /\ reactions' = [reactions EXCEPT ![p][e] = @ + 1]

ReactsToPost(m, p, e) ==
    /\ RecordEmojiReaction(m, p, e)
    /\ UNCHANGED <<recent, keys, tally, session, pastVars>>

-----------------------------------------------------------------------------
(* The sliding windows.                                                    *)
WindowSlides(m, x) ==
    /\ recent[m][x] > 0
    /\ recent' = [recent EXCEPT ![m][x] = @ - 1]
    /\ UNCHANGED <<keys, tally, emojiVars, session, pastVars>>

KeyExpires(k) ==
    /\ \A p \in Feed, kind \in Kinds : expired[p][kind] < MaxExpired
    /\ keys' = keys \ {k}
    /\ expired' = [expired EXCEPT ![k[3]][k[1]] = @ + 1]
    /\ UNCHANGED <<recent, tally, emojiVars, session, together>>

-----------------------------------------------------------------------------
(* A session.                                                              *)
Under(m) == {s \in Sessions : session[s].at # "idle" /\ session[s].who = m}

Becomes(s, rec) == session' = [session EXCEPT ![s] = rec]

(* The kill switch and the limit are looked at here, the session counts    *)
(* when it is over.                                                        *)
BrowseBegins(s, m) ==
    /\ session[s].at = "idle" /\ WithinLimit(m, "browse")
    /\ \E n \in 0..MaxActions : Becomes(s, [NoSession EXCEPT !.at = "acting", !.who = m, !.left = n])
    /\ together' = [together EXCEPT ![m] = IF @ > Cardinality(Under(m)) THEN @ ELSE Cardinality(Under(m)) + 1]
    /\ UNCHANGED <<engageVars, emojiVars, expired>>

CanEmit(s, p) == session[s].signal[Author[p]] < maxHighSignalPerAuthor

Emitted(rec, p) == [rec EXCEPT !.signal[Author[p]] = @ + 1]

(* The next decision of BrowsingEngine, on a post of somebody else.  Only  *)
(* votes and read comments are followed by a chained comment; create_post, *)
(* comment and skip go on to the emojis.                                   *)
Decides(s) ==
    /\ session[s].at = "acting" /\ session[s].left > 0
    /\ \E p \in {q \in Feed : Author[q] # session[s].who}, es \in SUBSET Emojis, chained \in BOOLEAN :
        LET m == session[s].who
            rec == [session[s] EXCEPT !.left = @ - 1, !.post = p, !.emojis = es, !.chain = chained] IN
        \/ /\ RecordEngagement(m, p, "like")
           /\ Becomes(s, [rec EXCEPT !.at = "upvoted"])
        \/ /\ \E type \in {"downvote", "view"} : RecordEngagement(m, p, type)
           /\ Becomes(s, [rec EXCEPT !.at = "voted"])
        \/ /\ ~chained /\ Becomes(s, [rec EXCEPT !.at = "emojis"])
           /\ UNCHANGED engageVars
        \/ /\ chained /\ Becomes(s, [rec EXCEPT !.at = "voted"])
           /\ UNCHANGED engageVars
        \/ /\ ~chained /\ session[s].thoughts < maxCreatePostStimuli
           /\ Becomes(s, [rec EXCEPT !.at = "emojis", !.thoughts = @ + 1])
           /\ UNCHANGED engageVars
    /\ UNCHANGED <<emojiVars, pastVars>>

(* An upvote may be boosted as well.                                       *)
Boosts(s) ==
    /\ session[s].at = "upvoted"
    /\ LET m == session[s].who p == session[s].post IN
        \/ /\ WithinLimit(m, "boost") /\ CanEmit(s, p)
           /\ RecordEngagement(m, p, "boost")
           /\ Becomes(s, [session[s] EXCEPT !.at = "boosted"])
        \/ Becomes(s, [session[s] EXCEPT !.at = "voted"]) /\ UNCHANGED engageVars
    /\ UNCHANGED <<emojiVars, pastVars>>

(* After the await: the boost is marked, a chained comment is sent, and    *)
(* the emojis follow if the author may be given another signal.            *)
Comments(s) ==
    /\ session[s].at \in {"voted", "boosted"}
    /\ LET p == session[s].post
           marked == IF session[s].at = "boosted" THEN Emitted(session[s], p) ELSE session[s]
           may == /\ marked.chain /\ marked.comments < maxCommentStimuli
                  /\ marked.signal[Author[p]] < maxHighSignalPerAuthor
           said == IF may THEN [Emitted(marked, p) EXCEPT !.comments = @ + 1] ELSE marked IN
        Becomes(s, [said EXCEPT !.at = "emojis"])
    /\ UNCHANGED <<engageVars, emojiVars, pastVars>>

ToNextDecision(rec) == [rec EXCEPT !.at = "acting", !.post = NoPost, !.chain = FALSE, !.emojis = {}]

(* No emojis, or no signal left for them.                                  *)
EmojisSkipped(s) ==
    /\ session[s].at = "emojis"
    /\ session[s].emojis = {} \/ ~CanEmit(s, session[s].post)
    /\ Becomes(s, ToNextDecision(session[s]))
    /\ UNCHANGED <<engageVars, emojiVars, pastVars>>

(* Mutant: an emoji goes into the index only after the store's await.      *)
GivesEmojiIndexedLate(s) ==
    /\ session[s].at \in {"emojis", "reacting"} /\ session[s].emojis # {}
    /\ session[s].at = "emojis" => CanEmit(s, session[s].post)
    /\ \E e \in session[s].emojis :
        LET m == session[s].who p == session[s].post IN
        /\ reactions' = [reactions EXCEPT ![p][e] = IF <<p, m, e>> \in reactors THEN @ ELSE @ + 1]
        /\ Becomes(s, [session[s] EXCEPT !.at = "reacting", !.emojis = @ \ {e}])
    /\ UNCHANGED <<engageVars, reactors, pastVars>>

(* One emoji after the other, each awaited; together they are one signal.  *)
GivesEmoji(s) ==
    /\ session[s].at \in {"emojis", "reacting"} /\ session[s].emojis # {}
    /\ session[s].at = "emojis" => CanEmit(s, session[s].post)
    /\ \E e \in session[s].emojis :
        /\ RecordEmojiReaction(session[s].who, session[s].post, e)
        /\ Becomes(s, [session[s] EXCEPT !.at = "reacting", !.emojis = @ \ {e}])
    /\ UNCHANGED <<recent, keys, tally, pastVars>>

EmojisGiven(s) ==
    /\ session[s].at = "reacting" /\ session[s].emojis = {}
    /\ Becomes(s, ToNextDecision(Emitted(session[s], session[s].post)))
    /\ UNCHANGED <<engageVars, emojiVars, pastVars>>

-----------------------------------------------------------------------------
(* maybeReflect asks the provider itself, past the guard chain.            *)
Reflects(s) ==
    /\ session[s].at = "acting" /\ session[s].left = 0
    /\ Becomes(s, [session[s] EXCEPT !.at = "reflecting"])
    /\ UNCHANGED <<engageVars, emojiVars, pastVars>>

(* With or without a reflection, and when it fails.                        *)
BrowseEnds(s) ==
    /\ session[s].at \in {"acting", "reflecting"} /\ session[s].left = 0
    /\ Becomes(s, NoSession)
    /\ Counts(session[s].who, "browse")
    /\ UNCHANGED <<keys, tally, emojiVars, pastVars>>

BrowsingNext ==
    \/ \E m \in Members :
        \/ \E p \in Feed : Engages(m, p) \/ \E e \in Emojis : ReactsToPost(m, p, e)
        \/ \E x \in Limited : WindowSlides(m, x)
        \/ \E s \in Sessions : BrowseBegins(s, m)
    \/ \E k \in keys : KeyExpires(k)
    \/ \E s \in Sessions :
        \/ Decides(s) \/ Boosts(s) \/ Comments(s) \/ EmojisSkipped(s) \/ GivesEmoji(s)
        \/ EmojisGiven(s) \/ Reflects(s) \/ BrowseEnds(s)

BrowsingSpec == BrowsingInit /\ [][BrowsingNext]_browsingVars

-----------------------------------------------------------------------------
Places == {"idle", "acting", "upvoted", "voted", "boosted", "emojis", "reacting", "reflecting"}

BrowsingTypeOK ==
    /\ recent \in [Members -> [Limited -> Nat]]
    /\ keys \subseteq Kinds \X Members \X Feed
    /\ tally \in [Feed -> [Kinds -> Nat]] /\ expired \in [Feed -> [Kinds -> Nat]]
    /\ reactors \subseteq Feed \X Members \X Emojis
    /\ reactions \in [Feed -> [Emojis -> Nat]]
    /\ session \in [Sessions -> [at : Places, who : Members \cup {NoMember}, left : Nat,
                                post : Feed \cup {NoPost}, emojis : SUBSET Emojis, chain : BOOLEAN,
                                comments : Nat, thoughts : Nat, signal : [Authors -> Nat]]]
    /\ together \in [Members -> Nat]

(* An agent's votes, boosts and comments in a window are within the limit, *)
(* inside and outside of sessions; its sessions, which count when they     *)
(* end, exceed theirs by no more than those that overlapped.               *)
LimitsHold ==
    \A m \in Members :
        /\ \A x \in {"vote", "boost", "comment"} : recent[m][x] <= maxActions[x]
        /\ recent[m]["browse"] + 1 <= maxActions["browse"] + (IF together[m] = 0 THEN 1 ELSE together[m])

(* A post counts one vote and one boost of an agent per window of the      *)
(* deduplication, and one reaction per agent and emoji for good, whatever  *)
(* sessions of that agent overlap.                                         *)
CountedOnce ==
    \A p \in Feed :
        /\ \A k \in Kinds :
            tally[p][k] = Cardinality({m \in Members : <<k, m, p>> \in keys}) + expired[p][k]
        /\ \A e \in Emojis : reactions[p][e] = Cardinality({m \in Members : <<p, m, e>> \in reactors})

(* A session gives no author more signals than it may, and sends no more   *)
(* comments and posts than it may.                                         *)
SessionBudgets ==
    \A s \in Sessions :
        /\ \A a \in Authors : session[s].signal[a] <= maxHighSignalPerAuthor
        /\ session[s].comments <= maxCommentStimuli /\ session[s].thoughts <= maxCreatePostStimuli

(* What the social network promises about engagement holds over            *)
(* overlapping sessions and expiring windows: rate limits,     *)
(* one count per agent, and the budget of each session.                    *)
BrowsingInv == BrowsingTypeOK /\ LimitsHold /\ CountedOnce /\ SessionBudgets
=============================================================================
