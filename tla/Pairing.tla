------------------------------- MODULE Pairing -------------------------------
(***************************************************************************)
(* PairComponent: /shareagent hands out a code for the agent of a guild,   *)
(* /pair gives an agent to the guild where it is sent, either with such a  *)
(* share code or with the pairing code an agent shows.  Both ask the agent *)
(* first, and wait for its answer while other commands run.                *)
(*                                                                         *)
(* scorch-server is outside the repository: an agent opens a pairing       *)
(* request, confirmPairing finds it by its code, waitUntil returns its     *)
(* answer or Timeout, requestShare returns an answer or throws when the    *)
(* agent goes.  saveAgentGuildId is one step here; IdentityStore and       *)
(* AgentRegistry take it apart.                                            *)
(***************************************************************************)
EXTENDS Naturals, FiniteSets

CONSTANTS
    Agent,      \* agent uuids, each also standing for its pairing code
    Guild,      \* guild ids
    Sharer,     \* the /shareagent interactions
    Pairer,     \* the /pair interactions
    Code,       \* what GenerateShareCode may return
    None,       \* an empty optional, or a null handle
    Lifetime,   \* kShareCodeLifetime, in ticks of the clock
    Patience,   \* how long waitUntil waits, in ticks
    MaxTime     \* bound: ticks of the clock

ASSUME PairingAssumption ==
    /\ None \notin Agent \cup Guild \cup Code
    /\ Agent \cap Code = {}
    /\ Lifetime \in Nat \ {0} /\ Patience \in Nat /\ MaxTime \in Nat

VARIABLES
    now,        \* steady_clock
    codes,      \* m_shareCodes: the details of each code that has an entry
    share,      \* the /shareagent calls: agent, code, and when it was made
    pc,         \* where each /pair call stands, at the end what it replied
    pair,       \* its guild, agent and deadline
    offers,     \* scorch-server: the pairing request of each agent
    answer,     \* scorch-server: an agent's answer to requestShare
    connected,  \* scorch-server: the agents that are connected
    links,      \* the agent each guild is assigned to
    consent     \* history: <<agent, guild>> pairs an agent has approved

vars == <<now, codes, share, pc, pair, offers, answer, connected, links, consent>>

\* ShareCode; by is history: the call that handed the code out.
Entry == [uuid : Agent, by : Sharer, expiresAt : Nat]
NoShare == [step |-> "idle"]
NoPair == [guild |-> None, agent |-> None, deadline |-> 0, code |-> None]

Init ==
    /\ now = 0
    /\ codes = [c \in {} |-> None]
    /\ share = [s \in Sharer |-> NoShare]
    /\ pc = [p \in Pairer |-> "idle"]
    /\ pair = [p \in Pairer |-> NoPair]
    /\ offers = [a \in Agent |-> "none"]
    /\ answer = [p \in Pairer |-> "none"]
    /\ connected \in SUBSET Agent
    /\ links \in [Guild -> Agent \cup {None}]
    /\ consent = {}

Goto(p, label) == pc' = [pc EXCEPT ![p] = label]

-----------------------------------------------------------------------------
(* onShareAgentRequest *)

\* Variation: a guild without an agent is not told apart.
ShareableAlways(g) == TRUE

\* connectedAgent: the guild's agent, if there is one and it is connected.
Shareable(g) == links[g] \in connected

FindAgent(s, g) ==
    /\ share[s] = NoShare
    /\ share' = [share EXCEPT ![s] =
          IF Shareable(g) THEN [step |-> "create", agent |-> links[g]]
          ELSE [step |-> "refused"]]
    /\ UNCHANGED <<now, codes, pc, pair, offers, answer, connected, links, consent>>

Unexpired == {c \in DOMAIN codes : codes[c].expiresAt > now}

\* Variation: a code that is taken is given out again.
FreeOrNot == Code

\* try_emplace keeps the entry of a code that is taken.
Free == Code \ Unexpired

\* createShareCode: expired entries go, then a code that is not taken gets an
\* entry; a hundred attempts may all hit taken ones.
CreateCode(s) ==
    /\ share[s].step = "create"
    /\ \/ \E c \in Free :
             /\ codes' = [d \in Unexpired \cup {c} |->
                            IF d = c THEN [uuid |-> share[s].agent, by |-> s,
                                           expiresAt |-> now + Lifetime]
                            ELSE codes[d]]
             /\ share' = [share EXCEPT ![s] =
                   [step |-> "issued", agent |-> @.agent, code |-> c, at |-> now,
                    usedBy |-> {}]]
       \/ /\ Unexpired # {}
          /\ codes' = [d \in Unexpired |-> codes[d]]
          /\ share' = [share EXCEPT ![s] = [step |-> "refused"]]
    /\ UNCHANGED <<now, pc, pair, offers, answer, connected, links, consent>>

-----------------------------------------------------------------------------
(* onPairRequest *)

\* With a pairing code: confirmPairing finds the agent's request.
Confirm(p, g, a) ==
    /\ pc[p] = "idle"
    /\ offers[a] = "pending"
    /\ now + Patience <= MaxTime      \* bound: the clock covers the wait
    /\ pair' = [pair EXCEPT ![p] =
          [guild |-> g, agent |-> a, deadline |-> now + Patience, code |-> None]]
    /\ Goto(p, "waiting")
    /\ UNCHANGED <<now, codes, share, offers, answer, connected, links, consent>>

\* consumeShareCode erases the entry, expired or not ...
Remaining(c) == DOMAIN codes \ {c}

\* Variation: the entry's lifetime is not looked at.
ValidOnceListed(c) == c \in DOMAIN codes

\* ... and accepts it only before its end.
Valid(c) == c \in DOMAIN codes /\ codes[c].expiresAt > now

\* With anything else: the code is consumed, whatever comes next.
Consume(p, g, c) ==
    /\ pc[p] = "idle"
    /\ codes' = [d \in Remaining(c) |-> codes[d]]
    /\ IF Valid(c)
       THEN /\ pair' = [pair EXCEPT ![p] = [guild |-> g, agent |-> codes[c].uuid,
                                            deadline |-> 0, code |-> c]]
            /\ share' = [s \in Sharer |->
                  IF s = codes[c].by
                  THEN [share[s] EXCEPT !.usedBy = @ \cup {<<p, now>>}]
                  ELSE share[s]]
            /\ Goto(p, "find")
       ELSE /\ Goto(p, "invalid")
            /\ UNCHANGED <<pair, share>>
    /\ UNCHANGED <<now, offers, answer, connected, links, consent>>

\* connectedAgentByUUID, then requestShare.
AskAgent(p) ==
    /\ pc[p] = "find"
    /\ Goto(p, IF pair[p].agent \in connected THEN "asking" ELSE "offline")
    /\ UNCHANGED <<now, codes, share, pair, offers, answer, connected, links, consent>>

\* Variation: an answer of either kind will do.
ApprovedUnlessError(p) == answer[p] \in {"approved", "rejected"}

Approved(p) == answer[p] = "approved"

\* requestShare returned or threw.
ShareAnswered(p) ==
    /\ pc[p] = "asking"
    /\ answer[p] # "none"
    /\ Goto(p, IF answer[p] = "error" THEN "failed"
               ELSE IF Approved(p) THEN "save" ELSE "rejected")
    /\ UNCHANGED <<now, codes, share, pair, offers, answer, connected, links, consent>>

\* Variation: the wait has no end.
OverdueNever(p) == FALSE

Overdue(p) == pair[p].deadline <= now

\* waitUntil returned; a request that was answered in time but is seen late may
\* be reported either way.
PairingAnswered(p) ==
    /\ pc[p] = "waiting"
    /\ \/ /\ offers[pair[p].agent] \in {"approved", "rejected"}
          /\ Goto(p, IF offers[pair[p].agent] = "approved" THEN "save" ELSE "rejected")
       \/ /\ Overdue(p)
          /\ Goto(p, "timedOut")
    /\ UNCHANGED <<now, codes, share, pair, offers, answer, connected, links, consent>>

\* A pairing that cannot be saved is reported as rejected, a share as not saved.
Unsaved(p) == IF pair[p].code = None THEN "rejected" ELSE "unsaved"

\* saveAgentGuildId, and the last reply.
Save(p) ==
    /\ pc[p] = "save"
    /\ \/ /\ links' = [links EXCEPT ![pair[p].guild] = pair[p].agent]
          /\ Goto(p, "linked")
       \/ /\ Goto(p, Unsaved(p))
          /\ UNCHANGED links
    /\ UNCHANGED <<now, codes, share, pair, offers, answer, connected, consent>>

-----------------------------------------------------------------------------
(* scorch-server and the clock *)

\* An agent that is not paired opens a request, once.
Offer(a) ==
    /\ offers[a] = "none"
    /\ offers' = [offers EXCEPT ![a] = "pending"]
    /\ UNCHANGED <<now, codes, share, pc, pair, answer, connected, links, consent>>

\* The agent's user answers the request, having seen who confirmed it.
AnswerOffer(a, yes) ==
    LET waiting == {p \in Pairer : pc[p] = "waiting" /\ pair[p].agent = a}
    IN  /\ offers[a] = "pending"
        /\ waiting # {}
        /\ offers' = [offers EXCEPT ![a] = IF yes THEN "approved" ELSE "rejected"]
        /\ consent' = IF yes THEN consent \cup {<<a, pair[p].guild>> : p \in waiting}
                      ELSE consent
        /\ UNCHANGED <<now, codes, share, pc, pair, answer, connected, links>>

\* The agent answers requestShare.
AnswerShare(p, yes) ==
    /\ pc[p] = "asking"
    /\ answer[p] = "none"
    /\ pair[p].agent \in connected
    /\ answer' = [answer EXCEPT ![p] = IF yes THEN "approved" ELSE "rejected"]
    /\ consent' = IF yes THEN consent \cup {<<pair[p].agent, pair[p].guild>>} ELSE consent
    /\ UNCHANGED <<now, codes, share, pc, pair, offers, connected, links>>

\* An agent goes: what it was asked fails.  Its request to pair is over.
Leave(a) ==
    /\ a \in connected
    /\ connected' = connected \ {a}
    /\ answer' = [p \in Pairer |->
          IF pc[p] = "asking" /\ pair[p].agent = a /\ answer[p] = "none"
          THEN "error" ELSE answer[p]]
    /\ UNCHANGED <<now, codes, share, pc, pair, offers, links, consent>>

Tick ==
    /\ now < MaxTime
    /\ now' = now + 1
    /\ UNCHANGED <<codes, share, pc, pair, offers, answer, connected, links, consent>>

Continue(p) ==
    AskAgent(p) \/ ShareAnswered(p) \/ PairingAnswered(p) \/ Save(p)

Next ==
    \/ \E s \in Sharer : CreateCode(s) \/ \E g \in Guild : FindAgent(s, g)
    \/ \E p \in Pairer, g \in Guild : \/ \E a \in Agent : Confirm(p, g, a)
                                      \/ \E c \in Code : Consume(p, g, c)
    \/ \E p \in Pairer : Continue(p)
    \/ \E a \in Agent : Offer(a) \/ Leave(a)
    \/ \E yes \in BOOLEAN : \/ \E a \in Agent : AnswerOffer(a, yes)
                            \/ \E p \in Pairer : AnswerShare(p, yes)
    \/ Tick

Spec == Init /\ [][Next]_vars

-----------------------------------------------------------------------------
(* Properties *)

Reply == {"linked", "invalid", "offline", "failed", "rejected", "unsaved", "timedOut"}

\* Every variable has its type.
TypeOK ==
    /\ now \in 0 .. MaxTime
    /\ DOMAIN codes \subseteq Code
    /\ \A c \in DOMAIN codes : codes[c] \in Entry
    /\ \A s \in Sharer : share[s].step \in {"idle", "refused", "create", "issued"}
    /\ pc \in [Pairer -> {"idle", "find", "asking", "waiting", "save"} \cup Reply]
    /\ \A p \in Pairer : pair[p].agent \in Agent \cup {None}
    /\ offers \in [Agent -> {"none", "pending", "approved", "rejected"}]
    /\ answer \in [Pairer -> {"none", "approved", "rejected", "error"}]
    /\ connected \subseteq Agent
    /\ links \in [Guild -> Agent \cup {None}]

Issued(s) == share[s].step = "issued"

\* "Within five minutes. This code can only be used once.": each code that was
\* handed out is accepted at most once, and never at the end of its life or
\* after it, however many /pair commands race for it.
UsedOnceInTime ==
    \A s \in Sharer : Issued(s) =>
        /\ Cardinality(share[s].usedBy) <= 1
        /\ \A u \in share[s].usedBy : u[2] < share[s].at + Lifetime

\* A code that was handed out works until it is tried or expires: no other code
\* takes its entry, and pruning takes expired entries only.
CodeStands ==
    \A s \in Sharer : Issued(s) /\ share[s].usedBy = {} /\ now < share[s].at + Lifetime =>
        /\ share[s].code \in DOMAIN codes
        /\ codes[share[s].code] = [uuid |-> share[s].agent, by |-> s,
                                   expiresAt |-> share[s].at + Lifetime]

\* A guild is given an agent only after that agent approved that very guild,
\* whichever of the two kinds of code brought the request.
LinkedByConsent ==
    [][\A g \in Guild : links'[g] # links[g] => <<links'[g], g>> \in consent]_vars

Fairness ==
    /\ \A p \in Pairer : WF_vars(Continue(p))
    /\ WF_vars(Tick)

FairSpec == Spec /\ Fairness

\* A pairing request that nobody answers does not hang: waitUntil ends within its
\* five minutes and the command gets its last reply.
PairingEnds == \A p \in Pairer : pc[p] = "waiting" ~> pc[p] \in Reply
=============================================================================
