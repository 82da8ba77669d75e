----------------------------- MODULE PairingProofs -----------------------------
(* Theorems about Pairing, for any agents, guilds, commands and codes, any
   lifetime of a code and any patience. *)
EXTENDS Pairing, FiniteSetTheorems, TLAPS

ShareType ==
    [step : {"idle", "refused"}]
      \cup [step : {"create"}, agent : Agent]
      \cup [step : {"issued"}, agent : Agent, code : Code, at : Nat,
            usedBy : SUBSET (Pairer \X Nat)]

PairType ==
    [guild : Guild \cup {None}, agent : Agent \cup {None}, deadline : Nat,
     code : Code \cup {None}]

\* TypeOK, with what it leaves open: the frames of the two commands.
Typed ==
    /\ TypeOK
    /\ codes \in [DOMAIN codes -> Entry]
    /\ share \in [Sharer -> ShareType]
    /\ pair \in [Pairer -> PairType]
    /\ \A p \in Pairer : pc[p] \in {"find", "asking", "waiting", "save"} =>
          pair[p].agent \in Agent /\ pair[p].guild \in Guild

LEMMA InitTyped == Init => Typed
<1> SUFFICES ASSUME Init PROVE Typed
    OBVIOUS
<1>1. /\ NoShare \in ShareType /\ NoShare.step = "idle"
      /\ NoPair \in PairType /\ NoPair.agent = None
      BY DEF NoShare, NoPair, ShareType, PairType
<1>2. /\ \A s \in Sharer : share[s] = NoShare
      /\ \A p \in Pairer : pair[p] = NoPair /\ pc[p] = "idle"
      /\ share \in [Sharer -> ShareType] /\ pair \in [Pairer -> PairType]
      /\ codes \in [DOMAIN codes -> Entry] /\ DOMAIN codes = {}
      BY <1>1 DEF Init
<1>3. now \in 0 .. MaxTime
      BY PairingAssumption DEF Init
<1>4. /\ connected \subseteq Agent /\ links \in [Guild -> Agent \cup {None}]
      /\ pc \in [Pairer -> {"idle", "find", "asking", "waiting", "save"} \cup Reply]
      /\ offers \in [Agent -> {"none", "pending", "approved", "rejected"}]
      /\ answer \in [Pairer -> {"none", "approved", "rejected", "error"}]
      BY DEF Init
<1>5. QED
      BY <1>1, <1>2, <1>3, <1>4 DEF Typed, TypeOK

\* The steps of /shareagent keep the types.
LEMMA FindAgentTyped ==
    ASSUME Typed, NEW s \in Sharer, NEW g \in Guild, FindAgent(s, g)
    PROVE  Typed'
<1> DEFINE new == IF Shareable(g) THEN [step |-> "create", agent |-> links[g]]
                  ELSE [step |-> "refused"]
<1>1. new \in ShareType /\ new.step \in {"create", "refused"}
      BY DEF Typed, TypeOK, Shareable, ShareType
<1>2. share' = [share EXCEPT ![s] = new]
      BY DEF FindAgent
<1> HIDE DEF new
<1>3. /\ share' \in [Sharer -> ShareType]
      /\ \A t \in Sharer : share'[t].step \in {"idle", "refused", "create", "issued"}
      BY <1>1, <1>2 DEF Typed, TypeOK
<1>4. QED
      BY <1>3 DEF FindAgent, Typed, TypeOK

LEMMA CreateCodeTyped ==
    ASSUME Typed, NEW s \in Sharer, CreateCode(s)
    PROVE  Typed'
<1>1. /\ now \in Nat /\ Lifetime \in Nat /\ now + Lifetime \in Nat
      /\ share[s] \in ShareType /\ share[s].step = "create"
      BY PairingAssumption DEF Typed, TypeOK, CreateCode
<1>2. share[s].agent \in Agent
      BY <1>1 DEF ShareType
<1>3. /\ Unexpired \subseteq DOMAIN codes /\ Unexpired \subseteq Code
      /\ \A d \in Unexpired : codes[d] \in Entry
      BY DEF Unexpired, Typed, TypeOK
<1>4. ASSUME NEW c \in Free,
             codes' = [d \in Unexpired \cup {c} |->
                         IF d = c THEN [uuid |-> share[s].agent, by |-> s,
                                        expiresAt |-> now + Lifetime]
                         ELSE codes[d]],
             share' = [share EXCEPT ![s] =
                [step |-> "issued", agent |-> @.agent, code |-> c, at |-> now, usedBy |-> {}]]
      PROVE  Typed'
      <2>1. [uuid |-> share[s].agent, by |-> s, expiresAt |-> now + Lifetime] \in Entry
            BY <1>1, <1>2 DEF Entry
      <2>2. /\ codes' \in [DOMAIN codes' -> Entry] /\ DOMAIN codes' \subseteq Code
            /\ \A d \in DOMAIN codes' : codes'[d] \in Entry
            BY <1>3, <1>4, <2>1 DEF Free
      <2>3. [step |-> "issued", agent |-> share[s].agent, code |-> c, at |-> now,
             usedBy |-> {}] \in ShareType
            BY <1>1, <1>2, <1>4 DEF Free, ShareType
      <2>4. /\ share' \in [Sharer -> ShareType]
            /\ \A t \in Sharer : share'[t].step \in {"idle", "refused", "create", "issued"}
            BY <1>4, <2>3 DEF Typed, TypeOK
      <2>5. QED
            BY <2>2, <2>4 DEF CreateCode, Typed, TypeOK
<1>5. ASSUME codes' = [d \in Unexpired |-> codes[d]],
             share' = [share EXCEPT ![s] = [step |-> "refused"]]
      PROVE  Typed'
      <2>1. [step |-> "refused"] \in ShareType
            BY DEF ShareType
      <2>2. /\ codes' \in [DOMAIN codes' -> Entry] /\ DOMAIN codes' \subseteq Code
            /\ \A d \in DOMAIN codes' : codes'[d] \in Entry
            BY <1>3, <1>5
      <2>3. /\ share' \in [Sharer -> ShareType]
            /\ \A t \in Sharer : share'[t].step \in {"idle", "refused", "create", "issued"}
            BY <1>5, <2>1 DEF Typed, TypeOK
      <2>4. QED
            BY <2>2, <2>3 DEF CreateCode, Typed, TypeOK
<1>6. QED
      BY <1>4, <1>5 DEF CreateCode

LEMMA ConfirmTyped ==
    ASSUME Typed, NEW p \in Pairer, NEW g \in Guild, NEW a \in Agent, Confirm(p, g, a)
    PROVE  Typed'
<1>1. now + Patience \in Nat
      BY PairingAssumption DEF Typed, TypeOK
<1>2. [guild |-> g, agent |-> a, deadline |-> now + Patience, code |-> None] \in PairType
      BY <1>1 DEF PairType
<1>3. /\ pair' \in [Pairer -> PairType] /\ pair'[p].agent = a /\ pair'[p].guild = g
      /\ \A q \in Pairer \ {p} : pair'[q] = pair[q] /\ pc'[q] = pc[q]
      /\ \A q \in Pairer : pair'[q].agent \in Agent \cup {None}
      BY <1>2 DEF Confirm, Goto, Typed, TypeOK
<1>4. pc' \in [Pairer -> {"idle", "find", "asking", "waiting", "save"} \cup Reply]
      BY DEF Confirm, Goto, Typed, TypeOK
<1>5. QED
      BY <1>3, <1>4 DEF Confirm, Typed, TypeOK

\* What a code that is accepted gives the command, and leaves behind.
LEMMA ConsumeEffect ==
    ASSUME Typed, NEW p \in Pairer, NEW g \in Guild, NEW c \in Code, Consume(p, g, c)
    PROVE  /\ pc[p] = "idle"
           /\ codes' = [d \in DOMAIN codes \ {c} |-> codes[d]]
           /\ \/ /\ c \in DOMAIN codes /\ codes[c].expiresAt > now
                 /\ pair' = [pair EXCEPT ![p] = [guild |-> g, agent |-> codes[c].uuid,
                                                 deadline |-> 0, code |-> c]]
                 /\ share' = [s \in Sharer |->
                       IF s = codes[c].by
                       THEN [share[s] EXCEPT !.usedBy = @ \cup {<<p, now>>}] ELSE share[s]]
                 /\ Goto(p, "find")
              \/ /\ ~Valid(c) /\ Goto(p, "invalid") /\ UNCHANGED <<pair, share>>
           /\ UNCHANGED <<now, offers, answer, connected, links, consent>>
BY DEF Consume, Remaining, Valid

\* An entry is that of a code which was handed out and not used: the details of
\* the code are those of the call that made it.
CodesOK ==
    \A c \in DOMAIN codes :
       /\ Issued(codes[c].by)
       /\ share[codes[c].by].code = c
       /\ share[codes[c].by].agent = codes[c].uuid
       /\ share[codes[c].by].usedBy = {}
       /\ codes[c].expiresAt = share[codes[c].by].at + Lifetime

\* One use at most, and in time.
UsedOK ==
    \A s \in Sharer : Issued(s) =>
       \/ share[s].usedBy = {}
       \/ \E p \in Pairer, t \in Nat : /\ share[s].usedBy = {<<p, t>>}
                                       /\ t < share[s].at + Lifetime

\* What the answers on their way and the agents' approvals have in common.
ConsentOK ==
    /\ \A p \in Pairer : pc[p] \in {"idle", "find"} => answer[p] = "none"
    /\ \A p \in Pairer :
          \/ pc[p] = "save"
          \/ pc[p] = "asking" /\ answer[p] = "approved"
          \/ pc[p] = "waiting" /\ offers[pair[p].agent] = "approved"
          => <<pair[p].agent, pair[p].guild>> \in consent

CodesInv == CodesOK /\ UsedOK /\ CodeStands

IInv == Typed /\ CodesInv /\ ConsentOK

LEMMA IssuedFields ==
    ASSUME Typed, NEW s \in Sharer
    PROVE  Issued(s) => /\ share[s] \in [step : {"issued"}, agent : Agent, code : Code,
                                         at : Nat, usedBy : SUBSET (Pairer \X Nat)]
                        /\ share[s].at \in Nat /\ share[s].at + Lifetime \in Nat
<1>1. share[s] \in ShareType
      BY DEF Typed
<1>2. Issued(s) => share[s] \in [step : {"issued"}, agent : Agent, code : Code,
                                 at : Nat, usedBy : SUBSET (Pairer \X Nat)]
      BY <1>1 DEF Issued, ShareType
<1>3. QED
      BY <1>2, PairingAssumption

LEMMA InitInv == Init => IInv
<1> SUFFICES ASSUME Init PROVE IInv
    OBVIOUS
<1>1. Typed
      BY InitTyped
<1>2. /\ \A s \in Sharer : ~Issued(s)
      /\ DOMAIN codes = {}
      /\ \A p \in Pairer : pc[p] = "idle" /\ answer[p] = "none"
      BY DEF Init, Issued, NoShare
<1>3. QED
      BY <1>1, <1>2 DEF IInv, CodesInv, CodesOK, UsedOK, CodeStands, ConsentOK

\* Whatever changes neither the codes nor the calls that made them.
LEMMA CodesSame ==
    ASSUME Typed, CodesInv, UNCHANGED <<codes, share>>, now' >= now, now' \in Nat
    PROVE  CodesInv'
<1>1. now \in Nat /\ \A s \in Sharer : Issued(s) => share[s].at + Lifetime \in Nat
      BY IssuedFields DEF Typed, TypeOK
<1>2. \A s \in Sharer : Issued(s)' <=> Issued(s)
      BY DEF Issued
<1>3. CodesOK' /\ UsedOK'
      BY <1>2 DEF CodesInv, CodesOK, UsedOK, Typed, Entry, Issued
<1>4. CodeStands'
      BY <1>1, <1>2 DEF CodesInv, CodeStands
<1>5. QED
      BY <1>3, <1>4 DEF CodesInv

\* The entry of a code that stands.
LEMMA StandingEntry ==
    ASSUME Typed, CodesInv, NEW s \in Sharer, Issued(s), share[s].usedBy = {},
           now < share[s].at + Lifetime
    PROVE  /\ share[s].code \in DOMAIN codes
           /\ codes[share[s].code].by = s
           /\ codes[share[s].code].expiresAt > now
<1>1. /\ share[s].code \in DOMAIN codes
      /\ codes[share[s].code] = [uuid |-> share[s].agent, by |-> s,
                                 expiresAt |-> share[s].at + Lifetime]
      BY Zenon DEF CodesInv, CodeStands
<1>2. now \in Nat /\ share[s].at + Lifetime \in Nat
      BY IssuedFields DEF Typed, TypeOK
<1>3. QED
      BY <1>1, <1>2

LEMMA FindAgentCodes ==
    ASSUME Typed, CodesInv, NEW s \in Sharer, NEW g \in Guild, FindAgent(s, g)
    PROVE  CodesInv'
<1>1. /\ ~Issued(s) /\ ~Issued(s)'
      /\ \A t \in Sharer \ {s} : share'[t] = share[t]
      /\ UNCHANGED <<codes, now>>
      BY DEF FindAgent, Issued, NoShare, Typed
<1>2. \A t \in Sharer : Issued(t)' => Issued(t) /\ t # s /\ share'[t] = share[t]
      BY <1>1 DEF Issued
<1>3. \A c \in DOMAIN codes : codes[c].by \in Sharer \ {s}
      BY <1>1 DEF CodesInv, CodesOK, Typed, Entry
<1>4. CodesOK'
      BY <1>1, <1>3 DEF CodesInv, CodesOK, Issued
<1>5. UsedOK' /\ CodeStands'
      BY <1>1, <1>2 DEF CodesInv, UsedOK, CodeStands
<1>6. QED
      BY <1>4, <1>5 DEF CodesInv

\* A new code takes the entry of no code that still stands.
LEMMA CreateCodeCodes ==
    ASSUME Typed, CodesInv, NEW s \in Sharer, CreateCode(s)
    PROVE  CodesInv'
<1>1. /\ share[s].step = "create" /\ ~Issued(s) /\ now' = now /\ now \in Nat
      BY DEF CreateCode, Issued, Typed, TypeOK
<1>2. \A d \in DOMAIN codes : codes[d].by \in Sharer \ {s}
      BY <1>1 DEF CodesInv, CodesOK, Typed, Entry
<1>3. Unexpired \subseteq DOMAIN codes /\ \A d \in Unexpired : codes[d].expiresAt > now
      BY DEF Unexpired
<1>4. ASSUME NEW t \in Sharer, Issued(t), share[t].usedBy = {}, now < share[t].at + Lifetime
      PROVE  share[t].code \in Unexpired
      BY <1>4, StandingEntry DEF Unexpired
<1>5. ASSUME NEW c \in Free,
             codes' = [d \in Unexpired \cup {c} |->
                         IF d = c THEN [uuid |-> share[s].agent, by |-> s,
                                        expiresAt |-> now + Lifetime]
                         ELSE codes[d]],
             share' = [share EXCEPT ![s] =
                [step |-> "issued", agent |-> @.agent, code |-> c, at |-> now, usedBy |-> {}]]
      PROVE  CodesInv'
      <2>1. /\ c \notin Unexpired
            /\ codes'[c] = [uuid |-> share[s].agent, by |-> s, expiresAt |-> now + Lifetime]
            /\ \A d \in Unexpired : codes'[d] = codes[d]
            /\ DOMAIN codes' = Unexpired \cup {c}
            BY <1>5 DEF Free
      <2>2. /\ share'[s] = [step |-> "issued", agent |-> share[s].agent, code |-> c,
                            at |-> now, usedBy |-> {}]
            /\ \A t \in Sharer \ {s} : share'[t] = share[t]
            BY <1>5 DEF Typed
      <2>3. CodesOK'
            BY <1>2, <1>3, <2>1, <2>2 DEF CodesInv, CodesOK, Issued
      <2>4. UsedOK'
            BY <2>2 DEF CodesInv, UsedOK, Issued
      <2>5. CodeStands'
            <3>1. ASSUME NEW t \in Sharer, Issued(t)', share'[t].usedBy = {},
                         now' < share'[t].at + Lifetime
                  PROVE  /\ share'[t].code \in DOMAIN codes'
                         /\ codes'[share'[t].code] =
                              [uuid |-> share'[t].agent, by |-> t,
                               expiresAt |-> share'[t].at + Lifetime]
                  <4>1. CASE t = s
                        BY <2>1, <2>2, <4>1
                  <4>2. CASE t # s
                        BY <1>1, <1>4, <2>1, <2>2, <3>1, <4>2 DEF Issued, CodesInv, CodeStands
                  <4>3. QED
                        BY <4>1, <4>2
            <3>2. QED
                  BY <3>1 DEF CodeStands
      <2>6. QED
            BY <2>3, <2>4, <2>5 DEF CodesInv
<1>6. ASSUME codes' = [d \in Unexpired |-> codes[d]],
             share' = [share EXCEPT ![s] = [step |-> "refused"]]
      PROVE  CodesInv'
      <2>1. /\ ~Issued(s)'
            /\ \A t \in Sharer \ {s} : share'[t] = share[t]
            /\ \A t \in Sharer : Issued(t)' => Issued(t) /\ t # s /\ share'[t] = share[t]
            BY <1>6 DEF Typed, Issued
      <2>2. CodesOK'
            BY <1>2, <1>3, <1>6, <2>1 DEF CodesInv, CodesOK, Issued
      <2>3. UsedOK'
            BY <2>1 DEF CodesInv, UsedOK
      <2>4. CodeStands'
            BY <1>1, <1>4, <1>6, <2>1 DEF CodesInv, CodeStands
      <2>5. QED
            BY <2>2, <2>3, <2>4 DEF CodesInv
<1>7. QED
      BY <1>5, <1>6 DEF CreateCode

\* A code that is tried is used once, by the command that found it in time, or
\* was none that stands.
LEMMA ConsumeCodes ==
    ASSUME Typed, CodesInv, NEW p \in Pairer, NEW g \in Guild, NEW c \in Code, Consume(p, g, c)
    PROVE  Typed' /\ CodesInv'
<1>1. /\ DOMAIN codes' = DOMAIN codes \ {c}
      /\ \A d \in DOMAIN codes' : codes'[d] = codes[d]
      /\ codes' \in [DOMAIN codes' -> Entry]
      /\ now' = now /\ now \in Nat
      <2>1. codes' = [d \in DOMAIN codes \ {c} |-> codes[d]] /\ now' = now
            BY ConsumeEffect
      <2>2. now \in Nat /\ \A d \in DOMAIN codes : codes[d] \in Entry
            BY DEF Typed, TypeOK
      <2>3. QED
            BY <2>1, <2>2
<1>2. CASE /\ ~Valid(c) /\ Goto(p, "invalid") /\ UNCHANGED <<pair, share>>
      <2>1. Typed'
            BY <1>1, <1>2, ConsumeEffect DEF Goto, Reply, Typed, TypeOK
      <2>2. \A s \in Sharer : Issued(s)' <=> Issued(s)
            BY <1>2 DEF Issued
      <2>3. CodesOK' /\ UsedOK'
            BY <1>1, <1>2, <2>2 DEF CodesInv, CodesOK, UsedOK, Issued
      <2>4. CodeStands'
            <3>1. ASSUME NEW s \in Sharer, Issued(s), share[s].usedBy = {},
                         now < share[s].at + Lifetime
                  PROVE  share[s].code # c
                  BY <1>2, <3>1, StandingEntry DEF Valid
            <3>2. QED
                  BY <1>1, <1>2, <2>2, <3>1 DEF CodesInv, CodeStands
      <2>5. QED
            BY <2>1, <2>3, <2>4 DEF CodesInv
<1>3. CASE /\ c \in DOMAIN codes /\ codes[c].expiresAt > now
           /\ pair' = [pair EXCEPT ![p] = [guild |-> g, agent |-> codes[c].uuid,
                                           deadline |-> 0, code |-> c]]
           /\ share' = [s \in Sharer |->
                 IF s = codes[c].by
                 THEN [share[s] EXCEPT !.usedBy = @ \cup {<<p, now>>}] ELSE share[s]]
           /\ Goto(p, "find")
      <2> DEFINE b == codes[c].by
      <2>1. /\ codes[c] \in Entry /\ b \in Sharer /\ Issued(b) /\ share[b].usedBy = {}
            /\ share[b].code = c /\ codes[c].expiresAt = share[b].at + Lifetime
            BY <1>3 DEF CodesInv, CodesOK, Typed, TypeOK, Entry
      <2>2. share[b] \in [step : {"issued"}, agent : Agent, code : Code, at : Nat,
                          usedBy : SUBSET (Pairer \X Nat)]
            BY <2>1, IssuedFields
      <2>3. /\ share'[b] = [share[b] EXCEPT !.usedBy = {<<p, now>>}]
            /\ \A s \in Sharer \ {b} : share'[s] = share[s]
            /\ DOMAIN share' = Sharer
            BY <1>3, <2>1, <2>2
      <2> HIDE DEF b
      <2>4. /\ share'[b] \in [step : {"issued"}, agent : Agent, code : Code, at : Nat,
                              usedBy : SUBSET (Pairer \X Nat)]
            /\ share'[b].usedBy = {<<p, now>>} /\ share'[b].at = share[b].at
            /\ share'[b].step = "issued"
            BY <1>1, <2>2, <2>3
      <2>5. share' \in [Sharer -> ShareType]
            <3>1. share'[b] \in ShareType
                  BY <2>4 DEF ShareType
            <3>2. share' = [s \in Sharer |-> share'[s]]
                  BY <1>3
            <3>3. QED
                  BY <2>1, <2>3, <3>1, <3>2 DEF Typed
      <2>6. Typed'
            <3>1. [guild |-> g, agent |-> codes[c].uuid, deadline |-> 0, code |-> c] \in PairType
                  /\ codes[c].uuid \in Agent
                  BY <2>1 DEF PairType, Entry
            <3>2. /\ pair' \in [Pairer -> PairType]
                  /\ pair'[p].agent \in Agent /\ pair'[p].guild = g
                  /\ \A q \in Pairer \ {p} : pair'[q] = pair[q]
                  BY <1>3, <3>1 DEF Typed
            <3>3. /\ pc' \in [Pairer -> {"idle", "find", "asking", "waiting", "save"} \cup Reply]
                  /\ pc'[p] = "find" /\ \A q \in Pairer \ {p} : pc'[q] = pc[q]
                  BY <1>3 DEF Goto, Typed, TypeOK
            <3>4. /\ \A q \in Pairer : pair'[q].agent \in Agent \cup {None}
                  /\ \A q \in Pairer : pc'[q] \in {"find", "asking", "waiting", "save"} =>
                        pair'[q].agent \in Agent /\ pair'[q].guild \in Guild
                  BY <3>2, <3>3 DEF Typed, TypeOK
            <3>5. \A s \in Sharer : share'[s].step \in {"idle", "refused", "create", "issued"}
                  BY <2>1, <2>3, <2>4 DEF Typed, TypeOK
            <3>6. /\ now' \in 0 .. MaxTime /\ DOMAIN codes' \subseteq Code
                  /\ \A d \in DOMAIN codes' : codes'[d] \in Entry
                  /\ UNCHANGED <<offers, answer, connected, links>>
                  BY <1>1, ConsumeEffect DEF Typed, TypeOK
            <3>7. QED
                  BY <1>1, <2>5, <3>2, <3>3, <3>4, <3>5, <3>6 DEF Typed, TypeOK
      <2>7. \A d \in DOMAIN codes' : codes'[d].by # b /\ codes'[d].by \in Sharer
            BY <1>1, <2>1 DEF CodesInv, CodesOK, Entry
      <2>8. CodesOK'
            BY <1>1, <2>3, <2>7 DEF CodesInv, CodesOK, Issued
      <2>9. \A s \in Sharer \ {b} : Issued(s)' <=> Issued(s)
            BY <2>3 DEF Issued
      <2>10. UsedOK'
            <3>1. now < share[b].at + Lifetime
                  BY <1>1, <1>3, <2>1, <2>2, PairingAssumption
            <3>2. QED
                  BY <1>1, <2>3, <2>4, <2>9, <3>1 DEF CodesInv, UsedOK
      <2>11. CodeStands'
            <3>1. ASSUME NEW s \in Sharer \ {b}, Issued(s), share[s].usedBy = {},
                         now < share[s].at + Lifetime
                  PROVE  share[s].code # c
                  BY <3>1, StandingEntry DEF b
            <3>2. ASSUME NEW s \in Sharer, Issued(s)', share'[s].usedBy = {},
                         now' < share'[s].at + Lifetime
                  PROVE  /\ share'[s].code \in DOMAIN codes'
                         /\ codes'[share'[s].code] =
                              [uuid |-> share'[s].agent, by |-> s,
                               expiresAt |-> share'[s].at + Lifetime]
                  <4>1. s # b
                        BY <2>4, <3>2
                  <4>2. share'[s] = share[s] /\ Issued(s) /\ share[s].code # c
                        BY <1>1, <2>3, <2>9, <3>1, <3>2, <4>1
                  <4>3. QED
                        BY <1>1, <3>2, <4>2 DEF CodesInv, CodeStands
            <3>3. QED
                  BY <3>2 DEF CodeStands
      <2>12. QED
            BY <2>6, <2>8, <2>10, <2>11 DEF CodesInv
<1>4. CASE Valid(c)
      BY <1>3, <1>4 DEF Consume, Valid
<1>5. CASE ~Valid(c)
      BY <1>2, <1>5 DEF Consume
<1>6. QED
      BY <1>4, <1>5

\* The other steps: nothing of the codes or the frames changes, but where a
\* command stands, the answers and the links.
LEMMA OthersTyped ==
    ASSUME Typed, CodesInv,
           \/ \E p \in Pairer : Continue(p)
           \/ \E a \in Agent : Offer(a) \/ Leave(a)
           \/ \E yes \in BOOLEAN : \/ \E a \in Agent : AnswerOffer(a, yes)
                                   \/ \E p \in Pairer : AnswerShare(p, yes)
           \/ Tick \/ UNCHANGED vars
    PROVE  Typed' /\ CodesInv'
<1>1. /\ UNCHANGED <<codes, share, pair>>
      /\ now' \in 0 .. MaxTime /\ now' >= now /\ now' \in Nat
      <2>1. /\ UNCHANGED <<codes, share, pair>>
            /\ now' = now \/ (now < MaxTime /\ now' = now + 1)
            BY DEF Continue, AskAgent, ShareAnswered, PairingAnswered, Save, Offer, Leave,
                   AnswerOffer, AnswerShare, Tick, vars
      <2>2. now \in 0 .. MaxTime /\ MaxTime \in Nat
            BY PairingAssumption DEF Typed, TypeOK
      <2>3. QED
            BY <2>1, <2>2
<1>2. CodesInv'
      BY <1>1, CodesSame
<1>3. ASSUME NEW p \in Pairer, Continue(p)
      PROVE  /\ pc' \in [Pairer -> {"idle", "find", "asking", "waiting", "save"} \cup Reply]
             /\ links' \in [Guild -> Agent \cup {None}]
             /\ \A q \in Pairer : pc'[q] \in {"find", "asking", "waiting", "save"} =>
                   pair[q].agent \in Agent /\ pair[q].guild \in Guild
             /\ UNCHANGED <<offers, answer, connected>>
      <2>1. /\ pc[p] \in {"find", "asking", "waiting", "save"}
            /\ pair[p].agent \in Agent /\ pair[p].guild \in Guild
            BY <1>3 DEF Continue, AskAgent, ShareAnswered, PairingAnswered, Save, Typed
      <2>2. \E label \in {"asking", "save"} \cup Reply : pc' = [pc EXCEPT ![p] = label]
            BY <1>3 DEF Continue, AskAgent, ShareAnswered, PairingAnswered, Save, Goto, Reply,
                        Unsaved
      <2>3. links' \in [Guild -> Agent \cup {None}]
            BY <1>3, <2>1 DEF Continue, AskAgent, ShareAnswered, PairingAnswered, Save,
                              Typed, TypeOK
      <2>4. pc' \in [Pairer -> {"idle", "find", "asking", "waiting", "save"} \cup Reply]
            BY <2>2 DEF Typed, TypeOK
      <2>5. \A q \in Pairer : pc'[q] \in {"find", "asking", "waiting", "save"} =>
               pair[q].agent \in Agent /\ pair[q].guild \in Guild
            BY <2>1, <2>2 DEF Typed, TypeOK
      <2>6. UNCHANGED <<offers, answer, connected>>
            BY <1>3 DEF Continue, AskAgent, ShareAnswered, PairingAnswered, Save
      <2>7. QED
            BY <2>3, <2>4, <2>5, <2>6
<1>4. CASE \E p \in Pairer : Continue(p)
      BY <1>1, <1>2, <1>3, <1>4 DEF Typed, TypeOK
<1>5. CASE ~\E p \in Pairer : Continue(p)
      <2>1. UNCHANGED <<pc, links>>
            BY <1>5 DEF Offer, Leave, AnswerOffer, AnswerShare, Tick, vars
      <2>2. /\ offers' \in [Agent -> {"none", "pending", "approved", "rejected"}]
            /\ answer' \in [Pairer -> {"none", "approved", "rejected", "error"}]
            /\ connected' \subseteq Agent
            BY <1>5 DEF Offer, Leave, AnswerOffer, AnswerShare, Tick, vars, Typed, TypeOK
      <2>3. QED
            BY <1>1, <1>2, <2>1, <2>2 DEF Typed, TypeOK
<1>6. QED
      BY <1>4, <1>5

LEMMA NextCodes ==
    ASSUME Typed, CodesInv, [Next]_vars
    PROVE  Typed' /\ CodesInv'
<1>1. ASSUME NEW s \in Sharer, CreateCode(s) \/ \E g \in Guild : FindAgent(s, g)
      PROVE  Typed' /\ CodesInv'
      BY <1>1, CreateCodeTyped, CreateCodeCodes, FindAgentTyped, FindAgentCodes
<1>2. ASSUME NEW p \in Pairer, NEW g \in Guild, NEW a \in Agent, Confirm(p, g, a)
      PROVE  Typed' /\ CodesInv'
      <2>1. Typed'
            BY <1>2, ConfirmTyped
      <2>2. UNCHANGED <<codes, share, now>>
            BY <1>2 DEF Confirm
      <2>3. now \in Nat
            BY PairingAssumption DEF Typed, TypeOK
      <2>4. QED
            BY <2>1, <2>2, <2>3, CodesSame
<1>3. QED
      BY <1>1, <1>2, ConsumeCodes, OthersTyped DEF Next

\* The approvals.
LEMMA NextConsent ==
    ASSUME Typed, Typed', ConsentOK, [Next]_vars
    PROVE  ConsentOK'
<1>1. CASE UNCHANGED <<pc, pair, offers, answer, consent>>
      BY <1>1 DEF ConsentOK
<1>2. ASSUME NEW p \in Pairer, NEW g \in Guild, NEW a \in Agent, Confirm(p, g, a)
      PROVE  ConsentOK'
      <2>1. /\ pc[p] = "idle" /\ pc'[p] = "waiting" /\ pair'[p].agent = a
            /\ offers[a] = "pending"
            /\ \A q \in Pairer \ {p} : pc'[q] = pc[q] /\ pair'[q] = pair[q]
            /\ UNCHANGED <<offers, answer, consent>>
            BY <1>2 DEF Confirm, Goto, Typed, TypeOK
      <2>2. QED
            BY <2>1 DEF ConsentOK
<1>3. ASSUME NEW p \in Pairer, NEW g \in Guild, NEW c \in Code, Consume(p, g, c)
      PROVE  ConsentOK'
      <2>1. /\ pc[p] = "idle" /\ \E label \in {"find", "invalid"} : Goto(p, label)
            /\ \E new : pair' \in {pair, [pair EXCEPT ![p] = new]}
            /\ UNCHANGED <<offers, answer, consent>>
            BY <1>3, Zenon DEF Consume
      <2>2. /\ pc'[p] \in {"find", "invalid"}
            /\ \A q \in Pairer \ {p} : pc'[q] = pc[q] /\ pair'[q] = pair[q]
            BY <2>1 DEF Goto, Typed, TypeOK
      <2>3. QED
            BY <2>1, <2>2 DEF ConsentOK
<1>4. ASSUME NEW p \in Pairer, Continue(p)
      PROVE  ConsentOK'
      <2>1. /\ \A q \in Pairer \ {p} : pc'[q] = pc[q]
            /\ UNCHANGED <<pair, offers, answer, consent>>
            BY <1>4 DEF Continue, AskAgent, ShareAnswered, PairingAnswered, Save, Goto,
                        Typed, TypeOK
      <2>2. \/ pc[p] = "find" /\ pc'[p] \in {"asking", "offline"}
            \/ pc[p] = "asking" /\ pc'[p] = "save" /\ answer[p] = "approved"
            \/ pc[p] = "waiting" /\ pc'[p] = "save" /\ offers[pair[p].agent] = "approved"
            \/ pc'[p] \in Reply
            BY <1>4 DEF Continue, AskAgent, ShareAnswered, PairingAnswered, Save, Goto,
                        Typed, TypeOK, Reply, Unsaved, Approved
      <2>3. QED
            BY <2>1, <2>2 DEF ConsentOK, Reply
<1>5. ASSUME NEW a \in Agent, Offer(a) \/ Leave(a)
      PROVE  ConsentOK'
      <2>1. CASE Offer(a)
            BY <2>1 DEF Offer, Typed, TypeOK, ConsentOK
      <2>2. CASE Leave(a)
            BY <2>2 DEF Leave, Typed, TypeOK, ConsentOK
      <2>3. QED
            BY <1>5, <2>1, <2>2
<1>6. ASSUME NEW yes \in BOOLEAN, NEW a \in Agent, AnswerOffer(a, yes)
      PROVE  ConsentOK'
      <2>1. /\ UNCHANGED <<pc, pair, answer>> /\ consent \subseteq consent'
            /\ \A b \in Agent \ {a} : offers'[b] = offers[b]
            /\ offers'[a] = "approved" =>
                  \A q \in Pairer : pc[q] = "waiting" /\ pair[q].agent = a =>
                      <<a, pair[q].guild>> \in consent'
            BY <1>6 DEF AnswerOffer, Typed, TypeOK
      <2>2. \A q \in Pairer : pc[q] = "waiting" => pair[q].agent \in Agent
            BY DEF Typed
      <2>3. QED
            BY <2>1, <2>2 DEF ConsentOK
<1>7. ASSUME NEW yes \in BOOLEAN, NEW p \in Pairer, AnswerShare(p, yes)
      PROVE  ConsentOK'
      <2>1. /\ UNCHANGED <<pc, pair, offers>> /\ consent \subseteq consent' /\ pc[p] = "asking"
            /\ \A q \in Pairer \ {p} : answer'[q] = answer[q]
            /\ answer'[p] = "approved" => <<pair[p].agent, pair[p].guild>> \in consent'
            BY <1>7 DEF AnswerShare, Typed, TypeOK
      <2>2. QED
            BY <2>1 DEF ConsentOK
<1>8. CASE UNCHANGED vars \/ Tick \/ \E s \in Sharer :
              CreateCode(s) \/ \E g \in Guild : FindAgent(s, g)
      BY <1>1, <1>8 DEF vars, Tick, CreateCode, FindAgent
<1>9. QED
      BY <1>2, <1>3, <1>4, <1>5, <1>6, <1>7, <1>8 DEF Next

LEMMA Invariant == Spec => []IInv
<1>1. IInv /\ [Next]_vars => IInv'
      BY NextCodes, NextConsent DEF IInv
<1>2. QED
      BY <1>1, InitInv, PTL DEF Spec

\* Every variable keeps its type.
THEOREM TypeCorrect == Spec => []TypeOK
<1>1. IInv => TypeOK
      BY DEF IInv, Typed
<1>2. QED
      BY <1>1, Invariant, PTL

\* A code is used once at most, and in its time.
THEOREM CodesUsedOnce == Spec => []UsedOnceInTime
<1>1. ASSUME IInv PROVE UsedOnceInTime
      <2>1. SUFFICES ASSUME NEW s \in Sharer, Issued(s)
                     PROVE  /\ Cardinality(share[s].usedBy) <= 1
                            /\ \A u \in share[s].usedBy : u[2] < share[s].at + Lifetime
            BY DEF UsedOnceInTime
      <2>2. CASE share[s].usedBy = {}
            BY <2>2, FS_EmptySet
      <2>3. CASE \E p \in Pairer, t \in Nat : /\ share[s].usedBy = {<<p, t>>}
                                              /\ t < share[s].at + Lifetime
            <3>1. PICK p \in Pairer, t \in Nat : /\ share[s].usedBy = {<<p, t>>}
                                                 /\ t < share[s].at + Lifetime
                  BY <2>3
            <3>2. Cardinality({<<p, t>>}) = 1
                  BY FS_Singleton
            <3>3. <<p, t>>[2] = t
                  OBVIOUS
            <3>4. QED
                  BY <3>1, <3>2, <3>3
      <2>4. QED
            BY <1>1, <2>1, <2>2, <2>3 DEF IInv, CodesInv, UsedOK
<1>2. QED
      BY <1>1, Invariant, PTL

\* A code that was handed out works until it is tried or expires.
THEOREM CodesStand == Spec => []CodeStands
<1>1. IInv => CodeStands
      BY DEF IInv, CodesInv
<1>2. QED
      BY <1>1, Invariant, PTL

\* No guild is given an agent that did not approve it.
THEOREM LinksHaveConsent == Spec => LinkedByConsent
<1>1. ASSUME IInv, [Next]_vars
      PROVE  [\A g \in Guild : links'[g] # links[g] => <<links'[g], g>> \in consent]_vars
      <2>1. ASSUME NEW p \in Pairer, Save(p), NEW g \in Guild, links'[g] # links[g]
            PROVE  <<links'[g], g>> \in consent
            BY <1>1, <2>1 DEF Save, IInv, ConsentOK, Typed, TypeOK
      <2>2. \/ \E p \in Pairer : Save(p)
            \/ links' = links
            BY <1>1 DEF Next, vars, CreateCode, FindAgent, Confirm, Consume, Continue, AskAgent,
                        ShareAnswered, PairingAnswered, Offer, Leave, AnswerOffer, AnswerShare,
                        Tick
      <2>3. QED
            BY <2>1, <2>2
<1>2. QED
      BY <1>1, Invariant, PTL DEF Spec, LinkedByConsent
=============================================================================
