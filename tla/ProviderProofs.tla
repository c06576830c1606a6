--------------------------- MODULE ProviderProofs ---------------------------
(***************************************************************************)
(* Proofs about the Provider client and the composition of sources, for    *)
(* any number of Providers and Capabilities and any times.                 *)
(***************************************************************************)
EXTENDS ProviderClient, WellFoundedInduction, TLAPS

\* How old what a call goes by may be, by what the call has taken so far.  A
\* call about to look again finds something stored since it began.
CallInOrder(c) ==
    /\ call[c].pc = "idle" => call[c] = NoCall
    /\ call[c].pc # "idle" =>
         built /\ slot[c].by = "provider" /\ call[c].age <= CallTimeout
    /\ call[c].pc = "store" => call[c].basis <= call[c].age
    /\ call[c].pc = "reread" => known[slot[c].p].at <= call[c].age
    /\ call[c].pc = "read" => call[c].basis <= TTL + CallTimeout + call[c].age

\* An answer is stored at most one call's time after it was given.
KnownInOrder == \A p \in Providers : known[p].since <= known[p].at + CallTimeout

ClientInv ==
    /\ TypeOK /\ FallbackKept /\ KnownInOrder
    /\ \A c \in Capabilities : CallInOrder(c)

-----------------------------------------------------------------------------
(***************************************************************************)
(* The slots.                                                              *)
(***************************************************************************)
LEMMA FirstIsIn == ASSUME NEW S, S \subseteq Providers, S # {} PROVE First(S) \in S
<1>1. S \subseteq Nat
  BY ClientConstants DEF Providers
<1>2. PICK m \in S : \A k \in S : ~(<<k, m>> \in OpToRel(<, Nat))
  BY <1>1, WFMin, NatLessThanWellFounded, Zenon
<1>3. ASSUME NEW k \in S PROVE m <= k
  <2>1. k \in Nat /\ m \in Nat
    BY <1>1
  <2>2. ~(k < m)
    BY <1>2, <2>1 DEF OpToRel
  <2> QED BY <2>1, <2>2
<1> QED BY <1>2, <1>3 DEF First

LEMMA SlotFacts ==
    ASSUME NEW c \in Capabilities, NEW reached, reached \subseteq Providers,
           serves \in [Providers -> SUBSET Capabilities]
    PROVE  /\ SlotFor(c, reached) \in Slots
           /\ SlotFor(c, reached).by = "provider" => SlotFor(c, reached).p \in Providers
           /\ SlotFor(c, reached).by = "provider" /\ c \in Fallback =>
                SlotFor(c, reached).p \in reached
<1> DEFINE declaring == {p \in reached : c \in serves[p]}
           undiscovered == Providers \ reached
<1>1. declaring # {} => First(declaring) \in reached /\ First(declaring) \in Providers
  <2>1. declaring # {} => First(declaring) \in declaring
    BY FirstIsIn
  <2> QED BY <2>1
<1>2. undiscovered # {} => First(undiscovered) \in Providers
  BY FirstIsIn
<1>3. Providers \subseteq 0..N /\ 0 \in 0..N
  BY ClientConstants DEF Providers
<1> DEFINE s == SlotFor(c, reached)
<1>4. \/ declaring # {} /\ s = [by |-> "provider", p |-> First(declaring)]
      \/ c \notin Fallback /\ undiscovered # {} /\ s = [by |-> "provider", p |-> First(undiscovered)]
      \/ s = [by |-> "fallback", p |-> 0]
      \/ s = [by |-> "unimplemented", p |-> 0]
      \/ s = [by |-> "nil", p |-> 0]
  BY DEF SlotFor
<1> HIDE DEF s, declaring, undiscovered
<1>5. /\ s \in Slots
      /\ s.by = "provider" => s.p \in Providers
      /\ s.by = "provider" /\ c \in Fallback => s.p \in reached
  <2>1. CASE declaring # {} /\ s = [by |-> "provider", p |-> First(declaring)]
    <3>1. s.by = "provider" /\ s.p = First(declaring)
      BY <2>1
    <3>2. s \in Slots
      BY <1>1, <1>3, <2>1 DEF Slots
    <3> QED BY <1>1, <2>1, <3>1, <3>2
  <2>2. CASE /\ c \notin Fallback /\ undiscovered # {}
             /\ s = [by |-> "provider", p |-> First(undiscovered)]
    <3>1. s.by = "provider" /\ s.p = First(undiscovered)
      BY <2>2
    <3>2. s \in Slots
      BY <1>2, <1>3, <2>2 DEF Slots
    <3> QED BY <1>2, <2>2, <3>1, <3>2
  <2>3. ASSUME NEW b \in {"fallback", "unimplemented", "nil"}, s = [by |-> b, p |-> 0]
        PROVE  s \in Slots /\ s.by # "provider"
    BY <1>3, <2>3 DEF Slots
  <2> QED BY <1>4, <2>1, <2>2, <2>3
<1> QED BY <1>5 DEF s

-----------------------------------------------------------------------------
(***************************************************************************)
(* Ages.                                                                   *)
(***************************************************************************)
LEMMA OlderFacts ==
    ASSUME NEW x \in Ages
    PROVE  /\ Older(x) \in Ages /\ x <= Older(x) /\ Older(x) <= x + 1
           /\ x < Cap => Older(x) = x + 1
BY ClientConstants DEF Older, Ages

LEMMA CallTyped ==
    ASSUME TypeOK, NEW c \in Capabilities
    PROVE  /\ call[c] \in CallStates /\ call[c].age \in Int /\ call[c].basis \in Int
           /\ call[c].age \in Ages /\ call[c].basis \in Ages /\ call[c].use \subseteq Capabilities
           /\ slot[c] \in Slots
BY DEF TypeOK, CallStates, Ages

LEMMA KnownTyped ==
    ASSUME TypeOK, NEW p \in Providers
    PROVE  /\ known[p] \in Knowledge /\ known[p].at \in Ages /\ known[p].since \in Ages
           /\ known[p].at \in Int /\ known[p].since \in Int
           /\ known[p].declared \subseteq Capabilities
BY DEF TypeOK, Knowledge, Ages

LEMMA NoCallTyped == NoCall \in CallStates /\ NoCall.pc = "idle"
BY ClientConstants DEF NoCall, CallStates, Ages

\* A step of one call, which may renew what its client knows.
LEMMA OneCall ==
    ASSUME ClientInv, NEW c \in Capabilities, UNCHANGED World,
           NEW k \in CallStates, call' = [call EXCEPT ![c] = k],
           shown' \in [Capabilities -> Outcomes],
           known' \in [Providers -> Knowledge], KnownInOrder',
           \A p \in Providers : known'[p].at <= known[p].at /\ (known[p].fresh => known'[p].fresh),
           CallInOrder(c)'
    PROVE  ClientInv'
<1>1. TypeOK'
  BY DEF ClientInv, TypeOK, World
<1>2. FallbackKept'
  BY ClientConstants DEF ClientInv, FallbackKept, TypeOK, World
<1>3. ASSUME NEW d \in Capabilities, d # c PROVE CallInOrder(d)'
  <2>1. call'[d] = call[d] /\ CallInOrder(d) /\ slot'[d] = slot[d] /\ built' = built
    BY <1>3 DEF ClientInv, TypeOK, World
  <2>2. CASE call[d].pc = "reread"
    <3>1. slot[d].p \in Providers
      BY <2>1, <2>2 DEF CallInOrder, ClientInv, TypeOK
    <3>2. known'[slot[d].p].at <= known[slot[d].p].at /\ known[slot[d].p].at <= call[d].age
      BY <2>1, <2>2, <3>1 DEF CallInOrder
    <3>3. known'[slot[d].p].at \in Int /\ known[slot[d].p].at \in Int /\ call[d].age \in Int
      BY <3>1, KnownTyped, CallTyped DEF ClientInv, Knowledge, Ages
    <3>4. known'[slot[d].p].at <= call[d].age
      BY <3>2, <3>3
    <3> QED BY <2>1, <2>2, <3>4 DEF CallInOrder
  <2>3. CASE call[d].pc # "reread"
    BY <2>1, <2>3 DEF CallInOrder
  <2> QED BY <2>2, <2>3
<1> QED BY <1>1, <1>2, <1>3 DEF ClientInv

\* A call that ends.
LEMMA EndCall ==
    ASSUME ClientInv, NEW c \in Capabilities, NEW o \in Outcomes, End(c, o),
           UNCHANGED <<World, known>>
    PROVE  ClientInv'
<1>1. call' = [call EXCEPT ![c] = NoCall] /\ shown' \in [Capabilities -> Outcomes]
  BY DEF End, ClientInv, TypeOK
<1>2. call'[c] = NoCall
  BY <1>1 DEF ClientInv, TypeOK
<1>3. CallInOrder(c)'
  BY <1>2, NoCallTyped DEF CallInOrder
<1>4. known' \in [Providers -> Knowledge] /\ KnownInOrder'
      /\ \A p \in Providers : known'[p].at <= known[p].at /\ (known[p].fresh => known'[p].fresh)
  BY KnownTyped DEF ClientInv, TypeOK, KnownInOrder
<1> QED BY <1>1, <1>3, <1>4, NoCallTyped, OneCall

\* A call that goes on and leaves what its client knows.
LEMMA CallGoesOn ==
    ASSUME ClientInv, NEW c \in Capabilities, NEW k \in CallStates,
           call' = [call EXCEPT ![c] = k], UNCHANGED <<World, known, shown>>, CallInOrder(c)'
    PROVE  ClientInv'
<1>1. known' \in [Providers -> Knowledge] /\ KnownInOrder' /\ shown' \in [Capabilities -> Outcomes]
      /\ \A p \in Providers : known'[p].at <= known[p].at /\ (known[p].fresh => known'[p].fresh)
  BY KnownTyped DEF ClientInv, TypeOK, KnownInOrder
<1> QED BY <1>1, OneCall

\* What a call decides on is recent enough for the time it has taken.
LEMMA DecideInv ==
    ASSUME ClientInv, NEW c \in Capabilities, NEW use, NEW basis \in Ages,
           Decide(c, use, basis), UNCHANGED <<World, known>>,
           slot[c].by = "provider", built, call[c].age <= CallTimeout,
           basis <= TTL + CallTimeout + call[c].age
    PROVE  ClientInv'
<1>1. CASE c \in use
  <2> DEFINE k == [call[c] EXCEPT !.pc = "read", !.basis = basis]
  <2>1. k \in CallStates /\ k.pc = "read" /\ k.basis = basis /\ k.age = call[c].age
    BY CallTyped DEF ClientInv, CallStates
  <2>2. call' = [call EXCEPT ![c] = k] /\ UNCHANGED shown
    BY <1>1 DEF Decide, ClientInv, TypeOK
  <2> HIDE DEF k
  <2>3. call'[c] = k
    BY <2>2 DEF ClientInv, TypeOK
  <2>4. CallInOrder(c)'
    BY <2>1, <2>3 DEF CallInOrder, World
  <2> QED BY <2>1, <2>2, <2>4, CallGoesOn
<1>2. CASE c \notin use
  BY <1>2, EndCall DEF Decide, Outcomes
<1> QED BY <1>1, <1>2

-----------------------------------------------------------------------------
(***************************************************************************)
(* The steps.                                                              *)
(***************************************************************************)
LEMMA InitClient == Init => ClientInv
<1> SUFFICES ASSUME Init PROVE ClientInv
  OBVIOUS
<1>1. Cap \in Ages /\ 0 \in 0..N
  BY ClientConstants DEF Ages
<1>2. known \in [Providers -> Knowledge]
  BY <1>1 DEF Init, Knowledge
<1>3. slot \in [Capabilities -> Slots]
  BY <1>1 DEF Init, Slots
<1>4. TypeOK
  BY <1>2, <1>3, NoCallTyped DEF Init, TypeOK, Outcomes
<1>5. FallbackKept
  BY ClientConstants DEF Init, FallbackKept
<1>6. KnownInOrder
  BY ClientConstants DEF Init, KnownInOrder
<1>7. ASSUME NEW c \in Capabilities PROVE CallInOrder(c)
  BY NoCallTyped DEF Init, CallInOrder
<1> QED BY <1>4, <1>5, <1>6, <1>7 DEF ClientInv

LEMMA BuildInv == ASSUME ClientInv, Build PROVE ClientInv'
<1>1. PICK reached \in SUBSET up :
        /\ known' = [p \in Providers |->
                       IF p \in reached
                       THEN [declared |-> serves[p], fresh |-> TRUE, at |-> 0, since |-> 0]
                       ELSE known[p]]
        /\ slot' = [c \in Capabilities |-> SlotFor(c, reached)]
  BY DEF Build
<1>2. reached \subseteq Providers /\ serves \in [Providers -> SUBSET Capabilities]
  BY DEF ClientInv, TypeOK
<1>3. 0 \in Ages
  BY ClientConstants DEF Ages
<1>4. known' \in [Providers -> Knowledge]
  <2>1. ASSUME NEW p \in Providers
        PROVE  [declared |-> serves[p], fresh |-> TRUE, at |-> 0, since |-> 0] \in Knowledge
    BY <1>2, <1>3 DEF Knowledge
  <2> QED BY <1>1, <2>1 DEF ClientInv, TypeOK
<1>5. /\ slot' \in [Capabilities -> Slots]
      /\ \A c \in Capabilities : slot'[c].by = "provider" => slot'[c].p \in Providers
      /\ \A c \in Fallback : slot'[c].by = "provider" => slot'[c].p \in reached
  BY <1>1, <1>2, SlotFacts, ClientConstants
<1>6. TypeOK'
  BY <1>4, <1>5 DEF Build, ClientInv, TypeOK
<1>7. FallbackKept'
  BY <1>1, <1>2, <1>5 DEF FallbackKept
<1>8. KnownInOrder'
  BY <1>1, ClientConstants DEF ClientInv, KnownInOrder
<1>9. ASSUME NEW c \in Capabilities PROVE CallInOrder(c)'
  <2>1. call[c] = NoCall
    BY DEF ClientInv, CallInOrder, Build
  <2> QED BY <2>1, NoCallTyped DEF Build, CallInOrder
<1> QED BY <1>6, <1>7, <1>8, <1>9 DEF ClientInv

LEMMA StartCallInv == ASSUME ClientInv, NEW c \in Capabilities, StartCall(c) PROVE ClientInv'
<1> DEFINE p == slot[c].p
<1>1. UNCHANGED <<World, known>> /\ built /\ call[c].pc = "idle" /\ slot[c] \in Slots /\ call[c] = NoCall
  BY CallTyped DEF StartCall, ClientInv, CallInOrder
<1>2. call[c].age = 0 /\ 0 <= CallTimeout
  BY <1>1, ClientConstants DEF NoCall
<1>3. CASE slot[c].by = "provider"
  <2>1. p \in Providers
    BY <1>3 DEF ClientInv, TypeOK
  <2>2. CASE Stale(p)
    <3> DEFINE k == [call[c] EXCEPT !.pc = "ask"]
    <3>1. k \in CallStates /\ k.pc = "ask" /\ k.age = call[c].age
      BY CallTyped DEF ClientInv, CallStates
    <3>2. call' = [call EXCEPT ![c] = k] /\ UNCHANGED shown
      BY <1>3, <2>2 DEF StartCall, ClientInv, TypeOK
    <3> HIDE DEF k
    <3>3. call'[c] = k
      BY <3>2 DEF ClientInv, TypeOK
    <3>4. CallInOrder(c)'
      BY <1>1, <1>2, <1>3, <3>1, <3>3 DEF CallInOrder, World
    <3> QED BY <1>1, <3>1, <3>2, <3>4, CallGoesOn
  <2>3. CASE ~Stale(p)
    <3>1. Decide(c, known[p].declared, known[p].since)
      BY <1>3, <2>3 DEF StartCall
    <3>2. known[p].at <= TTL /\ known[p].since <= known[p].at + CallTimeout
          /\ known[p].at \in Int /\ known[p].since \in Int /\ known[p].since \in Ages
      BY <2>1, <2>3, KnownTyped, ClientConstants DEF Stale, ClientInv, KnownInOrder, Knowledge
    <3>3. known[p].since <= TTL + CallTimeout + call[c].age
      BY <1>2, <3>2, ClientConstants
    <3> HIDE DEF p
    <3> QED BY <1>1, <1>2, <1>3, <3>1, <3>2, <3>3, DecideInv
  <2> QED BY <2>2, <2>3
<1>4. CASE slot[c].by # "provider"
  <2>1. \E o \in Outcomes : End(c, o)
    BY <1>1, <1>4 DEF StartCall, Slots, Outcomes
  <2> QED BY <1>1, <2>1, EndCall
<1> QED BY <1>3, <1>4

LEMMA AnswerInv == ASSUME ClientInv, NEW c \in Capabilities, Answer(c) PROVE ClientInv'
<1> DEFINE u == serves[slot[c].p]
           k == [call[c] EXCEPT !.pc = "store", !.use = u, !.basis = 0]
<1>1. /\ call[c].pc = "ask" /\ CallInOrder(c) /\ slot[c].p \in Providers
      /\ UNCHANGED <<World, known, shown>>
  BY DEF Answer, ClientInv, CallInOrder, TypeOK
<1>2. u \subseteq Capabilities /\ 0 \in Ages
  BY <1>1, ClientConstants DEF ClientInv, TypeOK, Ages
<1>3. k \in CallStates /\ k.pc = "store" /\ k.basis = 0 /\ k.age = call[c].age
  BY <1>2, CallTyped DEF ClientInv, CallStates
<1>4. call' = [call EXCEPT ![c] = k]
  BY DEF Answer, ClientInv, TypeOK
<1> HIDE DEF k
<1>5. call'[c] = k
  BY <1>4 DEF ClientInv, TypeOK
<1>6. 0 <= call[c].age
  BY CallTyped, ClientConstants DEF ClientInv, Ages
<1>7. CallInOrder(c)'
  BY <1>1, <1>3, <1>5, <1>6 DEF CallInOrder, World
<1> QED BY <1>1, <1>3, <1>4, <1>7, CallGoesOn

LEMMA StoreInv == ASSUME ClientInv, NEW c \in Capabilities, Store(c) PROVE ClientInv'
<1> DEFINE p == slot[c].p
           n == [declared |-> call[c].use, fresh |-> TRUE, at |-> 0, since |-> call[c].basis]
           k == [call[c] EXCEPT !.pc = "reread", !.use = {}, !.basis = 0]
<1>1. /\ call[c].pc = "store" /\ CallInOrder(c) /\ p \in Providers /\ 0 \in Ages
      /\ UNCHANGED <<World, shown>>
  BY ClientConstants DEF Store, ClientInv, CallInOrder, TypeOK, Ages
<1>2. n \in Knowledge /\ n.at = 0 /\ n.since = call[c].basis /\ n.fresh
  BY <1>1, CallTyped DEF ClientInv, Knowledge
<1>3. known' = [known EXCEPT ![p] = n]
  BY DEF Store
<1>4. k \in CallStates /\ k.pc = "reread" /\ k.age = call[c].age
  BY <1>1, CallTyped DEF ClientInv, CallStates
<1>5. call' = [call EXCEPT ![c] = k]
  BY DEF Store, ClientInv, TypeOK
<1> HIDE DEF n, k, p
<1>6. /\ known' \in [Providers -> Knowledge] /\ known'[p] = n
      /\ \A q \in Providers : q # p => known'[q] = known[q]
  BY <1>1, <1>2, <1>3 DEF ClientInv, TypeOK
<1>7. call[c].basis <= call[c].age /\ call[c].age <= CallTimeout
      /\ call[c].basis \in Int /\ call[c].age \in Int /\ 0 <= call[c].age
  BY <1>1, CallTyped, ClientConstants DEF CallInOrder, ClientInv, Ages
<1>8. KnownInOrder'
  BY <1>2, <1>6, <1>7, ClientConstants DEF ClientInv, KnownInOrder
<1>9. \A q \in Providers : known'[q].at <= known[q].at /\ (known[q].fresh => known'[q].fresh)
  <2>1. ASSUME NEW q \in Providers PROVE known[q].at \in Int /\ 0 <= known[q].at
    BY KnownTyped, ClientConstants DEF ClientInv, Ages
  <2> QED BY <1>2, <1>6, <2>1
<1>10. call'[c] = k
  BY <1>5 DEF ClientInv, TypeOK
<1>11. CallInOrder(c)'
  BY <1>1, <1>2, <1>4, <1>6, <1>7, <1>10 DEF CallInOrder, World, p
<1>12. shown' \in [Capabilities -> Outcomes]
  BY <1>1 DEF ClientInv, TypeOK
<1> QED BY <1>1, <1>4, <1>5, <1>6, <1>8, <1>9, <1>11, <1>12, OneCall

LEMMA RereadInv == ASSUME ClientInv, NEW c \in Capabilities, Reread(c) PROVE ClientInv'
<1> DEFINE p == slot[c].p
<1>1. /\ call[c].pc = "reread" /\ CallInOrder(c) /\ p \in Providers
      /\ UNCHANGED <<World, known>> /\ Decide(c, known[p].declared, known[p].since)
  BY DEF Reread, ClientInv, CallInOrder, TypeOK
<1>2. /\ known[p].at <= call[c].age /\ known[p].since <= known[p].at + CallTimeout
      /\ known[p].at \in Int /\ known[p].since \in Int /\ known[p].since \in Ages
      /\ call[c].age \in Int
  BY <1>1, KnownTyped, CallTyped DEF ClientInv, KnownInOrder, CallInOrder
<1>3. known[p].since <= TTL + CallTimeout + call[c].age
  BY <1>2, ClientConstants
<1>4. slot[c].by = "provider" /\ built /\ call[c].age <= CallTimeout
  BY <1>1 DEF CallInOrder
<1> HIDE DEF p
<1> QED BY <1>1, <1>2, <1>3, <1>4, DecideInv

\* While a call runs its age stays below Cap, so it counts every tick.
LEMMA TickInv == ASSUME ClientInv, Tick PROVE ClientInv'
<1>1. /\ \A c \in Capabilities : call[c].pc # "idle" => call[c].age < CallTimeout
      /\ UNCHANGED <<World, shown>>
  BY DEF Tick
<1>2. ASSUME NEW p \in Providers
      PROVE  /\ known'[p] \in Knowledge /\ known'[p].fresh = known[p].fresh
             /\ known'[p].at = Older(known[p].at) /\ known'[p].since = Older(known[p].since)
  <2>1. known'[p] = [known[p] EXCEPT !.at = Older(@), !.since = Older(@)]
    BY DEF Tick
  <2>2. known[p] \in Knowledge /\ Older(known[p].at) \in Ages /\ Older(known[p].since) \in Ages
    BY KnownTyped, OlderFacts DEF ClientInv
  <2> QED BY <2>1, <2>2 DEF Knowledge
<1>3. ASSUME NEW c \in Capabilities, call[c].pc # "idle"
      PROVE  /\ call'[c] \in CallStates /\ call'[c].pc = call[c].pc
             /\ call'[c].age = Older(call[c].age)
             /\ call[c].pc \in {"store", "read"} => call'[c].basis = Older(call[c].basis)
  <2> DEFINE b == IF call[c].pc \in {"store", "read"} THEN Older(call[c].basis) ELSE call[c].basis
  <2>1. call'[c] = [call[c] EXCEPT !.age = Older(@), !.basis = b]
    BY <1>3 DEF Tick
  <2>2. call[c] \in CallStates /\ Older(call[c].age) \in Ages /\ b \in Ages
    BY CallTyped, OlderFacts DEF ClientInv
  <2>3. call[c].pc \in {"store", "read"} => b = Older(call[c].basis)
    OBVIOUS
  <2> HIDE DEF b
  <2> QED BY <2>1, <2>2, <2>3 DEF CallStates
<1>4. \A c \in Capabilities : call[c].pc = "idle" => call'[c] = call[c]
  BY DEF Tick
<1>5. TypeOK'
  <2>1. known' \in [Providers -> Knowledge]
    <3>1. known' = [p \in Providers |-> known'[p]]
      BY DEF Tick
    <3> QED BY <1>2, <3>1
  <2>2. call' \in [Capabilities -> CallStates]
    <3>1. call' = [c \in Capabilities |-> call'[c]]
      BY DEF Tick
    <3>2. \A c \in Capabilities : call'[c] \in CallStates
      BY <1>3, <1>4, CallTyped DEF ClientInv
    <3> QED BY <3>1, <3>2
  <2> QED BY <1>1, <2>1, <2>2 DEF ClientInv, TypeOK, World
<1>6. FallbackKept'
  BY <1>1, <1>2, ClientConstants DEF ClientInv, FallbackKept, TypeOK, World
<1>7. KnownInOrder'
  <2> SUFFICES ASSUME NEW p \in Providers PROVE known'[p].since <= known'[p].at + CallTimeout
    BY DEF KnownInOrder
  <2>1. known[p].since \in Ages /\ known[p].at \in Ages /\ known[p].since <= known[p].at + CallTimeout
    BY KnownTyped DEF ClientInv, KnownInOrder
  <2>2. Older(known[p].since) <= Older(known[p].at) + CallTimeout
    BY <2>1, ClientConstants DEF Older, Ages
  <2> QED BY <1>2, <2>2
<1>8. ASSUME NEW c \in Capabilities PROVE CallInOrder(c)'
  <2>1. CallInOrder(c) /\ built' = built /\ slot' = slot
    BY <1>1 DEF ClientInv, World
  <2>2. CASE call[c].pc = "idle"
    <3>1. call'[c] = NoCall
      BY <1>4, <2>1, <2>2 DEF CallInOrder
    <3> QED BY <3>1, NoCallTyped DEF CallInOrder
  <2>3. CASE call[c].pc # "idle"
    <3>1. /\ call[c].age < CallTimeout /\ call[c].age \in Ages /\ call[c].basis \in Ages
          /\ slot[c].by = "provider" /\ built /\ slot[c].p \in Providers
      BY <1>1, <2>1, <2>3, CallTyped DEF ClientInv, CallInOrder, TypeOK
    <3>2. call'[c].age = call[c].age + 1 /\ call[c].age \in Int /\ call'[c].age <= CallTimeout
      BY <1>3, <2>3, <3>1, ClientConstants DEF Older, Ages
    <3>3. Older(call[c].basis) <= call[c].basis + 1 /\ Older(call[c].basis) \in Int
          /\ call[c].basis \in Int
      BY <3>1, OlderFacts DEF Ages
    <3>4. LET x == known[slot[c].p].at IN
          x \in Int /\ known'[slot[c].p].at \in Int /\ known'[slot[c].p].at <= x + 1
      BY <1>2, <3>1, KnownTyped, OlderFacts DEF ClientInv, Ages
    <3>5. call'[c].pc = call[c].pc
      BY <1>3, <2>3
    <3>6. CASE call[c].pc = "store"
      <4>1. call'[c].basis <= call'[c].age
        BY <1>3, <2>1, <3>2, <3>3, <3>6 DEF CallInOrder
      <4> QED BY <2>1, <3>1, <3>2, <3>5, <3>6, <4>1 DEF CallInOrder
    <3>7. CASE call[c].pc = "reread"
      <4>1. known'[slot[c].p].at <= call'[c].age
        BY <2>1, <3>2, <3>4, <3>7 DEF CallInOrder
      <4> QED BY <2>1, <3>1, <3>2, <3>5, <3>7, <4>1 DEF CallInOrder
    <3>8. CASE call[c].pc = "read"
      <4>1. call'[c].basis <= TTL + CallTimeout + call'[c].age
        BY <1>3, <2>1, <3>2, <3>3, <3>8, ClientConstants DEF CallInOrder
      <4> QED BY <2>1, <3>1, <3>2, <3>5, <3>8, <4>1 DEF CallInOrder
    <3>9. CASE call[c].pc = "ask"
      BY <2>1, <3>1, <3>2, <3>5, <3>9 DEF CallInOrder
    <3>10. call[c].pc \in {"ask", "store", "reread", "read"}
      BY <2>3, CallTyped DEF ClientInv, CallStates
    <3> QED BY <3>6, <3>7, <3>8, <3>9, <3>10
  <2> QED BY <2>2, <2>3
<1> QED BY <1>5, <1>6, <1>7, <1>8 DEF ClientInv

LEMMA WorldInv ==
    ASSUME ClientInv, up' \subseteq Providers, serves' \in [Providers -> SUBSET Capabilities],
           UNCHANGED <<built, slot, known, call, shown>>
    PROVE  ClientInv'
<1>1. TypeOK' /\ FallbackKept' /\ KnownInOrder'
  BY DEF ClientInv, TypeOK, FallbackKept, KnownInOrder
<1>2. ASSUME NEW c \in Capabilities PROVE CallInOrder(c)'
  BY DEF ClientInv, CallInOrder
<1> QED BY <1>1, <1>2 DEF ClientInv

LEMMA ClientStep == ClientInv /\ [Next]_vars => ClientInv'
<1> SUFFICES ASSUME ClientInv, [Next]_vars PROVE ClientInv'
  OBVIOUS
<1>1. ASSUME NEW c \in Capabilities, CallStep(c) PROVE ClientInv'
  <2>1. CASE Read(c)
    <3>1. \E o \in Outcomes : End(c, o)
      BY <2>1 DEF Read, Outcomes
    <3> QED BY <2>1, <3>1, EndCall DEF Read
  <2>2. CASE CallFails(c)
    BY <2>2, EndCall DEF CallFails, Outcomes
  <2> QED BY <1>1, <2>1, <2>2, AnswerInv, StoreInv, RereadInv DEF CallStep
<1>2. ASSUME NEW p \in Providers, Toggle(p) PROVE ClientInv'
  BY <1>2, WorldInv DEF Toggle, ClientInv, TypeOK
<1>3. ASSUME NEW p \in Providers, NEW c \in Capabilities, Change(p, c) PROVE ClientInv'
  BY <1>3, WorldInv DEF Change, ClientInv, TypeOK
<1>4. CASE UNCHANGED vars
  BY <1>4, WorldInv DEF vars, ClientInv, TypeOK
<1> QED BY <1>1, <1>2, <1>3, <1>4, BuildInv, TickInv, StartCallInv DEF Next

LEMMA ClientInvHolds == Spec => []ClientInv
BY InitClient, ClientStep, PTL DEF Spec

\* The clients, the slots of InfraSources and the calls of a collection stay well
\* typed: a slot that is a Provider's names one that is configured.
THEOREM ClientTypeCorrect == Spec => []TypeOK
<1>1. ClientInv => TypeOK
  BY DEF ClientInv
<1> QED BY ClientInvHolds, <1>1, PTL

\* supports (client.go): whatever the calls of a collection store and read over
\* each other, a Capability is read on a Provider's word at most capabilityTTL
\* and two calls' time old.
THEOREM WordIsRecent == Spec => []DecidesOnRecentWord
<1>1. ClientInv => DecidesOnRecentWord
  <2> SUFFICES ASSUME ClientInv, NEW c \in Capabilities, call[c].pc = "read"
               PROVE  call[c].basis <= TTL + 2 * CallTimeout
    BY DEF DecidesOnRecentWord
  <2>1. /\ call[c].basis <= TTL + CallTimeout + call[c].age /\ call[c].age <= CallTimeout
        /\ call[c].basis \in Int /\ call[c].age \in Int
    BY CallTyped DEF ClientInv, CallInOrder
  <2> QED BY <2>1, ClientConstants
<1> QED BY ClientInvHolds, <1>1, PTL

\* InfraSources (config.go): a Provider that never answered discovery does not
\* take a Capability from the fallback.
THEOREM FallbackIsKept == Spec => []FallbackKept
<1>1. ClientInv => FallbackKept
  BY DEF ClientInv
<1> QED BY ClientInvHolds, <1>1, PTL
=============================================================================
