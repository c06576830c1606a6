---------------------------- MODULE OciLogProofs ----------------------------
(***************************************************************************)
(* Proofs about the event emitter, for any buffer, batch, callers of Close *)
(* and number of events.                                                   *)
(***************************************************************************)
EXTENDS OciLog, SequenceTheorems, TLAPS

\* Where the worker and the callers of Close may be, as far as Close has got.
ClosedInOrder ==
    /\ worker \in {"drain", "drain_put", "last_put", "gone"} => done
    /\ worker \in {"last_put", "gone"} => Len(handed) >= atClose
    /\ atClose <= Len(accepted)
    /\ \A c \in Closers : closer[c] = "returned" => worker = "gone"

LogInv == TypeOK /\ Accounted /\ ClosedInOrder

-----------------------------------------------------------------------------
\* A concatenation's length, and where its parts are from.
LEMMA ConcatLen ==
    ASSUME NEW S, NEW s \in Seq(S), NEW t \in Seq(S)
    PROVE  s \o t \in Seq(S) /\ Len(s \o t) = Len(s) + Len(t) /\ Len(s) \in Nat /\ Len(t) \in Nat
BY ConcatProperties, LenProperties

\* A sequence that is not empty is its head and its tail.
LEMMA HeadAndTail ==
    ASSUME NEW S, NEW s \in Seq(S), s # <<>>
    PROVE  <<Head(s)>> \o Tail(s) = s
<1> DEFINE t == <<Head(s)>> \o Tail(s)
<1>1. Head(s) \in S /\ Tail(s) \in Seq(S) /\ Len(Tail(s)) = Len(s) - 1 /\ Len(s) \in Nat \ {0}
  BY HeadTailProperties, EmptySeq
<1>2. <<Head(s)>> \in Seq(S) /\ Len(<<Head(s)>>) = 1 /\ <<Head(s)>>[1] = Head(s)
  BY <1>1
<1>3. t \in Seq(S) /\ Len(t) = Len(s)
  BY <1>1, <1>2, ConcatLen
<1>4. ASSUME NEW i \in 1..Len(t) PROVE t[i] = s[i]
  <2>1. t[i] = IF i <= 1 THEN <<Head(s)>>[i] ELSE Tail(s)[i - 1]
    BY <1>1, <1>2, <1>3, ConcatProperties
  <2>2. CASE i = 1
    BY <2>1, <2>2, <1>2
  <2>3. CASE i # 1
    <3>1. i - 1 \in 1..Len(Tail(s))
      BY <1>1, <1>3, <2>3
    <3>2. Tail(s)[i - 1] = s[(i - 1) + 1]
      BY <3>1, HeadTailProperties
    <3> QED BY <2>1, <2>3, <3>2, <1>3
  <2> QED BY <2>2, <2>3
<1> HIDE DEF t
<1>5. t = s
  BY <1>3, <1>4, SeqEqual
<1> QED BY <1>5 DEF t

LEMMA Associative == \A u, v, w \in Seq(Events) : (u \o v) \o w = u \o (v \o w)
BY ConcatAssociative

\* An event that is taken moves from the channel to the batch, and is nowhere else.
LEMMA Moved ==
    ASSUME NEW h \in Seq(Events), NEW b \in Seq(Events), NEW c \in Seq(Events), c # <<>>
    PROVE  (h \o Append(b, Head(c))) \o Tail(c) = (h \o b) \o c
<1> DEFINE e == <<Head(c)>>
           t == Tail(c)
<1>1. Head(c) \in Events /\ t \in Seq(Events)
  BY HeadTailProperties
<1>2. e \in Seq(Events)
  BY <1>1
<1>3. Append(b, Head(c)) = b \o e /\ e \o t = c
  BY <1>1, AppendIsConcat, HeadAndTail
<1> HIDE DEF e, t
<1>4. b \o e \in Seq(Events) /\ h \o b \in Seq(Events) /\ e \o t \in Seq(Events)
  BY <1>1, <1>2, ConcatLen
<1>5. h \o (b \o e) = (h \o b) \o e
  BY <1>2, Associative, Zenon
<1>6. ((h \o b) \o e) \o t = (h \o b) \o (e \o t)
  <2>1. e \in Seq(Events) /\ t \in Seq(Events) /\ h \o b \in Seq(Events)
    BY <1>1, <1>2, <1>4
  <2> QED BY <2>1, Associative, Zenon
<1> QED BY <1>3, <1>5, <1>6 DEF t

-----------------------------------------------------------------------------
LEMMA InitLogInv == Init => LogInv
<1> SUFFICES ASSUME Init PROVE LogInv
  OBVIOUS
<1>1. <<>> \in Seq(Events) /\ Len(<<>>) = 0
  BY EmptySeq
<1>2. TypeOK
  <2>1. closer \in [Closers -> {"open", "waiting", "returned"}]
    BY DEF Init
  <2>2. dropped \in 0..MaxEvents /\ emitted \in 0..MaxEvents /\ atClose \in 0..MaxEvents
    BY LogConstants DEF Init
  <2>3. Len(ch) <= BufferSize /\ Len(batch) < BatchSize
    BY <1>1, LogConstants DEF Init
  <2>4. ch \in Seq(Events) /\ batch \in Seq(Events) /\ accepted \in Seq(Events) /\ handed \in Seq(Events)
    BY <1>1 DEF Init
  <2> QED BY <2>1, <2>2, <2>3, <2>4 DEF Init, TypeOK, Workers
<1>3. Accounted
  BY <1>1, ConcatEmptySeq DEF Init, Accounted
<1>4. ClosedInOrder
  BY <1>1 DEF Init, ClosedInOrder
<1> QED BY <1>2, <1>3, <1>4 DEF LogInv

\* What LogInv says of the lengths.
LEMMA Lengths ==
    ASSUME LogInv
    PROVE  /\ Len(handed) \in Nat /\ Len(batch) \in Nat /\ Len(ch) \in Nat /\ Len(accepted) \in Nat
           /\ Len(accepted) = Len(handed) + Len(batch) + Len(ch)
           /\ Len(accepted) <= emitted
           /\ handed \o batch \in Seq(Events)
<1>1. handed \o batch \in Seq(Events) /\ Len(handed \o batch) = Len(handed) + Len(batch)
      /\ Len(handed) \in Nat /\ Len(batch) \in Nat
  BY ConcatLen DEF LogInv, TypeOK
<1>2. Len(accepted) = Len(handed \o batch) + Len(ch) /\ Len(ch) \in Nat /\ Len(accepted) \in Nat
  BY <1>1, ConcatLen DEF LogInv, TypeOK, Accounted
<1>3. emitted = Len(accepted) + dropped /\ dropped \in Nat
  BY LogConstants DEF LogInv, Accounted, TypeOK
<1> QED BY <1>1, <1>2, <1>3

LEMMA EmitInv == ASSUME LogInv, Emit PROVE LogInv'
<1> USE LogConstants
<1>1. emitted' = emitted + 1 /\ emitted' \in Events /\ emitted' \in 0..MaxEvents
  BY DEF Emit, LogInv, TypeOK, Events
<1>2. CASE Len(ch) < BufferSize
  <2>1. ch' = Append(ch, emitted') /\ accepted' = Append(accepted, emitted') /\ dropped' = dropped
    BY <1>2 DEF Emit
  <2>2. ch' \in Seq(Events) /\ accepted' \in Seq(Events)
        /\ Len(ch') = Len(ch) + 1 /\ Len(accepted') = Len(accepted) + 1
        /\ ch' = ch \o <<emitted'>> /\ accepted' = accepted \o <<emitted'>>
    BY <1>1, <2>1, AppendProperties, AppendIsConcat DEF LogInv, TypeOK
  <2>3. TypeOK'
    BY <1>1, <1>2, <2>1, <2>2, Lengths DEF Emit, LogInv, TypeOK
  <2>4. <<emitted'>> \in Seq(Events)
    BY <1>1
  <2>5. (handed \o batch) \o (ch \o <<emitted'>>) = ((handed \o batch) \o ch) \o <<emitted'>>
    <3>1. ch \in Seq(Events) /\ handed \o batch \in Seq(Events)
      BY Lengths DEF LogInv, TypeOK
    <3> QED BY <2>4, <3>1, Associative
  <2>6. handed' \o batch' \o ch' = accepted'
    BY <2>2, <2>5 DEF Emit, LogInv, Accounted
  <2>7. emitted' = Len(accepted') + dropped'
    BY <1>1, <2>1, <2>2, Lengths DEF LogInv, Accounted, TypeOK
  <2>8. ClosedInOrder'
    BY <2>2, Lengths DEF Emit, LogInv, ClosedInOrder, TypeOK
  <2> QED BY <2>3, <2>6, <2>7, <2>8 DEF LogInv, Accounted
<1>3. CASE ~(Len(ch) < BufferSize)
  <2>1. dropped' = dropped + 1 /\ ch' = ch /\ accepted' = accepted
    BY <1>3 DEF Emit
  <2>2. emitted' = Len(accepted') + dropped'
    BY <1>1, <2>1, Lengths DEF LogInv, Accounted, TypeOK
  <2>3. TypeOK'
    BY <1>1, <2>1, <2>2, Lengths DEF Emit, LogInv, TypeOK
  <2>4. Accounted'
    BY <2>1, <2>2 DEF Emit, LogInv, Accounted
  <2>5. ClosedInOrder'
    BY <2>1 DEF Emit, LogInv, ClosedInOrder
  <2> QED BY <2>3, <2>4, <2>5 DEF LogInv
<1> QED BY <1>2, <1>3

\* Flush hands the batch over, in front of what is in the channel.
LEMMA FlushKeepsOrder ==
    ASSUME LogInv, NEW to, Flush(to), UNCHANGED <<ch, accepted, emitted, dropped>>
    PROVE  /\ Accounted'
           /\ handed' \in Seq(Events) /\ batch' \in Seq(Events) /\ Len(batch') = 0
           /\ Len(handed') = Len(handed) + Len(batch)
<1>1. handed' = handed \o batch /\ batch' = <<>>
  BY DEF Flush
<1>2. handed' \in Seq(Events) /\ Len(handed') = Len(handed) + Len(batch)
  BY <1>1, Lengths, ConcatLen DEF LogInv, TypeOK
<1>3. batch' \in Seq(Events) /\ Len(batch') = 0
  BY <1>1, EmptySeq
<1>4. handed' \o batch' = handed'
  BY <1>1, <1>2, ConcatEmptySeq
<1>5. Accounted'
  BY <1>1, <1>4 DEF LogInv, Accounted
<1> QED BY <1>2, <1>3, <1>5

LEMMA TakeInv ==
    ASSUME LogInv, NEW from, NEW to, TakeFrom(from, to),
           <<from, to>> \in {<<"loop", "put">>, <<"drain", "drain_put">>}
    PROVE  LogInv'
<1> DEFINE b == Append(batch, Head(ch))
<1> USE LogConstants
<1>1. worker = from /\ ch # <<>> /\ ch' = Tail(ch)
      /\ UNCHANGED <<done, closer, dropped, alive, emitted, accepted, atClose>>
      /\ IF Len(b) >= BatchSize
         THEN handed' = handed \o b /\ batch' = <<>> /\ worker' = to
         ELSE batch' = b /\ UNCHANGED <<handed, worker>>
  BY DEF TakeFrom
<1>2. Head(ch) \in Events /\ ch' \in Seq(Events) /\ Len(ch') = Len(ch) - 1
  BY <1>1, HeadTailProperties DEF LogInv, TypeOK
<1>3. b \in Seq(Events) /\ Len(b) = Len(batch) + 1
  BY <1>2, AppendProperties DEF LogInv, TypeOK
<1>4. (handed \o b) \o ch' = accepted
  <2>1. (handed \o Append(batch, Head(ch))) \o Tail(ch) = (handed \o batch) \o ch
    <3>1. handed \in Seq(Events) /\ batch \in Seq(Events) /\ ch \in Seq(Events)
      BY DEF LogInv, TypeOK
    <3>2. \A s, t, u \in Seq(Events) :
            u # <<>> => (s \o Append(t, Head(u))) \o Tail(u) = (s \o t) \o u
      BY Moved
    <3>3. ch # <<>>
      BY <1>1
    <3> QED BY <3>1, <3>2, <3>3
  <2> QED BY <1>1, <2>1 DEF LogInv, Accounted
<1>5. handed \o b \in Seq(Events) /\ Len(handed \o b) = Len(handed) + Len(b)
  BY <1>3, ConcatLen DEF LogInv, TypeOK
<1> HIDE DEF b
<1>6. CASE Len(b) >= BatchSize
  <2>1. handed' = handed \o b /\ batch' = <<>> /\ worker' = to
    BY <1>1, <1>6
  <2>2. batch' \in Seq(Events) /\ Len(batch') = 0 /\ handed' \o batch' = handed'
    BY <2>1, <1>5, EmptySeq, ConcatEmptySeq
  <2>3. TypeOK'
    BY <1>1, <1>2, <1>5, <2>1, <2>2, Lengths DEF LogInv, TypeOK, Workers
  <2>4. Accounted'
    BY <1>1, <1>4, <2>1, <2>2 DEF LogInv, Accounted
  <2>5. ClosedInOrder'
    BY <1>1, <2>1 DEF LogInv, ClosedInOrder
  <2> QED BY <2>3, <2>4, <2>5 DEF LogInv
<1>7. CASE ~(Len(b) >= BatchSize)
  <2>1. batch' = b /\ handed' = handed /\ worker' = worker
    BY <1>1, <1>7
  <2>2. TypeOK'
    BY <1>1, <1>2, <1>3, <1>7, <2>1, Lengths DEF LogInv, TypeOK
  <2>3. Accounted'
    BY <1>1, <1>4, <2>1 DEF LogInv, Accounted
  <2>4. ClosedInOrder'
    BY <1>1, <2>1 DEF LogInv, ClosedInOrder
  <2> QED BY <2>2, <2>3, <2>4 DEF LogInv
<1> QED BY <1>6, <1>7

LEMMA TickInv == ASSUME LogInv, Tick PROVE LogInv'
<1>1. /\ Accounted'
      /\ handed' \in Seq(Events) /\ batch' \in Seq(Events) /\ Len(batch') = 0
      /\ Len(handed') = Len(handed) + Len(batch)
  BY FlushKeepsOrder DEF Tick
<1>2. TypeOK'
  BY <1>1, LogConstants DEF LogInv, TypeOK, Tick, Flush, Workers
<1>3. ClosedInOrder'
  BY DEF LogInv, ClosedInOrder, Tick, Flush
<1> QED BY <1>1, <1>2, <1>3 DEF LogInv

\* The drain ends with nothing in the batch and nothing in the channel.
LEMMA DrainEndInv == ASSUME LogInv, DrainEnd PROVE LogInv'
<1>1. /\ Accounted'
      /\ handed' \in Seq(Events) /\ batch' \in Seq(Events) /\ Len(batch') = 0
      /\ Len(handed') = Len(handed) + Len(batch)
  BY FlushKeepsOrder DEF DrainEnd
<1>2. TypeOK'
  BY <1>1, LogConstants DEF LogInv, TypeOK, DrainEnd, Flush, Workers
<1>3. Len(handed') >= atClose'
  <2>1. Len(ch) = 0
    BY DEF DrainEnd
  <2>2. Len(handed') = Len(accepted)
    BY <1>1, <2>1, Lengths
  <2> QED BY <2>2 DEF LogInv, ClosedInOrder, DrainEnd
<1>4. ClosedInOrder'
  BY <1>3 DEF LogInv, ClosedInOrder, DrainEnd, Flush
<1> QED BY <1>1, <1>2, <1>4 DEF LogInv

LEMMA StepInv == LogInv /\ [Next]_vars => LogInv'
<1> SUFFICES ASSUME LogInv, [Next]_vars PROVE LogInv'
  OBVIOUS
<1>1. CASE Emit
  BY <1>1, EmitInv
<1>2. CASE Take
  BY <1>2, TakeInv DEF Take
<1>3. CASE DrainTake
  BY <1>3, TakeInv DEF DrainTake
<1>4. CASE Tick
  BY <1>4, TickInv
<1>5. CASE DrainEnd
  BY <1>5, DrainEndInv
<1>6. CASE PutReturns
  <2>1. TypeOK' /\ Accounted'
    BY <1>6 DEF LogInv, TypeOK, Accounted, PutReturns, Workers
  <2>2. ClosedInOrder'
    BY <1>6 DEF LogInv, ClosedInOrder, PutReturns
  <2> QED BY <2>1, <2>2 DEF LogInv
<1>7. CASE SeeDone
  <2>1. TypeOK' /\ Accounted'
    BY <1>7 DEF LogInv, TypeOK, Accounted, SeeDone, Workers
  <2>2. ClosedInOrder'
    BY <1>7 DEF LogInv, ClosedInOrder, SeeDone
  <2> QED BY <2>1, <2>2 DEF LogInv
<1>8. CASE Terminate
  BY <1>8 DEF LogInv, TypeOK, Accounted, ClosedInOrder, Terminate
<1>9. ASSUME NEW c \in Closers, Close(c) PROVE LogInv'
  <2>1. Len(accepted) \in 0..MaxEvents
    BY Lengths, LogConstants DEF LogInv, TypeOK
  <2>2. TypeOK'
    BY <1>9, <2>1 DEF LogInv, TypeOK, Close
  <2>3. Accounted'
    BY <1>9 DEF LogInv, Accounted, Close
  <2>4. ClosedInOrder'
    BY <1>9, <2>1, LogConstants DEF LogInv, TypeOK, ClosedInOrder, Close
  <2> QED BY <2>2, <2>3, <2>4 DEF LogInv
<1>10. ASSUME NEW c \in Closers, CloseReturns(c) PROVE LogInv'
  <2>1. TypeOK' /\ Accounted'
    BY <1>10 DEF LogInv, TypeOK, Accounted, CloseReturns
  <2>2. ClosedInOrder'
    BY <1>10 DEF LogInv, TypeOK, ClosedInOrder, CloseReturns
  <2> QED BY <2>1, <2>2 DEF LogInv
<1>11. CASE UNCHANGED vars
  BY <1>11 DEF LogInv, TypeOK, Accounted, ClosedInOrder, vars
<1> QED
  BY <1>1, <1>2, <1>3, <1>4, <1>5, <1>6, <1>7, <1>8, <1>9, <1>10, <1>11 DEF Next, WorkerStep

LEMMA LogInvHolds == Spec => []LogInv
BY InitLogInv, StepInv, PTL DEF Spec

-----------------------------------------------------------------------------
\* TypeOK, with its caps on the channel and the batch, holds in every reachable
\* state of the emitter (ocilog.go: Emit, run, Close).
THEOREM MemoryIsCapped == Spec => []TypeOK
<1>1. LogInv => TypeOK
  BY DEF LogInv
<1> QED BY LogInvHolds, <1>1, PTL

\* No event vanishes, is doubled or overtakes another between Emit and PutLogs
\* without being counted.
THEOREM NothingVanishes == Spec => []Accounted
<1>1. LogInv => Accounted
  BY DEF LogInv
<1> QED BY LogInvHolds, <1>1, PTL

\* When any Close has returned, what was accepted before it was handed over.
THEOREM CloseHasFlushed == Spec => []CloseFlushes
<1>1. LogInv => CloseFlushes
  BY DEF LogInv, ClosedInOrder, CloseFlushes
<1> QED BY LogInvHolds, <1>1, PTL
=============================================================================
