------------------------------- MODULE OciLog -------------------------------
(***************************************************************************)
(* The event emitter of internal/ocilog: request goroutines put events in  *)
(* a bounded channel without ever waiting, one worker takes them out and   *)
(* hands them to PutLogs in batches, Close drains the channel and waits    *)
(* for the worker.  PutLogs is external; the worker does the same whether  *)
(* it stores the batch, fails, or times out after 15 seconds.              *)
(***************************************************************************)
EXTENDS Integers, Sequences

CONSTANTS
    BufferSize,  \* bufferSize
    BatchSize,   \* batchSize
    Closers,     \* goroutines that call Close
    MaxEvents    \* bound: events emitted

ASSUME LogConstants ==
    /\ BufferSize \in Nat \ {0} /\ BatchSize \in Nat \ {0} /\ MaxEvents \in Nat

VARIABLES
    ch,        \* e.ch
    batch,     \* the worker's batch
    worker,    \* where run() is
    done,      \* is e.done closed
    closer,    \* goroutine -> where its Close is
    dropped,   \* e.dropped
    alive,     \* the process has not been ended
    emitted,   \* events emitted so far; event n is the n-th one
    accepted,  \* the events that went into the channel, in that order
    handed,    \* the events handed to PutLogs, in that order
    atClose    \* how many events had been accepted when done was closed

vars == <<ch, batch, worker, done, closer, dropped, alive, emitted, accepted,
          handed, atClose>>

Events == 1..MaxEvents
Workers == {"loop", "put", "drain", "drain_put", "last_put", "gone"}

\* New with a log ID: the worker is started.
Init ==
    /\ ch = <<>> /\ batch = <<>> /\ worker = "loop"
    /\ done = FALSE /\ closer = [c \in Closers |-> "open"]
    /\ dropped = 0 /\ alive = TRUE
    /\ emitted = 0 /\ accepted = <<>> /\ handed = <<>> /\ atClose = 0

-----------------------------------------------------------------------------
\* Mutant of Emit: a full buffer makes room by forgetting its oldest event.
EmitEvictsOldest ==
    /\ alive /\ emitted < MaxEvents
    /\ emitted' = emitted + 1
    /\ IF Len(ch) < BufferSize
       THEN ch' = Append(ch, emitted') /\ UNCHANGED dropped
       ELSE ch' = Append(Tail(ch), emitted') /\ dropped' = dropped + 1
    /\ accepted' = Append(accepted, emitted')
    /\ UNCHANGED <<batch, worker, done, closer, alive, handed, atClose>>

\* Emit: a send that would block is counted instead, Close or no Close.
Emit ==
    /\ alive /\ emitted < MaxEvents
    /\ emitted' = emitted + 1
    /\ IF Len(ch) < BufferSize
       THEN /\ ch' = Append(ch, emitted')
            /\ accepted' = Append(accepted, emitted')
            /\ UNCHANGED dropped
       ELSE dropped' = dropped + 1 /\ UNCHANGED <<ch, accepted>>
    /\ UNCHANGED <<batch, worker, done, closer, alive, handed, atClose>>

\* flush: the batch goes into the call that is under way, and a new one begins.
Flush(to) ==
    /\ handed' = handed \o batch
    /\ batch' = <<>>
    /\ worker' = to

\* Mutant of TakeFrom: flushes one event too late.
TakeFromLate(from, to) ==
    /\ alive /\ worker = from /\ ch # <<>>
    /\ ch' = Tail(ch)
    /\ LET b == Append(batch, Head(ch)) IN
       IF Len(b) > BatchSize
       THEN handed' = handed \o b /\ batch' = <<>> /\ worker' = to
       ELSE batch' = b /\ UNCHANGED <<handed, worker>>
    /\ UNCHANGED <<done, closer, dropped, alive, emitted, accepted, atClose>>

\* case ent := <-e.ch, in the loop and in the drain; a full batch is flushed.
TakeFrom(from, to) ==
    /\ alive /\ worker = from /\ ch # <<>>
    /\ ch' = Tail(ch)
    /\ LET b == Append(batch, Head(ch)) IN
       IF Len(b) >= BatchSize
       THEN handed' = handed \o b /\ batch' = <<>> /\ worker' = to
       ELSE batch' = b /\ UNCHANGED <<handed, worker>>
    /\ UNCHANGED <<done, closer, dropped, alive, emitted, accepted, atClose>>

Take == TakeFrom("loop", "put")
DrainTake == TakeFrom("drain", "drain_put")

\* Mutant of Tick: the ticker does not flush.
TickIdle ==
    /\ alive /\ worker = "loop"
    /\ UNCHANGED vars

\* case <-ticker.C.
Tick ==
    /\ alive /\ worker = "loop" /\ batch # <<>>
    /\ Flush("put")
    /\ UNCHANGED <<ch, done, closer, dropped, alive, emitted, accepted, atClose>>

\* PutLogs returns, one way or another.
PutReturns ==
    /\ alive
    /\ \/ worker = "put" /\ worker' = "loop"
       \/ worker = "drain_put" /\ worker' = "drain"
       \/ worker = "last_put" /\ worker' = "gone"
    /\ UNCHANGED <<ch, batch, done, closer, dropped, alive, emitted, accepted,
                   handed, atClose>>

\* Mutant of SeeDone: the last flush, without the drain before it.
SeeDoneAndFlush ==
    /\ alive /\ worker = "loop" /\ done
    /\ Flush("last_put")
    /\ UNCHANGED <<ch, done, closer, dropped, alive, emitted, accepted, atClose>>

\* case <-e.done: select may choose it with events in the channel.
SeeDone ==
    /\ alive /\ worker = "loop" /\ done
    /\ worker' = "drain"
    /\ UNCHANGED <<ch, batch, done, closer, dropped, alive, emitted, accepted,
                   handed, atClose>>

\* Mutant of DrainEnd: the drain's break leaves the select, not the loop.
DrainEndStays ==
    /\ alive /\ worker = "drain" /\ ch = <<>>
    /\ Flush("drain")
    /\ UNCHANGED <<ch, done, closer, dropped, alive, emitted, accepted, atClose>>

\* The channel is found empty: the last flush, and the worker returns.
DrainEnd ==
    /\ alive /\ worker = "drain" /\ ch = <<>>
    /\ Flush(IF batch = <<>> THEN "gone" ELSE "last_put")
    /\ UNCHANGED <<ch, done, closer, dropped, alive, emitted, accepted, atClose>>

\* Close: the first caller closes done; others wait for it in once.Do.
Close(c) ==
    /\ alive /\ closer[c] = "open"
    /\ closer' = [closer EXCEPT ![c] = "waiting"]
    /\ done' = TRUE
    /\ atClose' = IF done THEN atClose ELSE Len(accepted)
    /\ UNCHANGED <<ch, batch, worker, dropped, alive, emitted, accepted, handed>>

CloseReturns(c) ==
    /\ alive /\ closer[c] = "waiting" /\ worker = "gone"
    /\ closer' = [closer EXCEPT ![c] = "returned"]
    /\ UNCHANGED <<ch, batch, worker, done, dropped, alive, emitted, accepted,
                   handed, atClose>>

\* The process is ended.  main installs no signal handler, and log.Fatalf does
\* not run its deferred Close, so this may come at any time.
Terminate ==
    /\ alive /\ alive' = FALSE
    /\ UNCHANGED <<ch, batch, worker, done, closer, dropped, emitted, accepted,
                   handed, atClose>>

WorkerStep == Take \/ Tick \/ PutReturns \/ SeeDone \/ DrainTake \/ DrainEnd

Next ==
    \/ Emit \/ WorkerStep \/ Terminate
    \/ \E c \in Closers : Close(c) \/ CloseReturns(c)

Spec == Init /\ [][Next]_vars

(***************************************************************************)
(* Fairness: the worker runs on, and PutLogs returns, by its timeout if    *)
(* not before; the ticker ticks, and select, which chooses among the ready *)
(* cases at random, does not pass the ticker or done over for ever.        *)
(* Nothing is assumed of emitters, of callers of Close, of the process.    *)
(***************************************************************************)
Fairness ==
    /\ WF_vars(WorkerStep) /\ SF_vars(Tick) /\ SF_vars(SeeDone)
    /\ \A c \in Closers : WF_vars(CloseReturns(c))

FairSpec == Spec /\ Fairness

-----------------------------------------------------------------------------
\* Also that memory is capped: the channel by bufferSize, the batch by batchSize.
TypeOK ==
    /\ ch \in Seq(Events) /\ Len(ch) <= BufferSize
    /\ batch \in Seq(Events) /\ Len(batch) < BatchSize
    /\ worker \in Workers
    /\ done \in BOOLEAN /\ alive \in BOOLEAN
    /\ closer \in [Closers -> {"open", "waiting", "returned"}]
    /\ dropped \in 0..MaxEvents /\ emitted \in 0..MaxEvents
    /\ accepted \in Seq(Events) /\ handed \in Seq(Events)
    /\ atClose \in 0..MaxEvents

\* No event vanishes, is sent twice or overtakes another: what was handed over,
\* what is in the batch and what is in the channel are together the events that
\* were accepted, in order, and every other one was counted as dropped.
Accounted ==
    /\ handed \o batch \o ch = accepted
    /\ emitted = Len(accepted) + dropped

\* "Close flushes what is buffered": when any call of Close has returned, every
\* event accepted before Close has been handed to PutLogs, although emitters
\* go on emitting while it drains.
CloseFlushes ==
    \A c \in Closers : closer[c] = "returned" => Len(handed) >= atClose

\* An event accepted before Close does not stay in a batch that never fills up:
\* it is handed to PutLogs, unless the process is ended first.
Shipped ==
    \A n \in Events : alive /\ ~done /\ Len(accepted) >= n ~> Len(handed) >= n \/ ~alive

\* Close comes back, unless the process is ended first, once emitters pause (the
\* drain goes on for as long as they keep the channel from being found empty;
\* here MaxEvents makes them pause).
CloseEnds == \A c \in Closers : closer[c] = "waiting" ~> closer[c] = "returned" \/ ~alive
=============================================================================
