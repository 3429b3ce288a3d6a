----------------------------- MODULE SpanExport -----------------------------
(***************************************************************************)
(* control/machine/OtlpTraceExporter.cpp behind the process-wide span      *)
(* emitter of foundation/Tracing.cpp.  Threads finish spans, the control   *)
(* thread installs and uninstalls the exporter, a worker sends batches.    *)
(***************************************************************************)
EXTENDS Naturals, Sequences, SequencesExt

CONSTANTS Threads, MaxSpans, MaxQueue, BatchSize, MaxAttempts, MaxInstalls

ASSUME SpanAssumption == {MaxSpans, MaxQueue, BatchSize} \subseteq Nat /\ MaxAttempts \in Nat \ {0}

VARIABLES
    emitter,            \* the slot of Tracing.cpp: "none", "host" or "exporter"
    previous,           \* previous_: whom the exporter passes a span on to
    install,            \* the control thread: "out", "taken", "in", "restored", "joining"
    installs,
    stopping, worker,   \* the worker: "none", "waiting", "sending"
    queue, batch, attempt, draining,
    exportedOk, exportFailed,       \* the counters, as the spans they counted
    scope,              \* thread -> the span it finishes and how far it got
    spanCount,
    heard,              \* history: spans the host's emitter received
    missed,             \* history: spans that met the slot empty or previous_ gone
    residual,           \* history: spans queued when no worker was left to take them
    chainLost           \* previous_ was written while a thread called it, and the process is gone

spanVars == <<emitter, previous, install, installs, stopping, worker, queue, batch,
              attempt, draining, exportedOk, exportFailed, scope, spanCount, heard,
              missed, residual, chainLost>>

NoSpan == [span |-> 0, step |-> "idle"]

SpanInit ==
    /\ emitter = "host" /\ previous = "none" /\ install = "out" /\ installs = 0
    /\ stopping = FALSE /\ worker = "none"
    /\ queue = << >> /\ batch = << >> /\ attempt = 0 /\ draining = FALSE
    /\ exportedOk = {} /\ exportFailed = {}
    /\ scope = [t \in Threads |-> NoSpan] /\ spanCount = 0
    /\ heard = {} /\ missed = {} /\ residual = {} /\ chainLost = FALSE

QueueStays == UNCHANGED <<queue, batch, attempt, draining, exportedOk, exportFailed, residual>>
ControlStays == UNCHANGED <<emitter, previous, install, installs, stopping>>
ThreadsStay == UNCHANGED <<scope, spanCount, heard, missed>>

-----------------------------------------------------------------------------
(* A thread finishes a span *)

Doing(t, step) == scope[t].step = step
Moves(t, step) == scope' = [scope EXCEPT ![t].step = step]

\* ~SpanScope copies the emitter under its lock and calls the copy afterwards.
Finish(t) ==
    /\ Doing(t, "idle") /\ spanCount < MaxSpans /\ spanCount' = spanCount + 1
    /\ scope' = [scope EXCEPT ![t] = [span |-> spanCount', step |-> emitter]]
    /\ UNCHANGED <<worker, heard, missed>> /\ QueueStays /\ ControlStays

EmitToNobody(t) ==
    /\ Doing(t, "none")
    /\ scope' = [scope EXCEPT ![t] = NoSpan]
    /\ missed' = missed \cup {scope[t].span}
    /\ UNCHANGED <<worker, spanCount, heard>> /\ QueueStays /\ ControlStays

EmitToHost(t) ==
    /\ Doing(t, "host")
    /\ heard' = heard \cup {scope[t].span}
    /\ scope' = [scope EXCEPT ![t] = NoSpan]
    /\ UNCHANGED <<worker, spanCount, missed>> /\ QueueStays /\ ControlStays

\* onSpan, under the queue's lock: a full queue drops the new span and counts it.
OnSpan(t) ==
    LET s == scope[t].span IN
    /\ Doing(t, "exporter")
    /\ IF Len(queue) >= MaxQueue
       THEN exportFailed' = exportFailed \cup {s} /\ UNCHANGED <<queue, residual>>
       ELSE /\ queue' = Append(queue, s)
            /\ residual' = IF worker = "none" THEN residual \cup {s} ELSE residual
            /\ UNCHANGED exportFailed
    /\ Moves(t, "chain")
    /\ UNCHANGED <<worker, batch, attempt, draining, exportedOk, spanCount, heard, missed>>
    /\ ControlStays

\* onSpan, without a lock: the span goes on to whoever had the slot before.
Chain(t) ==
    /\ Doing(t, "chain")
    /\ IF previous = "host" THEN heard' = heard \cup {scope[t].span} /\ UNCHANGED missed
                            ELSE missed' = missed \cup {scope[t].span} /\ UNCHANGED heard
    /\ scope' = [scope EXCEPT ![t] = NoSpan]
    /\ UNCHANGED <<worker, spanCount>> /\ QueueStays /\ ControlStays

\* That call takes no lock, and install and uninstall write previous_ without one: a
\* write under the call is a data race on a std::function.  The process dies of it,
\* or the span is heard or missed as Chain has it before or after the write.
LoseChain ==
    /\ \E t \in Threads : Doing(t, "chain")
    /\ install = "in" \/ (install = "out" /\ installs < MaxInstalls)
    /\ chainLost' = TRUE
    /\ UNCHANGED worker /\ QueueStays /\ ControlStays /\ ThreadsStay

-----------------------------------------------------------------------------
(* The control thread *)

\* install takes the emitter out of the slot, and the slot is empty until it
\* puts its own there.
TakeSlot ==
    /\ install = "out" /\ installs < MaxInstalls
    /\ install' = "taken" /\ installs' = installs + 1
    /\ previous' = emitter /\ emitter' = "none"
    /\ UNCHANGED <<stopping, worker>> /\ QueueStays /\ ThreadsStay

StartWorker ==
    /\ install = "taken" /\ install' = "in"
    /\ emitter' = "exporter" /\ stopping' = FALSE /\ worker' = "waiting"
    /\ residual' = {}
    /\ UNCHANGED <<previous, installs, queue, batch, attempt, draining, exportedOk,
                   exportFailed>> /\ ThreadsStay

\* uninstall: the slot first, then the stop, then it waits for the worker.
RestoreSlot ==
    /\ install = "in" /\ install' = "restored"
    /\ emitter' = previous /\ previous' = "none"
    /\ UNCHANGED <<installs, stopping, worker>> /\ QueueStays /\ ThreadsStay

AskWorkerToStop ==
    /\ install = "restored" /\ install' = "joining" /\ stopping' = TRUE
    /\ UNCHANGED <<emitter, previous, installs, worker>> /\ QueueStays /\ ThreadsStay

Joined ==
    /\ install = "joining" /\ worker = "none" /\ install' = "out"
    /\ UNCHANGED <<emitter, previous, installs, stopping, worker>> /\ QueueStays /\ ThreadsStay

-----------------------------------------------------------------------------
(* The worker *)

\* A batch is due when it is full, when the interval passed, or on the way out.
TakeBatch ==
    LET n == IF Len(queue) < BatchSize THEN Len(queue) ELSE BatchSize IN
    /\ worker = "waiting" /\ queue # << >>
    /\ batch' = SubSeq(queue, 1, n) /\ queue' = SubSeq(queue, n + 1, Len(queue))
    /\ attempt' = 0 /\ draining' = stopping /\ worker' = "sending"
    /\ UNCHANGED <<exportedOk, exportFailed, residual>> /\ ControlStays /\ ThreadsStay

Attempts == IF draining THEN 1 ELSE MaxAttempts

\* sendBatch: post_ succeeds, or fails until the attempts are used up.
SendBatch(ok) ==
    /\ worker = "sending"
    /\ attempt' = attempt + 1
    /\ IF ok \/ attempt' = Attempts
       THEN /\ worker' = "waiting" /\ batch' = << >>
            /\ exportedOk' = IF ok THEN exportedOk \cup ToSet(batch) ELSE exportedOk
            /\ exportFailed' = IF ok THEN exportFailed ELSE exportFailed \cup ToSet(batch)
       ELSE UNCHANGED <<worker, batch, exportedOk, exportFailed>>
    /\ UNCHANGED <<queue, draining, residual>> /\ ControlStays /\ ThreadsStay

WorkerLeaves ==
    /\ worker = "waiting" /\ stopping /\ queue = << >>
    /\ worker' = "none"
    /\ QueueStays /\ ControlStays /\ ThreadsStay

WorkerStep == TakeBatch \/ WorkerLeaves \/ \E ok \in BOOLEAN : SendBatch(ok)

SpanAction ==
    \/ \E t \in Threads : Finish(t) \/ EmitToNobody(t) \/ EmitToHost(t) \/ OnSpan(t) \/ Chain(t)
    \/ TakeSlot \/ StartWorker \/ RestoreSlot \/ AskWorkerToStop \/ Joined
    \/ WorkerStep

SpanNext == ~chainLost /\ (LoseChain \/ (SpanAction /\ UNCHANGED chainLost))

-----------------------------------------------------------------------------
(* Properties *)

Spans == 1 .. MaxSpans

SpanTypeOK ==
    /\ Len(queue) <= MaxQueue /\ Len(batch) <= BatchSize
    /\ ToSet(queue) \cup ToSet(batch) \subseteq Spans
    /\ worker \in {"none", "waiting", "sending"} /\ attempt \in 0 .. MaxAttempts
    /\ exportedOk \cup exportFailed \subseteq Spans

InFlight == {scope[t].span : t \in Threads}

\* Every span that a thread is done with was heard by the host, or met one of
\* the two gaps of install and uninstall; no span is counted twice, or kept after
\* it was counted; and a worker that is gone leaves behind only what was queued
\* after it: a full queue, a failing collector and an uninstall cost no other span.
HostHearsEverySpan ==
    /\ SpanTypeOK
    /\ 1 .. spanCount \subseteq heard \cup missed \cup InFlight
    /\ exportedOk \cap exportFailed = {}
    /\ (exportedOk \cup exportFailed) \cap (ToSet(queue) \cup ToSet(batch)) = {}
    /\ worker = "none" => batch = << >> /\ ToSet(queue) \subseteq residual
=============================================================================
