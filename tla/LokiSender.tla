----------------------------- MODULE LokiSender -----------------------------
(***************************************************************************)
(* The asynchronous sender behind LokiExporter (logger/loki.go).           *)
(*                                                                         *)
(* Application goroutines call Export, which puts the entry in the bounded *)
(* channel ch or drops it.  One background goroutine, run, moves entries   *)
(* from ch to a batch and hands a full batch, or on a tick any batch, to a *)
(* push goroutine if one of the MaxConcurrentPush slots of pushSem is      *)
(* free; else it drops the batch.  A push goroutine posts its batch to     *)
(* Loki, with retries.  Shutdown closes quit, on which run drains ch,      *)
(* flushes and returns, and waits for all the goroutines or for its        *)
(* context.                                                                *)
(*                                                                         *)
(* An entry is the number of its call of Export, so numbers follow the     *)
(* order in which the entries were logged.  fate, stored and due are       *)
(* history variables: they record what the code did and guard nothing.     *)
(***************************************************************************)
EXTENDS Naturals, Sequences, FiniteSets, Functions

CONSTANTS
    MaxEntries,         \* bound: calls of Export in a behaviour
    Pusher,             \* bound: push goroutines that may exist at once
    Closer,             \* callers of Shutdown, each of which calls once
    QueueSize,          \* lokiQueueSize
    MaxBatch,           \* lokiMaxBatch
    MaxConcurrentPush,  \* lokiMaxConcurrentPush
    MaxRetries          \* lokiMaxRetries

ASSUME MaxEntriesAssumption == MaxEntries \in Nat
ASSUME PusherAssumption     == IsFiniteSet(Pusher)
ASSUME QueueAssumption      == QueueSize \in Nat \ {0}
ASSUME BatchAssumption      == MaxBatch \in Nat \ {0}
ASSUME SlotAssumption       == MaxConcurrentPush \in Nat \ {0}
ASSUME RetryAssumption      == MaxRetries \in Nat \ {0}

VARIABLES
    logged,     \* calls of Export so far
    ch,         \* the channel, oldest entry first
    dropped,    \* the counter of entries that found ch full
    quit,       \* the channel quit is closed
    runPc,      \* where run is
    batch,      \* run's local batch
    pushSem,    \* slots taken in pushSem
    wg,         \* the counter of the WaitGroup
    pc,         \* where each push goroutine is; "idle" ones do not exist
    load,       \* the entries a push goroutine was started with
    attempt,    \* the failed attempts of a push goroutine
    closer,     \* where each caller of Shutdown is
    fate,       \* history: what has become of each entry
    stored,     \* history: copies of each entry Loki has stored
    due         \* history: the entries pending when Shutdown was called

runVars    == <<runPc, batch>>
pushVars   == <<pushSem, wg, pc, load, attempt>>
closerVars == <<quit, closer, due>>
vars == <<logged, ch, dropped, runVars, pushVars, closerVars, fate, stored>>

Entry == 1..MaxEntries

Refusals == {"rejected", "overflow"}
Fates == {"new", "pending", "shed", "failed", "shipped"} \cup Refusals

Pending == {e \in Entry : fate[e] = "pending"}

Init ==
    /\ logged = 0
    /\ ch = <<>>
    /\ dropped = 0
    /\ quit = FALSE
    /\ runPc = "select"
    /\ batch = <<>>
    /\ pushSem = 0
    /\ wg = 1
    /\ pc = [p \in Pusher |-> "idle"]
    /\ load = [p \in Pusher |-> <<>>]
    /\ attempt = [p \in Pusher |-> 0]
    /\ closer = [c \in Closer |-> "idle"]
    /\ fate = [e \in Entry |-> "new"]
    /\ stored = [e \in Entry |-> 0]
    /\ due = [c \in Closer |-> {}]

(* Closing a closed channel panics, which ends the process. *)
Alive == \A c \in Closer : closer[c] # "panicked"

Settle(S, outcome) == [e \in Entry |-> IF e \in S THEN outcome ELSE fate[e]]

-----------------------------------------------------------------------------
(* Export: marshal the attributes, then enqueue. *)

Reject ==
    /\ logged < MaxEntries
    /\ logged' = logged + 1
    /\ fate' = [fate EXCEPT ![logged'] = "rejected"]
    /\ UNCHANGED <<ch, dropped, runVars, pushVars, closerVars, stored>>

(* Mutant: the channel has no capacity. *)
EnqueueUnbounded ==
    /\ logged < MaxEntries
    /\ logged' = logged + 1
    /\ ch' = Append(ch, logged')
    /\ fate' = [fate EXCEPT ![logged'] = "pending"]
    /\ UNCHANGED <<dropped, runVars, pushVars, closerVars, stored>>

Enqueue ==
    /\ logged < MaxEntries
    /\ Len(ch) < QueueSize
    /\ logged' = logged + 1
    /\ ch' = Append(ch, logged')
    /\ fate' = [fate EXCEPT ![logged'] = "pending"]
    /\ UNCHANGED <<dropped, runVars, pushVars, closerVars, stored>>

Overflow ==
    /\ logged < MaxEntries
    /\ Len(ch) = QueueSize
    /\ logged' = logged + 1
    /\ dropped' = dropped + 1
    /\ fate' = [fate EXCEPT ![logged'] = "overflow"]
    /\ UNCHANGED <<ch, runVars, pushVars, closerVars, stored>>

Export == Reject \/ Enqueue \/ Overflow

-----------------------------------------------------------------------------
(* run.  Receiving an entry and flushing the batch it fills are one step:  *)
(* between the two only other goroutines' releases of slots and sends to   *)
(* ch can happen, and each commutes with one of the two.                   *)

(* Mutant: no slot is needed to start a push. *)
StartPushUnlimited(p, entries) ==
    /\ pc[p] = "idle"
    /\ pushSem' = pushSem + 1
    /\ wg' = wg + 1
    /\ pc' = [pc EXCEPT ![p] = "push"]
    /\ load' = [load EXCEPT ![p] = entries]
    /\ UNCHANGED <<attempt, fate>>

(* Mutant: wg.Add(1) is missing. *)
StartPushUncounted(p, entries) ==
    /\ pushSem < MaxConcurrentPush
    /\ pc[p] = "idle"
    /\ pushSem' = pushSem + 1
    /\ pc' = [pc EXCEPT ![p] = "push"]
    /\ load' = [load EXCEPT ![p] = entries]
    /\ UNCHANGED <<wg, attempt, fate>>

StartPush(p, entries) ==
    /\ pushSem < MaxConcurrentPush
    /\ pc[p] = "idle"
    /\ pushSem' = pushSem + 1
    /\ wg' = wg + 1
    /\ pc' = [pc EXCEPT ![p] = "push"]
    /\ load' = [load EXCEPT ![p] = entries]
    /\ UNCHANGED <<attempt, fate>>

(* Mutant: pushAsync waits for a slot. *)
DropBatchNever(entries) == FALSE

DropBatch(entries) ==
    /\ pushSem = MaxConcurrentPush
    /\ fate' = Settle(Range(entries), "shed")
    /\ UNCHANGED pushVars

PushAsync(entries) == (\E p \in Pusher : StartPush(p, entries)) \/ DropBatch(entries)

(* Mutant: batch = batch[:0] is missing. *)
FlushKeepingBatch(b) ==
    /\ batch' = b
    /\ IF b = <<>> THEN UNCHANGED <<pushVars, fate>> ELSE PushAsync(b)

(* The closure flush, with b the batch it finds. *)
Flush(b) ==
    /\ batch' = <<>>
    /\ IF b = <<>> THEN UNCHANGED <<pushVars, fate>> ELSE PushAsync(b)

Keep(b) ==
    /\ batch' = b
    /\ UNCHANGED <<pushVars, fate>>

(* Mutant: a batch is full only above MaxBatch. *)
ReceiveOneMore(b) == IF Len(b) > MaxBatch THEN Flush(b) ELSE Keep(b)

Receive(b) == IF Len(b) >= MaxBatch THEN Flush(b) ELSE Keep(b)

(* Mutant: a full batch is flushed before the entry received is appended. *)
RecvLosingEntry ==
    /\ runPc = "select"
    /\ ch # <<>>
    /\ ch' = Tail(ch)
    /\ IF Len(batch) + 1 >= MaxBatch THEN Flush(batch) ELSE Keep(Append(batch, Head(ch)))
    /\ UNCHANGED <<logged, dropped, runPc, closerVars, stored>>

Recv ==
    /\ runPc = "select"
    /\ ch # <<>>
    /\ ch' = Tail(ch)
    /\ Receive(Append(batch, Head(ch)))
    /\ UNCHANGED <<logged, dropped, runPc, closerVars, stored>>

(* Mutant: the ticker flushes full batches only. *)
TickOnlyFull ==
    /\ runPc = "select"
    /\ Receive(batch)
    /\ UNCHANGED <<logged, ch, dropped, runPc, closerVars, stored>>

Tick ==
    /\ runPc = "select"
    /\ Flush(batch)
    /\ UNCHANGED <<logged, ch, dropped, runPc, closerVars, stored>>

(* Mutant: run returns on quit without draining. *)
QuitAtOnce ==
    /\ runPc = "select"
    /\ quit
    /\ runPc' = "return"
    /\ UNCHANGED <<logged, ch, dropped, batch, pushVars, closerVars, fate, stored>>

Quit ==
    /\ runPc = "select"
    /\ quit
    /\ runPc' = "drain"
    /\ UNCHANGED <<logged, ch, dropped, batch, pushVars, closerVars, fate, stored>>

DrainRecv ==
    /\ runPc = "drain"
    /\ ch # <<>>
    /\ ch' = Tail(ch)
    /\ Keep(Append(batch, Head(ch)))
    /\ UNCHANGED <<logged, dropped, runPc, closerVars, stored>>

(* Mutant: the drain loop may end before the channel is empty. *)
DrainDoneEarly ==
    /\ runPc = "drain"
    /\ Flush(batch)
    /\ runPc' = "return"
    /\ UNCHANGED <<logged, ch, dropped, closerVars, stored>>

DrainDone ==
    /\ runPc = "drain"
    /\ ch = <<>>
    /\ Flush(batch)
    /\ runPc' = "return"
    /\ UNCHANGED <<logged, ch, dropped, closerVars, stored>>

(* The deferred wg.Done. *)
RunReturn ==
    /\ runPc = "return"
    /\ runPc' = "exited"
    /\ wg' = wg - 1
    /\ UNCHANGED <<logged, ch, dropped, batch, pushSem, pc, load, attempt, closerVars, fate, stored>>

RunStep == Recv \/ Tick \/ Quit \/ DrainRecv \/ DrainDone \/ RunReturn

-----------------------------------------------------------------------------
(* A push goroutine.  An attempt fails on a build, transport or time-out   *)
(* error or on a status that is not 2xx; Loki may have stored the batch    *)
(* all the same.  The two deferred calls run in this order: the slot is    *)
(* given back first, then the WaitGroup is told.                           *)

Store(S) == [e \in Entry |-> IF e \in S THEN stored[e] + 1 ELSE stored[e]]

(* Mutant: the loop goes on after a success. *)
PushOkAgain(p) ==
    /\ pc[p] = "push"
    /\ stored' = Store(Range(load[p]))
    /\ fate' = Settle(Range(load[p]), "shipped")
    /\ UNCHANGED <<logged, ch, dropped, runVars, pushVars, closerVars>>

PushOk(p) ==
    /\ pc[p] = "push"
    /\ stored' = Store(Range(load[p]))
    /\ fate' = Settle(Range(load[p]), "shipped")
    /\ pc' = [pc EXCEPT ![p] = "release"]
    /\ UNCHANGED <<logged, ch, dropped, runVars, pushSem, wg, load, attempt, closerVars>>

(* Mutant: one attempt more than MaxRetries. *)
PushFailOneMore(p, reached) ==
    /\ pc[p] = "push"
    /\ stored' = IF reached THEN Store(Range(load[p])) ELSE stored
    /\ attempt' = [attempt EXCEPT ![p] = @ + 1]
    /\ IF attempt'[p] <= MaxRetries
         THEN UNCHANGED <<pc, fate>>
         ELSE /\ pc' = [pc EXCEPT ![p] = "release"]
              /\ fate' = Settle(Range(load[p]), "failed")
    /\ UNCHANGED <<logged, ch, dropped, runVars, pushSem, wg, load, closerVars>>

PushFail(p, reached) ==
    /\ pc[p] = "push"
    /\ stored' = IF reached THEN Store(Range(load[p])) ELSE stored
    /\ attempt' = [attempt EXCEPT ![p] = @ + 1]
    /\ IF attempt'[p] < MaxRetries
         THEN UNCHANGED <<pc, fate>>
         ELSE /\ pc' = [pc EXCEPT ![p] = "release"]
              /\ fate' = Settle(Range(load[p]), "failed")
    /\ UNCHANGED <<logged, ch, dropped, runVars, pushSem, wg, load, closerVars>>

Release(p) ==
    /\ pc[p] = "release"
    /\ pushSem' = pushSem - 1
    /\ pc' = [pc EXCEPT ![p] = "done"]
    /\ UNCHANGED <<logged, ch, dropped, runVars, wg, load, attempt, closerVars, fate, stored>>

(* Mutant: the deferred wg.Done is missing. *)
PusherReturnSilent(p) ==
    /\ pc[p] = "done"
    /\ pc' = [pc EXCEPT ![p] = "idle"]
    /\ load' = [load EXCEPT ![p] = <<>>]
    /\ attempt' = [attempt EXCEPT ![p] = 0]
    /\ UNCHANGED <<logged, ch, dropped, runVars, pushSem, wg, closerVars, fate, stored>>

PusherReturn(p) ==
    /\ pc[p] = "done"
    /\ wg' = wg - 1
    /\ pc' = [pc EXCEPT ![p] = "idle"]
    /\ load' = [load EXCEPT ![p] = <<>>]
    /\ attempt' = [attempt EXCEPT ![p] = 0]
    /\ UNCHANGED <<logged, ch, dropped, runVars, pushSem, closerVars, fate, stored>>

Unwind(p) == Release(p) \/ PusherReturn(p)

PusherStep(p) == PushOk(p) \/ (\E reached \in BOOLEAN : PushFail(p, reached)) \/ Unwind(p)

-----------------------------------------------------------------------------
(* Shutdown: close quit, then wait for the WaitGroup or for the context.   *)
(* When both are ready select takes either.                                *)

Shutdown(c) ==
    /\ closer[c] = "idle"
    /\ quit' = TRUE
    /\ closer' = [closer EXCEPT ![c] = IF quit THEN "panicked" ELSE "waiting"]
    /\ due' = [due EXCEPT ![c] = Pending]
    /\ UNCHANGED <<logged, ch, dropped, runVars, pushVars, fate, stored>>

(* Mutant: nil is returned without waiting for the WaitGroup. *)
ShutdownNilAtOnce(c) ==
    /\ closer[c] = "waiting"
    /\ closer' = [closer EXCEPT ![c] = "nil"]
    /\ UNCHANGED <<logged, ch, dropped, runVars, pushVars, quit, due, fate, stored>>

ShutdownNil(c) ==
    /\ closer[c] = "waiting"
    /\ wg = 0
    /\ closer' = [closer EXCEPT ![c] = "nil"]
    /\ UNCHANGED <<logged, ch, dropped, runVars, pushVars, quit, due, fate, stored>>

ShutdownCtx(c) ==
    /\ closer[c] = "waiting"
    /\ closer' = [closer EXCEPT ![c] = "ctxErr"]
    /\ UNCHANGED <<logged, ch, dropped, runVars, pushVars, quit, due, fate, stored>>

CloserStep(c) == Shutdown(c) \/ ShutdownNil(c) \/ ShutdownCtx(c)

-----------------------------------------------------------------------------
Step ==
    \/ Export
    \/ RunStep
    \/ \E p \in Pusher : PusherStep(p)
    \/ \E c \in Closer : CloserStep(c)

(* The sender has stopped: the process has died, or everything that was
   started has returned and nothing more is logged or closed. *)
Stopped ==
    \/ ~Alive
    \/ /\ logged = MaxEntries
       /\ runPc = "exited"
       /\ \A p \in Pusher : pc[p] = "idle"
       /\ \A c \in Closer : closer[c] \in {"nil", "ctxErr"}

Next == (Alive /\ Step) \/ (Stopped /\ UNCHANGED vars)

(* The scheduler runs the goroutines the sender itself starts.  Nobody is
   obliged to log, to shut down or to cancel a context, and an attempt to push
   need not end: AttemptsEnd is a hypothesis where a property needs it. *)
Fairness ==
    /\ WF_vars(Alive /\ RunStep)
    /\ \A p \in Pusher : WF_vars(Alive /\ Unwind(p))
    /\ \A c \in Closer : WF_vars(Alive /\ ShutdownNil(c))

Spec == Init /\ [][Next]_vars /\ Fairness

-----------------------------------------------------------------------------
(* Properties. *)

Pushing == {p \in Pusher : pc[p] = "push"}
Holding == {p \in Pusher : pc[p] \in {"push", "release"}}
Live    == {p \in Pusher : pc[p] # "idle"}

(* Every variable keeps to its type and every container to its capacity. *)
TypeOK ==
    /\ logged \in 0..MaxEntries
    /\ ch \in Seq(Entry) /\ Len(ch) <= QueueSize
    /\ dropped \in Nat
    /\ quit \in BOOLEAN
    /\ runPc \in {"select", "drain", "return", "exited"}
    /\ batch \in Seq(Entry)
    /\ pushSem \in 0..MaxConcurrentPush
    /\ wg \in Nat
    /\ pc \in [Pusher -> {"idle", "push", "release", "done"}]
    /\ load \in [Pusher -> Seq(Entry)]
    /\ attempt \in [Pusher -> 0..MaxRetries]
    /\ closer \in [Closer -> {"idle", "waiting", "nil", "ctxErr", "panicked"}]
    /\ fate \in [Entry -> Fates]
    /\ stored \in [Entry -> Nat]
    /\ due \in [Closer -> SUBSET Entry]

(* No entry is lost or forgotten: the undecided entries are exactly those
   still in the channel, in run's batch or in the hands of a push goroutine
   that has not given up, and dropped counts the ones the channel had no
   room for. *)
Ledger ==
    /\ Pending = Range(ch) \cup Range(batch) \cup UNION {Range(load[p]) : p \in Pushing}
    /\ dropped = Cardinality({e \in Entry : fate[e] = "overflow"})

Increasing(s) == \A i, j \in DOMAIN s : i < j => s[i] < s[j]

(* Entries travel in the order they were logged and none is in two places:
   what a push goroutine holds is older than what run holds, which is older
   than what is queued, and two push goroutines share nothing. *)
Fifo ==
    /\ Increasing(batch \o ch)
    /\ \A p \in Pushing :
          /\ Increasing(load[p])
          /\ \A e \in Range(load[p]), f \in Range(batch \o ch) : e < f
          /\ \A q \in Pushing \ {p} : Range(load[p]) \cap Range(load[q]) = {}

(* At most MaxConcurrentPush goroutines talk to Loki at a time, and pushSem
   counts exactly those that hold a slot. *)
PushesBounded ==
    /\ pushSem = Cardinality(Holding)
    /\ pushSem <= MaxConcurrentPush

(* Only the final flush, after quit is closed, may hand over a batch of more
   than MaxBatch entries; until then run's own batch stays below it. *)
BatchBounded ==
    /\ runPc = "select" => Len(batch) < MaxBatch
    /\ \A p \in Pushing : Len(load[p]) > MaxBatch => quit

(* Loki has stored a shipped entry at least once, none more often than there
   are attempts, and an entry reported as dropped not at all. *)
DeliveryCount ==
    \A e \in Entry :
        /\ stored[e] <= MaxRetries
        /\ fate[e] = "shipped" => stored[e] > 0
        /\ fate[e] \in Refusals \cup {"new", "shed"} => stored[e] = 0

(* When Shutdown returns nil the sender has stopped: run has returned, no
   push goroutine exists and every slot has been given back. *)
NilMeansQuiescent ==
    \A c \in Closer : closer[c] = "nil" =>
        /\ runPc = "exited" /\ batch = <<>>
        /\ Live = {} /\ pushSem = 0 /\ wg = 0

(* When Shutdown returns nil every entry that was taken before the call has
   been settled: posted, given up after the retries or dropped. *)
NilMeansSettled == \A c \in Closer : closer[c] = "nil" => due[c] \cap Pending = {}

(* Entries that stay in the channel when run has gone were all logged after
   Shutdown was called: drain reached the end of the queue. *)
OnlyLateEntriesStranded ==
    runPc \in {"return", "exited"} =>
        \A c \in Closer : closer[c] # "panicked" => due[c] \cap Range(ch) = {}

(* A decided entry stays decided and Loki receives no further copy of it:
   in particular a batch that was given up is never posted again. *)
SettledStays ==
    [][\A e \in Entry : fate[e] \notin {"new", "pending"} =>
          fate'[e] = fate[e] /\ stored'[e] = stored[e]]_vars

(* The HTTP client's time-out ends every attempt to push. *)
AttemptsEnd == \A p \in Pusher : []<>(pc[p] # "push")

(* A call of Shutdown returns even when its context is never cancelled, if
   every attempt to push ends. *)
ShutdownReturns ==
    AttemptsEnd => \A c \in Closer : closer[c] = "waiting" ~> (closer[c] # "waiting" \/ ~Alive)

(* Every entry taken before quit is closed is settled, by the ticker if the
   batch never fills, or by the final flush, if every attempt to push ends. *)
EarlyEntriesSettle ==
    AttemptsEnd => \A e \in Entry :
        (fate[e] = "pending" /\ ~quit) ~> (fate[e] # "pending" \/ ~Alive)

(* run never waits for Loki: it leaves after quit is closed even when no
   attempt to push ever ends. *)
RunNeverWaitsForLoki == quit ~> (runPc = "exited" \/ ~Alive)

(* Shutdown "flushes buffered log entries" (logger/loki.go:252): an entry
   that was buffered when it was called is not dropped by the final flush. *)
ShutdownFlushes ==
    \A c \in Closer : closer[c] = "nil" => \A e \in due[c] : fate[e] # "shed"

-----------------------------------------------------------------------------
(* The sender implements the contract of LogExporter as long as Shutdown is
   called once. *)
Exporter == INSTANCE LogExporter WITH MaxCopies <- MaxRetries

ImplementsExporter == Exporter!Spec
=============================================================================
