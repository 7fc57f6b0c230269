-------------------------- MODULE LokiSenderProofs --------------------------
(***************************************************************************)
(* Proofs, for every number of entries, goroutines, callers of Shutdown    *)
(* and every size of queue, batch and pool, of the type invariant of       *)
(* LokiSender and of what it means that Shutdown returns nil.              *)
(***************************************************************************)
EXTENDS LokiSender, FiniteSetTheorems, SequenceTheorems, TLAPS

(* wg counts run, until it has returned, and the push goroutines. *)
WgCounts == wg = Cardinality(Live) + IF runPc = "exited" THEN 0 ELSE 1

SemCounts == pushSem = Cardinality(Holding)

(* A push goroutine that goes on has attempts left. *)
AttemptsLeft ==
    \A p \in Pusher :
        /\ pc[p] = "idle" => attempt[p] = 0
        /\ pc[p] = "push" => attempt[p] < MaxRetries

InHand(e) ==
    \/ e \in Range(ch)
    \/ e \in Range(batch)
    \/ \E p \in Pusher : pc[p] = "push" /\ e \in Range(load[p])

(* Half of Ledger: what is undecided is held somewhere. *)
PendingInHand == \A e \in Entry : fate[e] = "pending" => InHand(e)

(* Entries are numbered in the order they are logged. *)
Numbered ==
    /\ \A e \in Entry : fate[e] = "pending" => e <= logged
    /\ \A c \in Closer : \A e \in due[c] : e <= logged

(* run leaves its loop only after quit has been closed, and takes nothing
   along; Shutdown has closed it. *)
QuitFirst ==
    /\ runPc # "select" => quit
    /\ runPc \in {"return", "exited"} => batch = <<>>
    /\ \A c \in Closer : closer[c] # "idle" => quit

NilAfterAll ==
    \A c \in Closer : closer[c] = "nil" => runPc = "exited" /\ Live = {}

IInv ==
    /\ TypeOK
    /\ WgCounts
    /\ SemCounts
    /\ AttemptsLeft
    /\ PendingInHand
    /\ Numbered
    /\ QuitFirst
    /\ OnlyLateEntriesStranded
    /\ NilAfterAll

-----------------------------------------------------------------------------
(* Sequences. *)

(* Appending an entry to a sequence adds it to what the sequence holds. *)
LEMMA RangeOfAppend ==
    ASSUME NEW S, NEW s \in Seq(S), NEW x \in S
    PROVE  /\ Append(s, x) \in Seq(S)
           /\ Len(Append(s, x)) = Len(s) + 1
           /\ Range(Append(s, x)) = Range(s) \cup {x}
<1>1. /\ Append(s, x) \in Seq(S)
      /\ Len(Append(s, x)) = Len(s) + 1
      /\ \A i \in 1..Len(s) : Append(s, x)[i] = s[i]
      /\ Append(s, x)[Len(s) + 1] = x
  BY AppendProperties
<1>2. DOMAIN Append(s, x) = 1..Len(s) \cup {Len(s) + 1}
  BY <1>1
<1>3. DOMAIN s = 1..Len(s)
  OBVIOUS
<1>. QED  BY <1>1, <1>2, <1>3 DEF Range

(* Taking the head of a sequence leaves the rest of what it holds. *)
LEMMA RangeOfTail ==
    ASSUME NEW S, NEW s \in Seq(S), s # <<>>
    PROVE  /\ Head(s) \in S
           /\ Tail(s) \in Seq(S)
           /\ Len(Tail(s)) = Len(s) - 1
           /\ Range(s) = {Head(s)} \cup Range(Tail(s))
<1>1. Head(s) \in S /\ Tail(s) \in Seq(S) /\ Len(Tail(s)) = Len(s) - 1 /\ Len(s) \in Nat \ {0}
  BY HeadTailProperties, EmptySeq
<1>2. Range(Tail(s)) = {s[i] : i \in 2..Len(s)}
  <2>1. \A i \in 1..Len(s) - 1 : Tail(s)[i] = s[i + 1]
    BY HeadTailProperties
  <2>2. DOMAIN Tail(s) = 1..Len(s) - 1
    BY <1>1
  <2>3. ASSUME NEW i \in 2..Len(s) PROVE i - 1 \in 1..Len(s) - 1 /\ s[i] = Tail(s)[i - 1]
    BY <1>1, <2>1
  <2>4. ASSUME NEW i \in 1..Len(s) - 1 PROVE i + 1 \in 2..Len(s) /\ Tail(s)[i] = s[i + 1]
    BY <1>1, <2>1
  <2>5. Range(Tail(s)) = {Tail(s)[i] : i \in 1..Len(s) - 1}
    BY <2>2 DEF Range
  <2>6. \A x \in Range(Tail(s)) : x \in {s[i] : i \in 2..Len(s)}
    BY <2>4, <2>5
  <2>7. \A x \in {s[i] : i \in 2..Len(s)} : x \in Range(Tail(s))
    BY <2>3, <2>5
  <2>. QED  BY <2>6, <2>7
<1>3. Head(s) = s[1]
  BY <1>1
<1>4. DOMAIN s = {1} \cup 2..Len(s)
  BY <1>1
<1>. QED  BY <1>1, <1>2, <1>3, <1>4 DEF Range

-----------------------------------------------------------------------------
(* Counting the goroutines. *)

(* There are finitely many push goroutines. *)
LEMMA Finite == IsFiniteSet(Live) /\ IsFiniteSet(Holding)
  BY PusherAssumption, FS_Subset DEF Live, Holding

(* Starting one: the idle goroutine p takes a slot. *)
LEMMA CountStart ==
    ASSUME NEW p \in Pusher, pc \in [Pusher -> {"idle", "push", "release", "done"}],
           pc[p] = "idle", pc' = [pc EXCEPT ![p] = "push"]
    PROVE  /\ Cardinality(Live') = Cardinality(Live) + 1
           /\ Cardinality(Holding') = Cardinality(Holding) + 1
<1>1. Live' = Live \cup {p} /\ p \notin Live
  BY DEF Live
<1>2. Holding' = Holding \cup {p} /\ p \notin Holding
  BY DEF Holding
<1>. QED  BY <1>1, <1>2, Finite, FS_AddElement

(* One of them gives its slot back. *)
LEMMA CountRelease ==
    ASSUME NEW p \in Pusher, pc \in [Pusher -> {"idle", "push", "release", "done"}],
           pc[p] = "release", pc' = [pc EXCEPT ![p] = "done"]
    PROVE  /\ Live' = Live
           /\ Cardinality(Holding') = Cardinality(Holding) - 1
           /\ Cardinality(Holding) \in Nat \ {0}
<1>1. Live' = Live
  BY DEF Live
<1>2. Holding' = Holding \ {p} /\ p \in Holding
  BY DEF Holding
<1>. QED  BY <1>1, <1>2, Finite, FS_RemoveElement, FS_CardinalityType, FS_EmptySet

(* One of them returns. *)
LEMMA CountReturn ==
    ASSUME NEW p \in Pusher, pc \in [Pusher -> {"idle", "push", "release", "done"}],
           pc[p] = "done", pc' = [pc EXCEPT ![p] = "idle"]
    PROVE  /\ Holding' = Holding
           /\ Live' \subseteq Live
           /\ Cardinality(Live') = Cardinality(Live) - 1
           /\ Cardinality(Live) \in Nat \ {0}
<1>1. Holding' = Holding
  BY DEF Holding
<1>2. Live' = Live \ {p} /\ p \in Live
  BY DEF Live
<1>. QED  BY <1>1, <1>2, Finite, FS_RemoveElement, FS_CardinalityType, FS_EmptySet

-----------------------------------------------------------------------------
(* newLokiSender starts with the invariant: run is counted, nothing is held. *)
THEOREM InitIInv == Init => IInv
<1>. SUFFICES ASSUME Init PROVE IInv
  OBVIOUS
<1>1. Live = {} /\ Holding = {}
  BY DEF Init, Live, Holding
<1>2. TypeOK
  <2>1. <<>> \in Seq(Entry) /\ Len(<<>>) = 0
    BY EmptySeq
  <2>2. /\ logged \in 0..MaxEntries /\ dropped \in Nat /\ wg \in Nat
        /\ pushSem \in 0..MaxConcurrentPush /\ Len(ch) <= QueueSize
    BY <2>1, MaxEntriesAssumption, QueueAssumption, SlotAssumption DEF Init
  <2>3. /\ ch \in Seq(Entry) /\ batch \in Seq(Entry)
        /\ load \in [Pusher -> Seq(Entry)]
    BY <2>1 DEF Init
  <2>4. /\ pc \in [Pusher -> {"idle", "push", "release", "done"}]
        /\ attempt \in [Pusher -> 0..MaxRetries]
    BY RetryAssumption DEF Init
  <2>5. /\ fate \in [Entry -> Fates] /\ stored \in [Entry -> Nat]
        /\ due \in [Closer -> SUBSET Entry]
    BY DEF Init, Fates
  <2>6. /\ quit \in BOOLEAN
        /\ runPc \in {"select", "drain", "return", "exited"}
        /\ closer \in [Closer -> {"idle", "waiting", "nil", "ctxErr", "panicked"}]
    BY DEF Init
  <2>. QED  BY <2>2, <2>3, <2>4, <2>5, <2>6 DEF TypeOK
<1>3. WgCounts /\ SemCounts
  BY <1>1, FS_EmptySet DEF Init, WgCounts, SemCounts
<1>4. AttemptsLeft
  BY RetryAssumption DEF Init, AttemptsLeft
<1>5. PendingInHand /\ Numbered /\ QuitFirst /\ OnlyLateEntriesStranded /\ NilAfterAll
  BY DEF Init, PendingInHand, Numbered, QuitFirst, OnlyLateEntriesStranded, NilAfterAll
<1>. QED  BY <1>2, <1>3, <1>4, <1>5 DEF IInv

-----------------------------------------------------------------------------
(* The part of IInv about the push goroutines. *)
PushTyped ==
    /\ pushSem \in 0..MaxConcurrentPush
    /\ wg \in Nat
    /\ pc \in [Pusher -> {"idle", "push", "release", "done"}]
    /\ load \in [Pusher -> Seq(Entry)]
    /\ attempt \in [Pusher -> 0..MaxRetries]
    /\ fate \in [Entry -> Fates]
    /\ WgCounts
    /\ SemCounts
    /\ AttemptsLeft

(* A step that leaves the push goroutines alone leaves their bookkeeping alone. *)
LEMMA Frame ==
    ASSUME IInv, UNCHANGED pushVars, (runPc' = "exited") <=> (runPc = "exited"),
           fate' \in [Entry -> Fates]
    PROVE  PushTyped'
<1>1. Live' = Live /\ Holding' = Holding
  BY DEF pushVars, Live, Holding
<1>. QED
  BY <1>1 DEF IInv, TypeOK, PushTyped, WgCounts, SemCounts, AttemptsLeft, pushVars

(* Starting a push goroutine: slot, WaitGroup and load are booked together. *)
LEMMA StartPushStep ==
    ASSUME IInv, runPc # "exited", NEW p \in Pusher, NEW b \in Seq(Entry), StartPush(p, b),
           runPc' # "exited"
    PROVE  /\ PushTyped'
           /\ \A q \in Pusher : pc[q] = "push" => pc'[q] = "push" /\ load'[q] = load[q]
           /\ pc'[p] = "push" /\ load'[p] = b
<1>. USE DEF IInv, TypeOK, StartPush
<1>1. /\ Cardinality(Live') = Cardinality(Live) + 1
      /\ Cardinality(Holding') = Cardinality(Holding) + 1
  BY CountStart
<1>2. pushSem' \in 0..MaxConcurrentPush /\ wg' \in Nat
  BY SlotAssumption
<1>3. /\ pc' \in [Pusher -> {"idle", "push", "release", "done"}]
      /\ load' \in [Pusher -> Seq(Entry)]
      /\ attempt' \in [Pusher -> 0..MaxRetries]
      /\ fate' \in [Entry -> Fates]
  OBVIOUS
<1>4. SemCounts'
  BY <1>1 DEF SemCounts
<1>5. WgCounts'
  BY <1>1, Finite, FS_CardinalityType DEF WgCounts
<1>6. AttemptsLeft'
  BY RetryAssumption DEF AttemptsLeft
<1>. QED  BY <1>2, <1>3, <1>4, <1>5, <1>6 DEF PushTyped

(* A flush hands the batch over or drops it; what was pending stays in hand. *)
LEMMA FlushStep ==
    ASSUME IInv, runPc # "exited", NEW b \in Seq(Entry), Flush(b), runPc' # "exited"
    PROVE  /\ batch' = <<>>
           /\ PushTyped'
           /\ \A e \in Entry : fate'[e] = "pending" => fate[e] = "pending"
           /\ \A q \in Pusher : pc[q] = "push" => pc'[q] = "push" /\ load'[q] = load[q]
           /\ \A e \in Range(b) : fate'[e] = "pending" =>
                 \E p \in Pusher : pc'[p] = "push" /\ e \in Range(load'[p])
<1>1. batch' = <<>>
  BY DEF Flush
<1>2. CASE b = <<>>
  <2>1. UNCHANGED <<pushVars, fate>>
    BY <1>2 DEF Flush
  <2>2. fate' \in [Entry -> Fates]
    BY <2>1 DEF IInv, TypeOK
  <2>3. PushTyped'
    BY <2>1, <2>2, Frame
  <2>4. Range(b) = {}
    BY <1>2 DEF Range
  <2>. QED  BY <1>1, <2>1, <2>3, <2>4 DEF pushVars
<1>3. CASE b # <<>> /\ \E p \in Pusher : StartPush(p, b)
  <2>1. PICK p \in Pusher : StartPush(p, b)
    BY <1>3
  <2>2. fate' = fate
    BY <2>1 DEF StartPush
  <2>. QED  BY <1>1, <2>1, <2>2, StartPushStep
<1>4. CASE b # <<>> /\ DropBatch(b)
  <2>1. UNCHANGED pushVars /\ fate' = Settle(Range(b), "shed")
    BY <1>4 DEF DropBatch
  <2>2. fate' \in [Entry -> Fates]
    BY <2>1 DEF Settle, Fates, IInv, TypeOK
  <2>3. PushTyped'
    BY <2>1, <2>2, Frame
  <2>4. /\ \A e \in Entry : fate'[e] = "pending" => fate[e] = "pending"
        /\ \A e \in Range(b) : e \in Entry => fate'[e] # "pending"
    BY <2>1 DEF Settle
  <2>5. Range(b) \subseteq Entry
    BY DEF Range
  <2>. QED  BY <1>1, <2>1, <2>3, <2>4, <2>5 DEF pushVars
<1>. QED  BY <1>2, <1>3, <1>4 DEF Flush, PushAsync

-----------------------------------------------------------------------------
(* Each action preserves IInv. *)

(* Export puts at most one entry, with a new number, in the channel. *)
LEMMA ExportStep == ASSUME IInv, Export PROVE IInv'
<1>. USE DEF IInv
<1>1. logged < MaxEntries /\ logged' = logged + 1 /\ logged' \in Entry /\ logged' \in 0..MaxEntries
  BY MaxEntriesAssumption DEF Export, Reject, Enqueue, Overflow, TypeOK, Entry
<1>2. UNCHANGED <<runVars, pushVars, closerVars, stored>>
  BY DEF Export, Reject, Enqueue, Overflow
<1>3. PICK f \in Fates : fate' = [fate EXCEPT ![logged'] = f]
  BY DEF Export, Reject, Enqueue, Overflow, Fates, Refusals
<1>4. fate' \in [Entry -> Fates]
  BY <1>1, <1>3 DEF TypeOK
<1>5. PushTyped'
  BY <1>2, <1>4, Frame DEF runVars
<1>6. \/ ch' = ch /\ f # "pending"
      \/ ch' = Append(ch, logged') /\ Len(ch) < QueueSize
  BY <1>1, <1>3 DEF Export, Reject, Enqueue, Overflow, TypeOK
<1>7. /\ ch' \in Seq(Entry) /\ Len(ch') <= QueueSize
      /\ Range(ch') = Range(ch) \/ Range(ch') = Range(ch) \cup {logged'}
      /\ Range(ch) \subseteq Range(ch')
      /\ f = "pending" => logged' \in Range(ch')
  <2>1. CASE ch' = ch /\ f # "pending"
    BY <2>1 DEF TypeOK
  <2>2. CASE ch' = Append(ch, logged') /\ Len(ch) < QueueSize
    <3>1. /\ ch' \in Seq(Entry) /\ Len(ch') = Len(ch) + 1
          /\ Range(ch') = Range(ch) \cup {logged'}
      BY <1>1, <2>2, RangeOfAppend DEF TypeOK
    <3>2. Len(ch') <= QueueSize
      BY <2>2, <3>1, QueueAssumption DEF TypeOK
    <3>. QED  BY <3>1, <3>2
  <2>. QED  BY <1>6, <2>1, <2>2
<1>8. TypeOK'
  <2>1. dropped' \in Nat
    BY DEF Export, Reject, Enqueue, Overflow, TypeOK
  <2>. QED  BY <1>1, <1>2, <1>5, <1>7, <2>1 DEF TypeOK, PushTyped, runVars, closerVars
<1>9. PendingInHand'
  BY <1>1, <1>2, <1>3, <1>7 DEF PendingInHand, InHand, TypeOK, runVars, pushVars
<1>10. Numbered'
  <2>1. ASSUME NEW e \in Entry, fate'[e] = "pending" PROVE e <= logged'
    <3>1. e = logged' \/ fate[e] = "pending"
      BY <1>1, <1>3, <2>1 DEF TypeOK
    <3>. QED  BY <1>1, <3>1, MaxEntriesAssumption DEF Numbered, TypeOK, Entry
  <2>2. ASSUME NEW c \in Closer, NEW e \in due'[c] PROVE e <= logged'
    <3>1. e \in due[c] /\ e \in Entry
      BY <1>2, <2>2 DEF closerVars, TypeOK
    <3>. QED  BY <1>1, <3>1, MaxEntriesAssumption DEF Numbered, TypeOK, Entry
  <2>. QED  BY <2>1, <2>2 DEF Numbered
<1>11. OnlyLateEntriesStranded'
  <2>1. ASSUME NEW c \in Closer PROVE logged' \notin due[c]
    BY <1>1, <2>1, MaxEntriesAssumption DEF Numbered, TypeOK, Entry
  <2>. QED  BY <1>2, <1>7, <2>1 DEF OnlyLateEntriesStranded, runVars, closerVars
<1>12. QuitFirst' /\ NilAfterAll'
  BY <1>2 DEF QuitFirst, NilAfterAll, Live, runVars, pushVars, closerVars
<1>. QED  BY <1>5, <1>8, <1>9, <1>10, <1>11, <1>12 DEF PushTyped

(* A step of run that takes the head of ch, and leaves it or flushes it. *)
LEMMA TakeStep ==
    ASSUME IInv, runPc \in {"select", "drain"}, ch # <<>>, ch' = Tail(ch),
           Flush(Append(batch, Head(ch))) \/ Keep(Append(batch, Head(ch))),
           UNCHANGED <<logged, dropped, runPc, closerVars, stored>>
    PROVE  IInv'
<1>. DEFINE b == Append(batch, Head(ch))
<1>. USE DEF IInv
<1>1. /\ ch' \in Seq(Entry) /\ Len(ch') = Len(ch) - 1
      /\ Head(ch) \in Entry
      /\ Range(ch) = {Head(ch)} \cup Range(ch')
  BY RangeOfTail DEF TypeOK
<1>2. b \in Seq(Entry) /\ Range(b) = Range(batch) \cup {Head(ch)}
  BY <1>1, RangeOfAppend DEF TypeOK
<1>3. /\ batch' \in Seq(Entry)
      /\ PushTyped'
      /\ \A e \in Entry : fate'[e] = "pending" => fate[e] = "pending"
      /\ \A q \in Pusher : pc[q] = "push" => pc'[q] = "push" /\ load'[q] = load[q]
      /\ \A e \in Range(b) : fate'[e] = "pending" =>
            \/ e \in Range(batch')
            \/ \E p \in Pusher : pc'[p] = "push" /\ e \in Range(load'[p])
  <2>1. CASE Flush(b)
    <3>1. runPc # "exited" /\ runPc' # "exited"
      OBVIOUS
    <3>2. /\ batch' = <<>>
          /\ PushTyped'
          /\ \A e \in Entry : fate'[e] = "pending" => fate[e] = "pending"
          /\ \A q \in Pusher : pc[q] = "push" => pc'[q] = "push" /\ load'[q] = load[q]
          /\ \A e \in Range(b) : fate'[e] = "pending" =>
                \E p \in Pusher : pc'[p] = "push" /\ e \in Range(load'[p])
      BY <1>2, <2>1, <3>1, FlushStep
    <3>. QED  BY <3>2, EmptySeq
  <2>2. CASE Keep(b)
    <3>1. batch' = b /\ UNCHANGED <<pushVars, fate>>
      BY <2>2 DEF Keep
    <3>2. PushTyped'
      BY <3>1, Frame DEF TypeOK
    <3>. QED  BY <1>2, <3>1, <3>2 DEF pushVars
  <2>. QED  BY <2>1, <2>2
<1>4. TypeOK'
  BY <1>1, <1>3, QueueAssumption DEF TypeOK, PushTyped, closerVars
<1>5. PendingInHand'
  <2>1. ASSUME NEW e \in Entry, fate'[e] = "pending" PROVE InHand(e)'
    <3>1. InHand(e)
      BY <1>3, <2>1 DEF PendingInHand
    <3>2. CASE e \in Range(ch) \/ e \in Range(batch)
      <4>1. e \in Range(b) \/ e \in Range(ch')
        BY <1>1, <1>2, <3>2
      <4>. QED  BY <1>3, <2>1, <4>1 DEF InHand
    <3>3. CASE \E p \in Pusher : pc[p] = "push" /\ e \in Range(load[p])
      BY <1>3, <3>3 DEF InHand
    <3>. QED  BY <3>1, <3>2, <3>3 DEF InHand
  <2>. QED  BY <2>1 DEF PendingInHand
<1>6. Numbered'
  BY <1>3 DEF Numbered, closerVars
<1>7. QuitFirst' /\ OnlyLateEntriesStranded'
  BY DEF QuitFirst, OnlyLateEntriesStranded, closerVars
<1>8. NilAfterAll'
  BY DEF NilAfterAll, closerVars
<1>. QED  BY <1>3, <1>4, <1>5, <1>6, <1>7, <1>8 DEF PushTyped

(* run receives an entry and flushes the batch it fills. *)
LEMMA RecvStep == ASSUME IInv, Recv PROVE IInv'
  BY TakeStep DEF Recv, Receive

(* run receives an entry while it drains the channel. *)
LEMMA DrainRecvStep == ASSUME IInv, DrainRecv PROVE IInv'
  BY TakeStep DEF DrainRecv

(* A step of run that flushes the batch as it is. *)
LEMMA FlushAllStep ==
    ASSUME IInv, runPc \in {"select", "drain"}, Flush(batch),
           \/ runPc' = runPc
           \/ runPc = "drain" /\ ch = <<>> /\ runPc' = "return",
           UNCHANGED <<logged, ch, dropped, closerVars, stored>>
    PROVE  IInv'
<1>. USE DEF IInv
<1>1. /\ batch' = <<>>
      /\ PushTyped'
      /\ \A e \in Entry : fate'[e] = "pending" => fate[e] = "pending"
      /\ \A q \in Pusher : pc[q] = "push" => pc'[q] = "push" /\ load'[q] = load[q]
      /\ \A e \in Range(batch) : fate'[e] = "pending" =>
            \E p \in Pusher : pc'[p] = "push" /\ e \in Range(load'[p])
  <2>1. batch \in Seq(Entry) /\ runPc # "exited" /\ runPc' # "exited"
    BY DEF TypeOK
  <2>. QED  BY <2>1, FlushStep
<1>2. TypeOK'
  BY <1>1, EmptySeq DEF TypeOK, PushTyped, closerVars
<1>3. PendingInHand'
  BY <1>1 DEF PendingInHand, InHand
<1>4. Numbered'
  BY <1>1 DEF Numbered, closerVars
<1>5. QuitFirst'
  BY <1>1 DEF QuitFirst, closerVars
<1>6. OnlyLateEntriesStranded'
  BY DEF OnlyLateEntriesStranded, closerVars, Range
<1>7. NilAfterAll'
  BY DEF NilAfterAll, closerVars
<1>. QED  BY <1>1, <1>2, <1>3, <1>4, <1>5, <1>6, <1>7 DEF PushTyped

(* The ticker flushes. *)
LEMMA TickStep == ASSUME IInv, Tick PROVE IInv'
  BY FlushAllStep DEF Tick

(* The drain loop ends with an empty channel and the final flush. *)
LEMMA DrainDoneStep == ASSUME IInv, DrainDone PROVE IInv'
  BY FlushAllStep DEF DrainDone

(* run sees that quit is closed. *)
LEMMA QuitStep == ASSUME IInv, Quit PROVE IInv'
<1>. USE DEF IInv, Quit
<1>1. fate' \in [Entry -> Fates]
  BY DEF TypeOK
<1>2. PushTyped'
  BY <1>1, Frame
<1>3. TypeOK'
  BY DEF TypeOK, pushVars, closerVars
<1>4. PendingInHand' /\ Numbered'
  BY DEF PendingInHand, InHand, Numbered, pushVars, closerVars
<1>5. QuitFirst' /\ OnlyLateEntriesStranded' /\ NilAfterAll'
  BY DEF QuitFirst, OnlyLateEntriesStranded, NilAfterAll, closerVars
<1>. QED  BY <1>2, <1>3, <1>4, <1>5 DEF PushTyped

(* run leaves the WaitGroup. *)
LEMMA RunReturnStep == ASSUME IInv, RunReturn PROVE IInv'
<1>. USE DEF IInv, RunReturn
<1>1. Live' = Live /\ Holding' = Holding
  BY DEF Live, Holding
<1>2. wg = Cardinality(Live) + 1 /\ Cardinality(Live) \in Nat
  BY Finite, FS_CardinalityType DEF WgCounts
<1>3. WgCounts' /\ wg' \in Nat
  BY <1>1, <1>2 DEF WgCounts
<1>4. SemCounts' /\ AttemptsLeft'
  BY <1>1 DEF SemCounts, AttemptsLeft
<1>5. TypeOK'
  BY <1>3 DEF TypeOK, closerVars
<1>6. PendingInHand' /\ Numbered'
  BY DEF PendingInHand, InHand, Numbered, closerVars
<1>7. QuitFirst' /\ OnlyLateEntriesStranded' /\ NilAfterAll'
  BY DEF QuitFirst, OnlyLateEntriesStranded, NilAfterAll, closerVars
<1>. QED  BY <1>3, <1>4, <1>5, <1>6, <1>7

(* A push goroutine decides the fate of its load, and only of that. *)
LEMMA SettleLoad ==
    ASSUME IInv, NEW p \in Pusher, NEW f \in {"shipped", "failed"},
           fate' = Settle(Range(load[p]), f),
           pc' = [pc EXCEPT ![p] = "release"],
           UNCHANGED <<logged, ch, batch, load, due>>
    PROVE  fate' \in [Entry -> Fates] /\ PendingInHand' /\ Numbered'
<1>1. fate' \in [Entry -> Fates]
  BY DEF IInv, TypeOK, Settle, Fates
<1>2. \A e \in Entry : fate'[e] = "pending" => fate[e] = "pending" /\ e \notin Range(load[p])
  BY DEF Settle
<1>3. PendingInHand'
  BY <1>2 DEF IInv, TypeOK, PendingInHand, InHand
<1>4. Numbered'
  BY <1>2 DEF IInv, Numbered
<1>. QED  BY <1>1, <1>3, <1>4

(* Loki stores a natural number of copies. *)
LEMMA StoreType == ASSUME IInv, NEW S PROVE Store(S) \in [Entry -> Nat]
  BY DEF IInv, TypeOK, Store

(* A push goroutine that stops pushing keeps its slot. *)
LEMMA CountStop ==
    ASSUME IInv, NEW p \in Pusher, pc[p] = "push", pc' = [pc EXCEPT ![p] = "release"]
    PROVE  Live' = Live /\ Holding' = Holding
  BY DEF IInv, TypeOK, Live, Holding

(* A push goroutine succeeds. *)
LEMMA PushOkStep == ASSUME IInv, NEW p \in Pusher, PushOk(p) PROVE IInv'
<1>. USE DEF IInv, PushOk
<1>1. fate' \in [Entry -> Fates] /\ PendingInHand' /\ Numbered'
  BY SettleLoad DEF runVars, closerVars
<1>2. Live' = Live /\ Holding' = Holding
  BY CountStop
<1>3. stored' \in [Entry -> Nat]
  BY StoreType
<1>4. TypeOK'
  BY <1>1, <1>3 DEF TypeOK, runVars, closerVars
<1>5. WgCounts' /\ SemCounts' /\ NilAfterAll'
  BY <1>2 DEF WgCounts, SemCounts, NilAfterAll, runVars, closerVars
<1>6. AttemptsLeft'
  BY DEF AttemptsLeft, TypeOK
<1>7. QuitFirst' /\ OnlyLateEntriesStranded'
  BY DEF QuitFirst, OnlyLateEntriesStranded, runVars, closerVars
<1>. QED  BY <1>1, <1>4, <1>5, <1>6, <1>7

(* An attempt fails: another follows, or the push goroutine gives up. *)
LEMMA PushFailStep ==
    ASSUME IInv, NEW p \in Pusher, NEW reached \in BOOLEAN, PushFail(p, reached)
    PROVE  IInv'
<1>. USE DEF IInv, PushFail
<1>1. stored' \in [Entry -> Nat]
  BY StoreType DEF TypeOK
<1>2. /\ attempt' = [attempt EXCEPT ![p] = attempt[p] + 1]
      /\ attempt[p] < MaxRetries /\ attempt[p] \in 0..MaxRetries
      /\ attempt' \in [Pusher -> 0..MaxRetries]
  BY RetryAssumption DEF AttemptsLeft, TypeOK
<1>3. QuitFirst' /\ OnlyLateEntriesStranded'
  BY DEF QuitFirst, OnlyLateEntriesStranded, runVars, closerVars
<1>4. CASE attempt'[p] < MaxRetries
  <2>1. UNCHANGED <<pc, fate>>
    BY <1>4
  <2>2. Live' = Live /\ Holding' = Holding
    BY <2>1 DEF Live, Holding
  <2>3. TypeOK'
    BY <1>1, <1>2, <2>1 DEF TypeOK, runVars, closerVars
  <2>4. WgCounts' /\ SemCounts' /\ NilAfterAll'
    BY <2>2 DEF WgCounts, SemCounts, NilAfterAll, runVars, closerVars
  <2>5. AttemptsLeft'
    BY <1>2, <1>4, <2>1 DEF AttemptsLeft, TypeOK
  <2>6. PendingInHand' /\ Numbered'
    BY <2>1 DEF PendingInHand, InHand, Numbered, runVars, closerVars
  <2>. QED  BY <1>3, <2>3, <2>4, <2>5, <2>6
<1>5. CASE ~(attempt'[p] < MaxRetries)
  <2>1. pc' = [pc EXCEPT ![p] = "release"] /\ fate' = Settle(Range(load[p]), "failed")
    BY <1>5
  <2>2. fate' \in [Entry -> Fates] /\ PendingInHand' /\ Numbered'
    BY <2>1, SettleLoad DEF runVars, closerVars
  <2>3. Live' = Live /\ Holding' = Holding
    BY <2>1, CountStop
  <2>4. TypeOK'
    BY <1>1, <1>2, <2>1, <2>2 DEF TypeOK, runVars, closerVars
  <2>5. WgCounts' /\ SemCounts' /\ NilAfterAll'
    BY <2>3 DEF WgCounts, SemCounts, NilAfterAll, runVars, closerVars
  <2>6. AttemptsLeft'
    BY <1>2, <2>1 DEF AttemptsLeft, TypeOK
  <2>. QED  BY <1>3, <2>2, <2>4, <2>5, <2>6
<1>. QED  BY <1>4, <1>5

(* A push goroutine gives its slot back. *)
LEMMA ReleaseStep == ASSUME IInv, NEW p \in Pusher, Release(p) PROVE IInv'
<1>. USE DEF IInv, Release
<1>1. /\ Live' = Live
      /\ Cardinality(Holding') = Cardinality(Holding) - 1
      /\ Cardinality(Holding) \in Nat \ {0}
  BY CountRelease DEF TypeOK
<1>2. SemCounts' /\ pushSem' \in 0..MaxConcurrentPush
  BY <1>1, SlotAssumption DEF SemCounts, TypeOK
<1>3. TypeOK'
  BY <1>2 DEF TypeOK, runVars, closerVars
<1>4. WgCounts' /\ NilAfterAll' /\ AttemptsLeft'
  BY <1>1 DEF WgCounts, NilAfterAll, AttemptsLeft, TypeOK, runVars, closerVars
<1>5. PendingInHand' /\ Numbered'
  BY DEF PendingInHand, InHand, Numbered, TypeOK, runVars, closerVars
<1>6. QuitFirst' /\ OnlyLateEntriesStranded'
  BY DEF QuitFirst, OnlyLateEntriesStranded, runVars, closerVars
<1>. QED  BY <1>2, <1>3, <1>4, <1>5, <1>6

(* A push goroutine leaves the WaitGroup. *)
LEMMA PusherReturnStep == ASSUME IInv, NEW p \in Pusher, PusherReturn(p) PROVE IInv'
<1>. USE DEF IInv, PusherReturn
<1>1. /\ Holding' = Holding
      /\ Live' \subseteq Live
      /\ Cardinality(Live') = Cardinality(Live) - 1
      /\ Cardinality(Live) \in Nat \ {0}
  BY CountReturn DEF TypeOK
<1>2. WgCounts' /\ wg' \in Nat
  BY <1>1 DEF WgCounts, runVars
<1>3. TypeOK'
  <2>1. load' \in [Pusher -> Seq(Entry)]
    BY EmptySeq DEF TypeOK
  <2>2. attempt' \in [Pusher -> 0..MaxRetries]
    BY RetryAssumption DEF TypeOK
  <2>. QED  BY <1>2, <2>1, <2>2 DEF TypeOK, runVars, closerVars
<1>4. SemCounts' /\ NilAfterAll'
  BY <1>1 DEF SemCounts, NilAfterAll, runVars, closerVars
<1>5. AttemptsLeft'
  BY RetryAssumption DEF AttemptsLeft, TypeOK
<1>6. PendingInHand' /\ Numbered'
  BY DEF PendingInHand, InHand, Numbered, TypeOK, runVars, closerVars
<1>7. QuitFirst' /\ OnlyLateEntriesStranded'
  BY DEF QuitFirst, OnlyLateEntriesStranded, runVars, closerVars
<1>. QED  BY <1>2, <1>3, <1>4, <1>5, <1>6, <1>7

(* Shutdown closes quit, once. *)
LEMMA ShutdownStep == ASSUME IInv, NEW c \in Closer, Shutdown(c) PROVE IInv'
<1>. USE DEF IInv, Shutdown
<1>1. fate' \in [Entry -> Fates]
  BY DEF TypeOK
<1>2. PushTyped'
  BY <1>1, Frame DEF runVars
<1>3. TypeOK'
  BY DEF TypeOK, runVars, pushVars, Pending
<1>4. PendingInHand'
  BY DEF PendingInHand, InHand, runVars, pushVars
<1>5. Numbered'
  BY DEF Numbered, Pending, TypeOK
<1>6. QuitFirst'
  BY DEF QuitFirst, TypeOK, runVars
<1>7. OnlyLateEntriesStranded'
  <2>1. CASE quit
    BY <2>1 DEF OnlyLateEntriesStranded, TypeOK, runVars
  <2>2. CASE ~quit
    BY <2>2 DEF QuitFirst, OnlyLateEntriesStranded, runVars
  <2>. QED  BY <2>1, <2>2
<1>8. NilAfterAll'
  BY DEF NilAfterAll, TypeOK, Live, runVars, pushVars
<1>. QED  BY <1>2, <1>3, <1>4, <1>5, <1>6, <1>7, <1>8 DEF PushTyped

(* A caller of Shutdown that returns: wg = 0 means that nothing is left. *)
LEMMA ReturnStep ==
    ASSUME IInv, NEW c \in Closer, ShutdownNil(c) \/ ShutdownCtx(c)
    PROVE  IInv'
<1>. USE DEF IInv, ShutdownNil, ShutdownCtx
<1>1. fate' \in [Entry -> Fates]
  BY DEF TypeOK
<1>2. PushTyped'
  BY <1>1, Frame DEF runVars
<1>3. TypeOK'
  BY DEF TypeOK, runVars, pushVars
<1>4. PendingInHand' /\ Numbered'
  BY DEF PendingInHand, InHand, Numbered, runVars, pushVars
<1>5. QuitFirst' /\ OnlyLateEntriesStranded'
  BY DEF QuitFirst, OnlyLateEntriesStranded, TypeOK, runVars
<1>6. wg = 0 => runPc = "exited" /\ Live = {}
  BY Finite, FS_CardinalityType, FS_EmptySet DEF WgCounts
<1>7. NilAfterAll'
  <2>1. Live' = Live /\ runPc' = runPc
    BY DEF Live, pushVars, runVars
  <2>. QED  BY <1>6, <2>1 DEF NilAfterAll, TypeOK
<1>. QED  BY <1>2, <1>3, <1>4, <1>5, <1>7 DEF PushTyped

(* A stuttering step. *)
LEMMA StutterStep == ASSUME IInv, UNCHANGED vars PROVE IInv'
<1>. USE DEF IInv, vars, runVars, pushVars, closerVars
<1>1. fate' \in [Entry -> Fates]
  BY DEF TypeOK
<1>2. PushTyped'
  BY <1>1, Frame
<1>3. TypeOK'
  BY DEF TypeOK
<1>4. PendingInHand' /\ Numbered' /\ QuitFirst' /\ OnlyLateEntriesStranded'
  BY DEF PendingInHand, InHand, Numbered, QuitFirst, OnlyLateEntriesStranded
<1>5. NilAfterAll'
  BY DEF NilAfterAll, Live
<1>. QED  BY <1>2, <1>3, <1>4, <1>5 DEF PushTyped

(* Every step of the sender preserves the invariant. *)
THEOREM NextIInv == IInv /\ [Next]_vars => IInv'
<1>. SUFFICES ASSUME IInv, [Next]_vars PROVE IInv'
  OBVIOUS
<1>1. CASE Export
  BY <1>1, ExportStep
<1>2. CASE RunStep
  BY <1>2, RecvStep, TickStep, QuitStep, DrainRecvStep, DrainDoneStep, RunReturnStep DEF RunStep
<1>3. ASSUME NEW p \in Pusher, PusherStep(p) PROVE IInv'
  BY <1>3, PushOkStep, PushFailStep, ReleaseStep, PusherReturnStep DEF PusherStep, Unwind
<1>4. ASSUME NEW c \in Closer, CloserStep(c) PROVE IInv'
  BY <1>4, ShutdownStep, ReturnStep DEF CloserStep
<1>5. CASE UNCHANGED vars
  BY <1>5, StutterStep
<1>. QED  BY <1>1, <1>2, <1>3, <1>4, <1>5 DEF Next, Step

(* The invariant holds throughout. *)
THEOREM SpecIInv == Spec => []IInv
<1>. QED  BY InitIInv, NextIInv, PTL DEF Spec

-----------------------------------------------------------------------------
(* Every variable of the sender keeps to its type, and neither the channel
   nor pushSem exceeds its capacity. *)
THEOREM TypeCorrect == Spec => []TypeOK
<1>1. IInv => TypeOK
  BY DEF IInv
<1>. QED  BY <1>1, SpecIInv, PTL

(* pushAsync caps the goroutines that talk to Loki: pushSem counts exactly
   those that hold a slot (logger/loki.go:140-155). *)
THEOREM PushCap == Spec => []PushesBounded
<1>1. IInv => PushesBounded
  BY SlotAssumption DEF IInv, TypeOK, SemCounts, PushesBounded
<1>. QED  BY <1>1, SpecIInv, PTL

(* What is left in the channel when run has gone was logged after Shutdown
   had been called (logger/loki.go:107-117). *)
THEOREM Stranded == Spec => []OnlyLateEntriesStranded
<1>1. IInv => OnlyLateEntriesStranded
  BY DEF IInv
<1>. QED  BY <1>1, SpecIInv, PTL

(* A Shutdown that returns nil has stopped the background goroutine and every
   push goroutine (logger/loki.go:122-133). *)
THEOREM ShutdownStops == Spec => []NilMeansQuiescent
<1>1. IInv => NilMeansQuiescent
  <2>. SUFFICES ASSUME IInv, NEW c \in Closer, closer[c] = "nil"
                PROVE  /\ runPc = "exited" /\ batch = <<>>
                       /\ Live = {} /\ pushSem = 0 /\ wg = 0
    BY DEF NilMeansQuiescent
  <2>1. runPc = "exited" /\ Live = {} /\ batch = <<>>
    BY DEF IInv, NilAfterAll, QuitFirst
  <2>2. Holding = {}
    BY <2>1 DEF Live, Holding
  <2>. QED  BY <2>1, <2>2, FS_EmptySet DEF IInv, WgCounts, SemCounts
<1>. QED  BY <1>1, SpecIInv, PTL

(* Once everything the sender started has returned, no entry is undecided that
   was taken before a call of Shutdown: run has drained the channel and has left
   nothing in its batch, and every push goroutine has made up its mind. *)
LEMMA QuiescentSettled ==
    ASSUME IInv, runPc = "exited", Live = {}, NEW c \in Closer, closer[c] # "panicked"
    PROVE  due[c] \cap Pending = {}
<1>. SUFFICES ASSUME NEW e \in due[c], e \in Entry, fate[e] = "pending" PROVE FALSE
  BY DEF Pending
<1>1. batch = <<>>
  BY DEF IInv, QuitFirst
<1>2. e \notin Range(batch)
  BY <1>1 DEF Range
<1>3. \A p \in Pusher : pc[p] # "push"
  BY DEF Live
<1>4. e \notin Range(ch)
  BY DEF IInv, OnlyLateEntriesStranded
<1>. QED  BY <1>2, <1>3, <1>4 DEF IInv, PendingInHand, InHand

(* A Shutdown that returns nil leaves no entry undecided that was taken before
   it was called (logger/loki.go:122-133). *)
THEOREM ShutdownSettles == Spec => []NilMeansSettled
<1>1. IInv => NilMeansSettled
  BY QuiescentSettled DEF IInv, NilAfterAll, NilMeansSettled
<1>. QED  BY <1>1, SpecIInv, PTL

-----------------------------------------------------------------------------
(* Nothing happens any more but that entries are logged: no attempt to push, no
   goroutine that starts; what is pending then, or is queued later, stays where
   it is for good, not even counted in dropped. *)
Still ==
    /\ UNCHANGED <<runVars, pushVars, stored>>
    /\ ch' = ch \/ \E e \in Entry : ch' = Append(ch, e)
    /\ \A e \in Pending : fate'[e] = "pending"

ShutdownIsFinal == [][(\E c \in Closer : closer[c] = "nil") => Still]_vars

(* After a Shutdown that returned nil, whoever else calls it, Loki receives
   nothing and no goroutine of the sender comes back, although Export goes on
   taking entries (logger/loki.go:60-77 and 122-133). *)
THEOREM ShutdownLasts == Spec => ShutdownIsFinal
<1>1. ASSUME IInv, Next, NEW c \in Closer, closer[c] = "nil"
      PROVE  Still
  <2>1. runPc = "exited" /\ \A p \in Pusher : pc[p] = "idle"
    BY <1>1 DEF IInv, NilAfterAll, Live
  <2>2. ~RunStep /\ \A p \in Pusher : ~PusherStep(p)
    BY <2>1 DEF RunStep, Recv, Tick, Quit, DrainRecv, DrainDone, RunReturn,
                PusherStep, PushOk, PushFail, Unwind, Release, PusherReturn
  <2>3. CASE Export
    <3>1. logged' = logged + 1 /\ logged + 1 \in Entry /\ logged + 1 > logged
      BY <1>1, <2>3, MaxEntriesAssumption
      DEF Export, Reject, Enqueue, Overflow, IInv, TypeOK, Entry
    <3>2. \A e \in Pending : e # logged + 1
      BY <1>1, <3>1 DEF IInv, Numbered, PendingInHand, TypeOK, Pending, Entry
    <3>3. \A e \in Pending : fate'[e] = fate[e]
      BY <1>1, <2>3, <3>1, <3>2 DEF Export, Reject, Enqueue, Overflow, IInv, TypeOK, Pending
    <3>. QED  BY <2>3, <3>1, <3>3 DEF Still, Pending, Export, Reject, Enqueue, Overflow
  <2>4. CASE \E d \in Closer : CloserStep(d)
    BY <2>4 DEF Still, Pending, CloserStep, Shutdown, ShutdownNil, ShutdownCtx
  <2>5. CASE UNCHANGED vars
    BY <2>5 DEF Still, Pending, vars
  <2>. QED  BY <1>1, <2>2, <2>3, <2>4, <2>5 DEF Next, Step
<1>2. IInv /\ [Next]_vars => [(\E c \in Closer : closer[c] = "nil") => Still]_vars
  BY <1>1
<1>. QED  BY <1>2, SpecIInv, PTL DEF Spec, ShutdownIsFinal
==============================================================================
