------------------------- MODULE LokiDeliveryProofs -------------------------
(***************************************************************************)
(* Proofs, again for every number of entries, goroutines and callers and   *)
(* every capacity, of what LokiSender does with the entries: none is lost, *)
(* doubled or overtaken, none is posted more often than there are retries  *)
(* or after it has been settled, and the sender implements LogExporter     *)
(* until a second Shutdown panics.                                         *)
(***************************************************************************)
EXTENDS LokiSenderProofs

(* With b for the batch and c for the channel: entries are in the order they
   were logged. *)
InOrder(b, c) ==
    /\ Increasing(b) /\ Increasing(c)
    /\ \A e \in Range(b), f \in Range(c) : e < f

(* Entries no push goroutine has had: undecided, not yet with Loki, and younger
   than what push goroutines have. *)
Fresh(S) ==
    \A f \in S :
        /\ fate[f] = "pending" /\ stored[f] = 0
        /\ \A p \in Pushing : \A e \in Range(load[p]) : e < f

Waiting == InOrder(batch, ch) /\ Fresh(Range(batch) \cup Range(ch))

(* A push goroutine has a batch of its own, in order, that it may have posted
   once per failed attempt; only the final flush makes a large one. *)
Loaded ==
    /\ \A p \in Pushing :
          /\ load[p] # <<>>
          /\ Increasing(load[p])
          /\ Len(load[p]) > MaxBatch => quit
          /\ \A e \in Range(load[p]) : fate[e] = "pending" /\ stored[e] <= attempt[p]
    /\ \A p, q \in Pushing : p # q => Range(load[p]) \cap Range(load[q]) = {}

(* The entries not yet logged are the ones above logged. *)
NewAbove == \A e \in Entry : fate[e] = "new" <=> e > logged

Overflowed == {e \in Entry : fate[e] = "overflow"}

SmallBatch == runPc = "select" => Len(batch) < MaxBatch

DInv ==
    /\ Waiting
    /\ Loaded
    /\ SmallBatch
    /\ NewAbove
    /\ dropped = Cardinality(Overflowed)
    /\ DeliveryCount

(* What SettledStays says of one step. *)
Stays ==
    \A e \in Entry : fate[e] \notin {"new", "pending"} =>
        fate'[e] = fate[e] /\ stored'[e] = stored[e]

-----------------------------------------------------------------------------
(* Sequences of entries. *)

(* An entry that is younger than all of a sequence can be appended to it. *)
LEMMA AppendInOrder ==
    ASSUME NEW s \in Seq(Entry), NEW x \in Entry, Increasing(s), \A e \in Range(s) : e < x
    PROVE  Increasing(Append(s, x))
<1>1. /\ Len(Append(s, x)) = Len(s) + 1
      /\ \A i \in 1..Len(s) : Append(s, x)[i] = s[i]
      /\ Append(s, x)[Len(s) + 1] = x
      /\ Append(s, x) \in Seq(Entry)
  BY AppendProperties
<1>2. DOMAIN Append(s, x) = 1..Len(s) + 1 /\ DOMAIN s = 1..Len(s) /\ Len(s) \in Nat
  BY <1>1
<1>3. ASSUME NEW i \in 1..Len(s) + 1, NEW j \in 1..Len(s) + 1, i < j
      PROVE  Append(s, x)[i] < Append(s, x)[j]
  <2>1. i \in 1..Len(s)
    BY <1>2, <1>3
  <2>2. CASE j \in 1..Len(s)
    BY <1>1, <1>2, <1>3, <2>1, <2>2 DEF Increasing
  <2>3. CASE j = Len(s) + 1
    BY <1>1, <1>2, <2>1, <2>3 DEF Range
  <2>. QED  BY <1>2, <2>2, <2>3
<1>. QED  BY <1>2, <1>3 DEF Increasing

(* The head of a sequence in order is its oldest entry. *)
LEMMA TailInOrder ==
    ASSUME NEW s \in Seq(Entry), s # <<>>, Increasing(s)
    PROVE  Increasing(Tail(s)) /\ \A e \in Range(Tail(s)) : Head(s) < e
<1>1. /\ Tail(s) \in Seq(Entry) /\ Len(Tail(s)) = Len(s) - 1 /\ Len(s) \in Nat \ {0}
      /\ \A i \in 1..Len(s) - 1 : Tail(s)[i] = s[i + 1]
      /\ Head(s) = s[1]
  BY HeadTailProperties, EmptySeq
<1>2. DOMAIN Tail(s) = 1..Len(s) - 1 /\ DOMAIN s = 1..Len(s)
  BY <1>1
<1>3. ASSUME NEW i \in 1..Len(s) - 1, NEW j \in 1..Len(s) - 1, i < j
      PROVE  Tail(s)[i] < Tail(s)[j]
  <2>1. i + 1 \in DOMAIN s /\ j + 1 \in DOMAIN s /\ i + 1 < j + 1
    BY <1>1, <1>2, <1>3
  <2>. QED  BY <1>1, <2>1 DEF Increasing
<1>4. ASSUME NEW i \in 1..Len(s) - 1 PROVE Head(s) < Tail(s)[i]
  <2>1. 1 \in DOMAIN s /\ i + 1 \in DOMAIN s /\ 1 < i + 1
    BY <1>1, <1>2
  <2>. QED  BY <1>1, <2>1 DEF Increasing
<1>. QED  BY <1>2, <1>3, <1>4 DEF Increasing, Range

(* Moving the head of the channel to the end of the batch keeps the order. *)
LEMMA TakeInOrder ==
    ASSUME NEW b \in Seq(Entry), NEW c \in Seq(Entry), c # <<>>, InOrder(b, c)
    PROVE  /\ InOrder(Append(b, Head(c)), Tail(c))
           /\ Range(Append(b, Head(c))) \cup Range(Tail(c)) = Range(b) \cup Range(c)
           /\ Append(b, Head(c)) \in Seq(Entry)
           /\ Tail(c) \in Seq(Entry)
           /\ Len(Append(b, Head(c))) = Len(b) + 1
<1>1. /\ Head(c) \in Entry /\ Tail(c) \in Seq(Entry)
      /\ Range(c) = {Head(c)} \cup Range(Tail(c))
  BY RangeOfTail
<1>2. /\ Append(b, Head(c)) \in Seq(Entry)
      /\ Len(Append(b, Head(c))) = Len(b) + 1
      /\ Range(Append(b, Head(c))) = Range(b) \cup {Head(c)}
  BY <1>1, RangeOfAppend
<1>3. Increasing(Append(b, Head(c)))
  BY <1>1, AppendInOrder DEF InOrder
<1>4. Increasing(Tail(c)) /\ \A e \in Range(Tail(c)) : Head(c) < e
  BY TailInOrder DEF InOrder
<1>. QED  BY <1>1, <1>2, <1>3, <1>4 DEF InOrder

(* Two sequences in order, the first older than the second, are in order
   together. *)
LEMMA ConcatInOrder ==
    ASSUME NEW b \in Seq(Entry), NEW c \in Seq(Entry), InOrder(b, c)
    PROVE  Increasing(b \o c) /\ Range(b \o c) = Range(b) \cup Range(c)
<1>1. /\ b \o c \in Seq(Entry)
      /\ Len(b \o c) = Len(b) + Len(c)
      /\ \A i \in 1..Len(b) + Len(c) :
            (b \o c)[i] = IF i <= Len(b) THEN b[i] ELSE c[i - Len(b)]
      /\ Len(b) \in Nat /\ Len(c) \in Nat
  BY ConcatProperties
<1>2. /\ DOMAIN (b \o c) = 1..Len(b) + Len(c)
      /\ DOMAIN b = 1..Len(b) /\ DOMAIN c = 1..Len(c)
  BY <1>1
<1>3. \A i \in 1..Len(b) : i \in 1..Len(b) + Len(c) /\ (b \o c)[i] = b[i]
  BY <1>1
<1>4. \A i \in 1..Len(c) : i + Len(b) \in 1..Len(b) + Len(c) /\ (b \o c)[i + Len(b)] = c[i]
  BY <1>1
<1>5. \A i \in 1..Len(b) + Len(c) :
         \/ i \in 1..Len(b) /\ (b \o c)[i] = b[i]
         \/ i > Len(b) /\ i - Len(b) \in 1..Len(c) /\ (b \o c)[i] = c[i - Len(b)]
  BY <1>1
<1>6. Range(b \o c) = Range(b) \cup Range(c)
  <2>1. \A x \in Range(b \o c) : x \in Range(b) \cup Range(c)
    BY <1>2, <1>5 DEF Range
  <2>2. \A x \in Range(b) \cup Range(c) : x \in Range(b \o c)
    BY <1>2, <1>3, <1>4 DEF Range
  <2>. QED  BY <2>1, <2>2
<1>7. ASSUME NEW i \in 1..Len(b) + Len(c), NEW j \in 1..Len(b) + Len(c), i < j
      PROVE  (b \o c)[i] < (b \o c)[j]
  <2>1. CASE j \in 1..Len(b)
    <3>1. i \in 1..Len(b) /\ (b \o c)[i] = b[i] /\ (b \o c)[j] = b[j]
      BY <1>1, <1>3, <1>7, <2>1
    <3>. QED  BY <1>2, <1>7, <2>1, <3>1 DEF InOrder, Increasing
  <2>2. CASE i \in 1..Len(b) /\ j \notin 1..Len(b)
    <3>1. (b \o c)[i] \in Range(b) /\ (b \o c)[j] \in Range(c)
      BY <1>2, <1>3, <1>5, <2>2 DEF Range
    <3>. QED  BY <3>1 DEF InOrder
  <2>3. CASE i \notin 1..Len(b)
    <3>1. /\ i - Len(b) \in DOMAIN c /\ (b \o c)[i] = c[i - Len(b)]
          /\ j - Len(b) \in DOMAIN c /\ (b \o c)[j] = c[j - Len(b)]
          /\ i - Len(b) < j - Len(b)
      BY <1>1, <1>2, <1>5, <1>7, <2>3
    <3>. QED  BY <3>1 DEF InOrder, Increasing
  <2>. QED  BY <2>1, <2>2, <2>3
<1>. QED  BY <1>2, <1>6, <1>7 DEF Increasing

(* What a sequence of entries holds are entries, and something unless empty. *)
LEMMA RangeOfEntries ==
    ASSUME NEW s \in Seq(Entry)
    PROVE  Range(s) \subseteq Entry /\ (s # <<>> => Range(s) # {})
<1>1. DOMAIN s = 1..Len(s) /\ \A i \in 1..Len(s) : s[i] \in Entry
  OBVIOUS
<1>2. s # <<>> => Len(s) \in Nat \ {0}
  BY EmptySeq
<1>3. s # <<>> => 1 \in DOMAIN s
  BY <1>1, <1>2
<1>. QED  BY <1>1, <1>3 DEF Range

(* The entries that overflowed can be counted. *)
LEMMA FiniteOverflowed == IsFiniteSet(Overflowed)
<1>1. IsFiniteSet(Entry)
  BY FS_Interval, MaxEntriesAssumption DEF Entry
<1>. QED  BY <1>1, FS_Subset DEF Overflowed

-----------------------------------------------------------------------------
(* What every kind of step does to the invariant. *)

(* The sender starts with the invariant: no entry has been logged. *)
THEOREM InitDInv == Init => DInv
<1>. SUFFICES ASSUME Init PROVE DInv
  OBVIOUS
<1>1. Pushing = {} /\ Overflowed = {}
  BY DEF Init, Pushing, Overflowed
<1>2. Range(<<>>) = {} /\ Len(<<>>) = 0 /\ Increasing(<<>>)
  BY EmptySeq DEF Range, Increasing
<1>3. Waiting /\ Loaded
  BY <1>1, <1>2 DEF Init, Waiting, InOrder, Fresh, Loaded
<1>4. SmallBatch
  BY <1>2, BatchAssumption DEF Init, SmallBatch
<1>5. NewAbove /\ DeliveryCount
  BY MaxEntriesAssumption, RetryAssumption DEF Init, NewAbove, DeliveryCount, Entry
<1>6. dropped = Cardinality(Overflowed)
  BY <1>1, FS_EmptySet DEF Init
<1>. QED  BY <1>3, <1>4, <1>5, <1>6 DEF DInv

(* A step that moves no entry, starts no push goroutine and counts no attempt. *)
LEMMA QuietStep ==
    ASSUME IInv, DInv,
           UNCHANGED <<logged, ch, dropped, batch, fate, stored>>,
           quit => quit', runPc' = "select" => runPc = "select",
           \A p \in Pusher : pc'[p] = "push" =>
              pc[p] = "push" /\ load'[p] = load[p] /\ attempt'[p] = attempt[p]
    PROVE  DInv' /\ Stays
<1>1. \A p \in Pushing' : p \in Pushing /\ load'[p] = load[p] /\ attempt'[p] = attempt[p]
  BY DEF Pushing
<1>2. Waiting'
  BY <1>1 DEF DInv, Waiting, InOrder, Fresh
<1>3. Loaded'
  BY <1>1 DEF DInv, Loaded
<1>4. SmallBatch' /\ NewAbove' /\ dropped' = Cardinality(Overflowed') /\ DeliveryCount'
  BY DEF DInv, SmallBatch, NewAbove, Overflowed, DeliveryCount
<1>. QED  BY <1>2, <1>3, <1>4 DEF DInv, Stays

(* Deciding undecided entries leaves the other ones as they were. *)
LEMMA SettleOnly ==
    ASSUME IInv, DInv, NEW S \in SUBSET Entry, NEW f \in {"shed", "failed", "shipped"},
           \A e \in S : fate[e] = "pending",
           fate' = Settle(S, f), UNCHANGED <<logged, dropped>>
    PROVE  /\ \A e \in Entry : fate'[e] = IF e \in S THEN f ELSE fate[e]
           /\ NewAbove'
           /\ dropped' = Cardinality(Overflowed')
<1>1. \A e \in Entry : fate'[e] = IF e \in S THEN f ELSE fate[e]
  BY DEF Settle
<1>2. NewAbove'
  BY <1>1 DEF DInv, NewAbove
<1>3. Overflowed' = Overflowed
  BY <1>1 DEF Overflowed
<1>. QED  BY <1>1, <1>2, <1>3 DEF DInv

(* pushAsync: the batch b becomes the load of a new push goroutine, or is shed;
   either way it is older than what stays in the channel c. *)
LEMMA HandOver ==
    ASSUME IInv, DInv, NEW b \in Seq(Entry), NEW c \in Seq(Entry),
           InOrder(b, c), Fresh(Range(b) \cup Range(c)),
           Len(b) > MaxBatch => quit,
           Flush(b), UNCHANGED <<logged, dropped, quit, stored>>
    PROVE  /\ batch' = <<>>
           /\ \A f \in Range(c) :
                 /\ fate'[f] = "pending" /\ stored'[f] = 0
                 /\ \A p \in Pushing' : \A e \in Range(load'[p]) : e < f
           /\ Loaded'
           /\ NewAbove' /\ dropped' = Cardinality(Overflowed') /\ DeliveryCount'
           /\ Stays
<1>1. batch' = <<>> /\ Range(b) \subseteq Entry /\ Range(c) \subseteq Entry
  BY RangeOfEntries DEF Flush
<1>2. CASE b = <<>>
  <2>1. UNCHANGED <<pc, load, attempt, fate>>
    BY <1>2 DEF Flush, pushVars
  <2>2. Pushing' = Pushing
    BY <2>1 DEF Pushing
  <2>. QED
    BY <1>1, <2>1, <2>2
    DEF DInv, Fresh, Loaded, NewAbove, Overflowed, DeliveryCount, Stays
<1>3. CASE b # <<>> /\ \E p \in Pusher : StartPush(p, b)
  <2>1. PICK p \in Pusher : StartPush(p, b)
    BY <1>3
  <2>2. /\ fate' = fate /\ attempt' = attempt
        /\ load' = [load EXCEPT ![p] = b] /\ pc' = [pc EXCEPT ![p] = "push"]
        /\ pc[p] = "idle"
    BY <2>1 DEF StartPush
  <2>3. /\ Pushing' = Pushing \cup {p} /\ p \notin Pushing
        /\ load'[p] = b /\ \A q \in Pushing : load'[q] = load[q]
    BY <2>2 DEF IInv, TypeOK, Pushing
  <2>4. \A f \in Range(c) :
           /\ fate'[f] = "pending" /\ stored'[f] = 0
           /\ \A q \in Pushing' : \A e \in Range(load'[q]) : e < f
    BY <2>2, <2>3 DEF InOrder, Fresh
  <2>5. \A e \in Range(b), q \in Pushing : e \notin Range(load[q])
    <3>1. ASSUME NEW e \in Range(b), NEW q \in Pushing, e \in Range(load[q]) PROVE FALSE
      <4>1. e < e
        BY <3>1 DEF Fresh
      <4>. QED  BY <1>1, <4>1, MaxEntriesAssumption DEF Entry
    <3>. QED  BY <3>1
  <2>6. Loaded'
    <3>1. ASSUME NEW q \in Pushing'
          PROVE  /\ load'[q] # <<>>
                 /\ Increasing(load'[q])
                 /\ Len(load'[q]) > MaxBatch => quit'
                 /\ \A e \in Range(load'[q]) :
                       fate'[e] = "pending" /\ stored'[e] <= attempt'[q]
      <4>1. CASE q = p
        <5>1. attempt[p] = 0
          BY <2>2 DEF IInv, AttemptsLeft
        <5>. QED  BY <1>3, <2>2, <2>3, <4>1, <5>1 DEF InOrder, Fresh
      <4>2. CASE q \in Pushing
        BY <2>2, <2>3, <4>2 DEF DInv, Loaded
      <4>. QED  BY <2>3, <4>1, <4>2
    <3>2. ASSUME NEW q \in Pushing', NEW r \in Pushing', q # r
          PROVE  Range(load'[q]) \cap Range(load'[r]) = {}
      <4>1. CASE q \in Pushing /\ r \in Pushing
        BY <2>3, <3>2, <4>1 DEF DInv, Loaded
      <4>2. CASE q = p \/ r = p
        BY <2>3, <2>5, <3>2, <4>2
      <4>. QED  BY <2>3, <4>1, <4>2
    <3>. QED  BY <3>1, <3>2 DEF Loaded
  <2>. QED
    BY <1>1, <2>2, <2>4, <2>6 DEF DInv, NewAbove, Overflowed, DeliveryCount, Stays
<1>4. CASE b # <<>> /\ DropBatch(b)
  <2>1. UNCHANGED <<pc, load, attempt>> /\ fate' = Settle(Range(b), "shed")
    BY <1>4 DEF DropBatch, pushVars
  <2>2. \A e \in Range(b) : fate[e] = "pending" /\ stored[e] = 0
    BY DEF Fresh
  <2>3. /\ \A e \in Entry : fate'[e] = IF e \in Range(b) THEN "shed" ELSE fate[e]
        /\ NewAbove'
        /\ dropped' = Cardinality(Overflowed')
    BY <1>1, <2>1, <2>2, SettleOnly
  <2>4. Pushing' = Pushing
    BY <2>1 DEF Pushing
  <2>5. \A f \in Range(b) : f \notin Range(c) /\ \A p \in Pushing : f \notin Range(load[p])
    <3>1. \A f \in Range(b) : ~(f < f)
      BY <1>1, MaxEntriesAssumption DEF Entry
    <3>. QED  BY <3>1 DEF InOrder, Fresh
  <2>6. \A f \in Range(c) :
           /\ fate'[f] = "pending" /\ stored'[f] = 0
           /\ \A q \in Pushing' : \A e \in Range(load'[q]) : e < f
    BY <1>1, <2>1, <2>3, <2>4, <2>5 DEF Fresh
  <2>7. Loaded'
    <3>1. \A p \in Pushing : Range(load[p]) \subseteq Entry
      BY RangeOfEntries DEF IInv, TypeOK, Pushing
    <3>2. \A p \in Pushing : \A e \in Range(load[p]) : fate'[e] = fate[e]
      BY <2>3, <2>5, <3>1
    <3>. QED  BY <2>1, <2>4, <3>2 DEF DInv, Loaded
  <2>8. DeliveryCount'
    BY <2>2, <2>3 DEF DInv, DeliveryCount
  <2>9. Stays
    BY <2>2, <2>3 DEF Stays
  <2>. QED  BY <1>1, <2>3, <2>6, <2>7, <2>8, <2>9
<1>. QED  BY <1>2, <1>3, <1>4 DEF Flush, PushAsync

-----------------------------------------------------------------------------
(* Each action preserves DInv and keeps what has been settled. *)

(* A call of Export uses the next number, which no entry has had. *)
LEMMA ExportDelivery == ASSUME IInv, DInv, Export PROVE DInv' /\ Stays
<1>. DEFINE n == logged + 1
<1>1. /\ logged < MaxEntries /\ logged' = n /\ n \in Entry
      /\ UNCHANGED <<runVars, pushVars, closerVars, stored>>
  BY MaxEntriesAssumption DEF Export, Reject, Enqueue, Overflow, IInv, TypeOK, Entry
<1>2. fate[n] = "new" /\ stored[n] = 0
  <2>1. n > logged
    BY MaxEntriesAssumption DEF IInv, TypeOK
  <2>. QED  BY <1>1, <2>1 DEF DInv, NewAbove, DeliveryCount
<1>3. PICK o \in {"pending"} \cup Refusals : fate' = [fate EXCEPT ![n] = o]
  BY <1>1 DEF Export, Reject, Enqueue, Overflow, Refusals
<1>4. \A e \in Entry : fate'[e] = IF e = n THEN o ELSE fate[e]
  BY <1>1, <1>3 DEF IInv, TypeOK
<1>5. \A e \in Entry : fate[e] = "pending" => e < n /\ fate'[e] = "pending"
  BY <1>1, <1>2, <1>4, MaxEntriesAssumption DEF IInv, TypeOK, Numbered, Entry
<1>6. Pushing' = Pushing /\ load' = load /\ attempt' = attempt /\ batch' = batch
  BY <1>1 DEF Pushing, pushVars, runVars
<1>7. \A p \in Pushing : Range(load[p]) \subseteq Entry
  BY RangeOfEntries DEF IInv, TypeOK, Pushing
<1>8. Range(batch) \subseteq Entry /\ Range(ch) \subseteq Entry
  BY RangeOfEntries DEF IInv, TypeOK
<1>9. \A p \in Pushing : \A e \in Range(load[p]) : e < n
  BY <1>5, <1>7 DEF DInv, Loaded
<1>10. \A e \in Range(batch) \cup Range(ch) : e < n
  BY <1>5, <1>8 DEF DInv, Waiting, Fresh
<1>11. Fresh(Range(batch) \cup Range(ch))'
  <2>1. CASE ch' = ch
    BY <1>1, <1>5, <1>6, <1>8, <2>1 DEF DInv, Waiting, Fresh
  <2>2. CASE ch' = Append(ch, n) /\ o = "pending"
    <3>1. Range(ch') = Range(ch) \cup {n}
      BY <1>1, <2>2, RangeOfAppend DEF IInv, TypeOK
    <3>2. fate'[n] = "pending" /\ stored'[n] = 0
      BY <1>1, <1>2, <1>4, <2>2
    <3>. QED  BY <1>1, <1>5, <1>6, <1>8, <1>9, <3>1, <3>2 DEF DInv, Waiting, Fresh
  <2>3. ch' = ch \/ (ch' = Append(ch, n) /\ o = "pending")
    <3>1. fate'[n] = o
      BY <1>1, <1>4
    <3>2. CASE Enqueue
      <4>1. fate'[n] = "pending" /\ ch' = Append(ch, n)
        BY <1>1, <3>2 DEF Enqueue, IInv, TypeOK
      <4>. QED  BY <3>1, <4>1
    <3>. QED  BY <3>2 DEF Export, Reject, Overflow
  <2>. QED  BY <2>1, <2>2, <2>3
<1>12. InOrder(batch, ch)'
  <2>1. CASE ch' = ch
    BY <1>6, <2>1 DEF DInv, Waiting, InOrder
  <2>2. CASE ch' = Append(ch, n)
    <3>1. Range(ch') = Range(ch) \cup {n}
      BY <1>1, <2>2, RangeOfAppend DEF IInv, TypeOK
    <3>2. Increasing(ch')
      BY <1>1, <1>10, <2>2, AppendInOrder DEF DInv, Waiting, InOrder, IInv, TypeOK
    <3>. QED  BY <1>6, <1>10, <3>1, <3>2 DEF DInv, Waiting, InOrder
  <2>. QED  BY <1>1, <2>1, <2>2 DEF Export, Reject, Enqueue, Overflow
<1>13. Loaded'
  <2>1. quit' = quit
    BY <1>1 DEF closerVars
  <2>. QED  BY <1>1, <1>5, <1>6, <1>7, <2>1 DEF DInv, Loaded
<1>14. NewAbove'
  <2>1. \A e \in Entry : e > n <=> e > logged /\ e # n
    BY MaxEntriesAssumption DEF IInv, TypeOK, Entry
  <2>2. o # "new"
    BY DEF Refusals
  <2>. QED  BY <1>1, <1>2, <1>4, <2>1, <2>2 DEF DInv, NewAbove
<1>15. dropped' = Cardinality(Overflowed')
  <2>1. CASE o = "overflow" /\ dropped' = dropped + 1
    <3>1. Overflowed' = Overflowed \cup {n} /\ n \notin Overflowed
      BY <1>1, <1>2, <1>4, <2>1 DEF Overflowed
    <3>. QED  BY <2>1, <3>1, FiniteOverflowed, FS_AddElement DEF DInv
  <2>2. CASE o # "overflow" /\ dropped' = dropped
    <3>1. Overflowed' = Overflowed
      BY <1>1, <1>2, <1>4, <2>2 DEF Overflowed
    <3>. QED  BY <2>2, <3>1 DEF DInv
  <2>3. \/ o = "overflow" /\ dropped' = dropped + 1
        \/ o # "overflow" /\ dropped' = dropped
    <3>1. fate'[n] = o
      BY <1>1, <1>4
    <3>. QED  BY <1>1, <3>1 DEF Export, Reject, Enqueue, Overflow, IInv, TypeOK
  <2>. QED  BY <2>1, <2>2, <2>3
<1>16. DeliveryCount'
  BY <1>1, <1>2, <1>4 DEF DInv, DeliveryCount, Refusals
<1>17. SmallBatch'
  BY <1>1 DEF DInv, SmallBatch, runVars
<1>18. Stays
  BY <1>1, <1>2, <1>4 DEF Stays
<1>. QED  BY <1>11, <1>12, <1>13, <1>14, <1>15, <1>16, <1>17, <1>18 DEF DInv, Waiting

(* run takes the head of ch and hands a full batch over. *)
LEMMA RecvDelivery == ASSUME IInv, DInv, Recv PROVE DInv' /\ Stays
<1>. DEFINE b == Append(batch, Head(ch))
<1>1. batch \in Seq(Entry) /\ ch \in Seq(Entry) /\ ch # <<>> /\ ch' = Tail(ch)
  BY DEF Recv, IInv, TypeOK
<1>2. /\ InOrder(b, Tail(ch))
      /\ Range(b) \cup Range(Tail(ch)) = Range(batch) \cup Range(ch)
      /\ b \in Seq(Entry) /\ Tail(ch) \in Seq(Entry)
      /\ Len(b) = Len(batch) + 1
  BY <1>1, TakeInOrder DEF DInv, Waiting
<1>3. Fresh(Range(b) \cup Range(Tail(ch)))
  BY <1>2 DEF DInv, Waiting
<1>4. Len(b) <= MaxBatch
  BY <1>1, <1>2, BatchAssumption DEF Recv, DInv, SmallBatch
<1>5. UNCHANGED <<logged, dropped, runPc, quit, stored>>
  BY DEF Recv, closerVars
<1>6. CASE Flush(b)
  <2>1. /\ batch' = <<>>
        /\ \A f \in Range(Tail(ch)) :
              /\ fate'[f] = "pending" /\ stored'[f] = 0
              /\ \A p \in Pushing' : \A e \in Range(load'[p]) : e < f
        /\ Loaded'
        /\ NewAbove' /\ dropped' = Cardinality(Overflowed') /\ DeliveryCount'
        /\ Stays
    <3>1. ~(Len(b) > MaxBatch)
      BY <1>2, <1>4, BatchAssumption
    <3>. QED  BY <1>2, <1>3, <1>5, <1>6, <3>1, HandOver
  <2>2. Range(batch') = {} /\ Increasing(batch') /\ Len(batch') = 0
    BY <2>1 DEF Range, Increasing
  <2>3. Waiting'
    BY <1>1, <1>2, <2>1, <2>2 DEF Waiting, InOrder, Fresh
  <2>4. SmallBatch'
    BY <2>2, BatchAssumption DEF SmallBatch
  <2>. QED  BY <2>1, <2>3, <2>4 DEF DInv
<1>7. CASE Keep(b) /\ ~(Len(b) >= MaxBatch)
  <2>1. batch' = b /\ UNCHANGED <<pc, load, attempt, fate>> /\ Pushing' = Pushing
    BY <1>7 DEF Keep, pushVars, Pushing
  <2>2. Waiting'
    BY <1>1, <1>2, <1>3, <1>5, <2>1 DEF Waiting, InOrder, Fresh
  <2>3. SmallBatch'
    BY <1>2, <1>7, <2>1, BatchAssumption DEF SmallBatch
  <2>4. Loaded' /\ NewAbove' /\ dropped' = Cardinality(Overflowed') /\ DeliveryCount'
    BY <1>5, <2>1 DEF DInv, Loaded, NewAbove, Overflowed, DeliveryCount
  <2>5. Stays
    BY <1>5, <2>1 DEF Stays
  <2>. QED  BY <2>2, <2>3, <2>4, <2>5 DEF DInv
<1>. QED  BY <1>6, <1>7 DEF Recv, Receive

(* The drain loop takes the head of ch; quit is closed, so the batch may grow. *)
LEMMA DrainRecvDelivery == ASSUME IInv, DInv, DrainRecv PROVE DInv' /\ Stays
<1>. DEFINE b == Append(batch, Head(ch))
<1>1. batch \in Seq(Entry) /\ ch \in Seq(Entry) /\ ch # <<>> /\ ch' = Tail(ch)
  BY DEF DrainRecv, IInv, TypeOK
<1>2. /\ InOrder(b, Tail(ch))
      /\ Range(b) \cup Range(Tail(ch)) = Range(batch) \cup Range(ch)
  BY <1>1, TakeInOrder DEF DInv, Waiting
<1>3. Fresh(Range(b) \cup Range(Tail(ch)))
  BY <1>2 DEF DInv, Waiting
<1>4. /\ batch' = b /\ UNCHANGED <<pc, load, attempt, fate>>
      /\ UNCHANGED <<logged, dropped, quit, stored>> /\ runPc' = "drain"
  BY DEF DrainRecv, Keep, pushVars, closerVars
<1>5. Pushing' = Pushing
  BY <1>4 DEF Pushing
<1>6. Waiting'
  BY <1>1, <1>2, <1>3, <1>4, <1>5 DEF Waiting, InOrder, Fresh
<1>7. SmallBatch'
  BY <1>4 DEF SmallBatch
<1>8. Loaded' /\ NewAbove' /\ dropped' = Cardinality(Overflowed') /\ DeliveryCount'
  BY <1>4, <1>5 DEF DInv, Loaded, NewAbove, Overflowed, DeliveryCount
<1>9. Stays
  BY <1>4 DEF Stays
<1>. QED  BY <1>6, <1>7, <1>8, <1>9 DEF DInv

(* The ticker's flush and the final one hand over the batch run has. *)
LEMMA FlushDelivery ==
    ASSUME IInv, DInv, Tick \/ DrainDone
    PROVE  DInv' /\ Stays
<1>1. /\ Flush(batch)
      /\ UNCHANGED <<logged, ch, dropped, quit, stored>>
      /\ batch \in Seq(Entry) /\ ch \in Seq(Entry)
  BY DEF Tick, DrainDone, closerVars, IInv, TypeOK
<1>2. Len(batch) > MaxBatch => quit
  BY <1>1, BatchAssumption DEF Tick, DrainDone, DInv, SmallBatch, IInv, QuitFirst
<1>3. /\ batch' = <<>>
      /\ \A f \in Range(ch) :
            /\ fate'[f] = "pending" /\ stored'[f] = 0
            /\ \A p \in Pushing' : \A e \in Range(load'[p]) : e < f
      /\ Loaded'
      /\ NewAbove' /\ dropped' = Cardinality(Overflowed') /\ DeliveryCount'
      /\ Stays
  BY <1>1, <1>2, HandOver DEF DInv, Waiting
<1>4. Range(batch') = {} /\ Increasing(batch') /\ Len(batch') = 0
  BY <1>3 DEF Range, Increasing
<1>5. Waiting'
  BY <1>1, <1>3, <1>4 DEF DInv, Waiting, InOrder, Fresh
<1>6. SmallBatch'
  BY <1>4, BatchAssumption DEF SmallBatch
<1>. QED  BY <1>3, <1>5, <1>6 DEF DInv

(* What the decision of push goroutine p on its own load leaves alone. *)
LEMMA OwnLoad ==
    ASSUME IInv, DInv, NEW p \in Pushing
    PROVE  /\ Range(load[p]) \subseteq Entry /\ Range(load[p]) # {}
           /\ \A e \in Range(load[p]) :
                 fate[e] = "pending" /\ stored[e] <= attempt[p] /\ stored[e] < MaxRetries
           /\ \A e \in Range(load[p]) :
                 /\ e \notin Range(batch) \cup Range(ch)
                 /\ \A q \in Pushing : q # p => e \notin Range(load[q])
<1>1. load[p] \in Seq(Entry) /\ load[p] # <<>> /\ attempt[p] \in 0..MaxRetries
  BY DEF IInv, TypeOK, Pushing, DInv, Loaded
<1>2. Range(load[p]) \subseteq Entry /\ Range(load[p]) # {}
  BY <1>1, RangeOfEntries
<1>3. attempt[p] < MaxRetries
  BY DEF IInv, AttemptsLeft, Pushing
<1>4. \A e \in Range(load[p]) : stored[e] \in Nat
  BY <1>2 DEF IInv, TypeOK
<1>5. \A e \in Range(load[p]) : fate[e] = "pending" /\ stored[e] <= attempt[p]
  BY DEF DInv, Loaded
<1>6. \A e \in Range(load[p]) : stored[e] < MaxRetries
  BY <1>1, <1>3, <1>4, <1>5, RetryAssumption
<1>7. \A e \in Range(load[p]) : ~(e < e)
  BY <1>2, MaxEntriesAssumption DEF Entry
<1>8. \A e \in Range(load[p]) : e \notin Range(batch) \cup Range(ch)
  BY <1>7 DEF DInv, Waiting, Fresh
<1>9. \A e \in Range(load[p]) : \A q \in Pushing : q # p => e \notin Range(load[q])
  BY DEF DInv, Loaded
<1>. QED  BY <1>2, <1>5, <1>6, <1>8, <1>9

(* Push goroutine p makes up its mind, having posted its load or not. *)
LEMMA DecideDelivery ==
    ASSUME IInv, DInv, NEW p \in Pusher, pc[p] = "push",
           NEW f \in {"failed", "shipped"}, fate' = Settle(Range(load[p]), f),
           pc' = [pc EXCEPT ![p] = "release"],
           stored' = Store(Range(load[p])) \/ (f = "failed" /\ stored' = stored),
           \A q \in Pusher : q # p => attempt'[q] = attempt[q],
           UNCHANGED <<logged, ch, dropped, batch, runPc, quit, load>>
    PROVE  DInv' /\ Stays
<1>. DEFINE S == Range(load[p])
<1>1. p \in Pushing
  BY DEF Pushing
<1>2. /\ S \subseteq Entry
      /\ \A e \in S : fate[e] = "pending" /\ stored[e] < MaxRetries
      /\ \A e \in S : e \notin Range(batch) \cup Range(ch)
      /\ \A e \in S : \A q \in Pushing : q # p => e \notin Range(load[q])
  BY <1>1, OwnLoad
<1>3. /\ \A e \in Entry : fate'[e] = IF e \in S THEN f ELSE fate[e]
      /\ NewAbove'
      /\ dropped' = Cardinality(Overflowed')
  BY <1>2, SettleOnly
<1>4. \A e \in Entry : e \notin S => stored'[e] = stored[e]
  BY DEF Store
<1>5. Pushing' = Pushing \ {p}
  BY DEF Pushing, IInv, TypeOK
<1>6. Range(batch) \cup Range(ch) \subseteq Entry
  BY RangeOfEntries DEF IInv, TypeOK
<1>7. Waiting'
  BY <1>2, <1>3, <1>4, <1>5, <1>6 DEF DInv, Waiting, InOrder, Fresh
<1>8. Loaded'
  <2>1. \A q \in Pushing' : /\ q \in Pushing /\ q # p /\ q \in Pusher
                            /\ load'[q] = load[q] /\ attempt'[q] = attempt[q]
    BY <1>5 DEF Pushing
  <2>2. \A q \in Pushing' : \A e \in Range(load[q]) : e \in Entry /\ e \notin S
    BY <1>2, <2>1, RangeOfEntries DEF IInv, TypeOK
  <2>3. \A q \in Pushing' : \A e \in Range(load[q]) :
           fate'[e] = fate[e] /\ stored'[e] = stored[e]
    BY <1>3, <1>4, <2>2
  <2>. QED  BY <2>1, <2>3 DEF DInv, Loaded
<1>9. DeliveryCount'
  <2>1. ASSUME NEW e \in Entry
        PROVE  /\ stored'[e] <= MaxRetries
               /\ fate'[e] = "shipped" => stored'[e] > 0
               /\ fate'[e] \in Refusals \cup {"new", "shed"} => stored'[e] = 0
    <3>1. CASE e \in S
      <4>1. stored[e] \in Nat /\ stored[e] < MaxRetries /\ fate'[e] = f
        BY <1>2, <1>3, <3>1 DEF IInv, TypeOK
      <4>2. stored'[e] = stored[e] + 1 \/ (f = "failed" /\ stored'[e] = stored[e])
        BY <3>1 DEF Store
      <4>3. stored'[e] <= MaxRetries /\ (f = "shipped" => stored'[e] > 0)
        BY <4>1, <4>2, RetryAssumption
      <4>. QED  BY <4>1, <4>3 DEF Refusals
    <3>2. CASE e \notin S
      BY <1>3, <1>4, <3>2 DEF DInv, DeliveryCount
    <3>. QED  BY <3>1, <3>2
  <2>. QED  BY <2>1 DEF DeliveryCount
<1>10. Stays
  BY <1>2, <1>3, <1>4 DEF Stays
<1>11. SmallBatch'
  BY DEF DInv, SmallBatch
<1>. QED  BY <1>3, <1>7, <1>8, <1>9, <1>10, <1>11 DEF DInv

(* Push goroutine p fails and tries again; Loki may have the load all the same. *)
LEMMA RetryDelivery ==
    ASSUME IInv, DInv, NEW p \in Pusher, pc[p] = "push",
           stored' = Store(Range(load[p])) \/ stored' = stored,
           attempt' = [attempt EXCEPT ![p] = attempt[p] + 1],
           UNCHANGED <<logged, ch, dropped, batch, runPc, quit, load, pc, fate>>
    PROVE  DInv' /\ Stays
<1>. DEFINE S == Range(load[p])
<1>1. p \in Pushing /\ Pushing' = Pushing
  BY DEF Pushing
<1>2. /\ S \subseteq Entry
      /\ \A e \in S :
            fate[e] = "pending" /\ stored[e] <= attempt[p] /\ stored[e] < MaxRetries
      /\ \A e \in S : e \notin Range(batch) \cup Range(ch)
      /\ \A e \in S : \A q \in Pushing : q # p => e \notin Range(load[q])
  BY <1>1, OwnLoad
<1>3. /\ \A e \in Entry : e \notin S => stored'[e] = stored[e]
      /\ \A e \in S : stored'[e] = stored[e] \/ stored'[e] = stored[e] + 1
  BY <1>2 DEF Store
<1>4. Range(batch) \cup Range(ch) \subseteq Entry
  BY RangeOfEntries DEF IInv, TypeOK
<1>5. Waiting'
  BY <1>1, <1>2, <1>3, <1>4 DEF DInv, Waiting, InOrder, Fresh
<1>6. Loaded'
  <2>1. ASSUME NEW q \in Pushing, NEW e \in Range(load[q]) PROVE stored'[e] <= attempt'[q]
    <3>1. e \in Entry /\ stored[e] \in Nat /\ stored[e] <= attempt[q] /\ attempt[q] \in Nat
      BY RangeOfEntries, RetryAssumption DEF IInv, TypeOK, Pushing, DInv, Loaded
    <3>2. CASE q = p
      <4>1. attempt'[q] = attempt[q] + 1
        BY <3>2 DEF IInv, TypeOK
      <4>2. stored'[e] = stored[e] \/ stored'[e] = stored[e] + 1
        BY <1>3, <2>1, <3>2
      <4>. QED  BY <3>1, <4>1, <4>2
    <3>3. CASE q # p
      <4>1. stored'[e] = stored[e]
        BY <1>2, <1>3, <3>1, <3>3
      <4>2. attempt'[q] = attempt[q]
        BY <3>3 DEF IInv, TypeOK, Pushing
      <4>. QED  BY <3>1, <4>1, <4>2
    <3>. QED  BY <3>2, <3>3
  <2>. QED  BY <1>1, <2>1 DEF DInv, Loaded
<1>7. DeliveryCount'
  <2>1. ASSUME NEW e \in S
        PROVE  stored'[e] <= MaxRetries
    <3>1. stored[e] \in Nat /\ stored[e] < MaxRetries
      BY <1>2 DEF IInv, TypeOK
    <3>2. stored'[e] = stored[e] \/ stored'[e] = stored[e] + 1
      BY <1>3
    <3>. QED  BY <3>1, <3>2, RetryAssumption
  <2>2. \A e \in S : fate'[e] = "pending"
    BY <1>2
  <2>. QED  BY <1>3, <2>1, <2>2 DEF DInv, DeliveryCount, Refusals
<1>8. SmallBatch' /\ NewAbove' /\ dropped' = Cardinality(Overflowed')
  BY DEF DInv, SmallBatch, NewAbove, Overflowed
<1>9. Stays
  BY <1>2, <1>3 DEF Stays
<1>. QED  BY <1>5, <1>6, <1>7, <1>8, <1>9 DEF DInv

(* A push goroutine's own steps. *)
LEMMA PusherDelivery ==
    ASSUME IInv, DInv, NEW p \in Pusher, PusherStep(p)
    PROVE  DInv' /\ Stays
<1>. USE DEF runVars, closerVars
<1>1. CASE PushOk(p)
  BY <1>1, DecideDelivery DEF PushOk
<1>2. ASSUME NEW reached \in BOOLEAN, PushFail(p, reached) PROVE DInv' /\ Stays
  <2>1. /\ pc[p] = "push"
        /\ stored' = Store(Range(load[p])) \/ stored' = stored
        /\ attempt' = [attempt EXCEPT ![p] = attempt[p] + 1]
        /\ UNCHANGED <<logged, ch, dropped, batch, runPc, quit, load>>
    BY <1>2 DEF PushFail
  <2>2. CASE attempt'[p] < MaxRetries
    BY <1>2, <2>1, <2>2, RetryDelivery DEF PushFail
  <2>3. CASE ~(attempt'[p] < MaxRetries)
    <3>1. /\ pc' = [pc EXCEPT ![p] = "release"]
          /\ fate' = Settle(Range(load[p]), "failed")
      BY <1>2, <2>3 DEF PushFail
    <3>2. \A q \in Pusher : q # p => attempt'[q] = attempt[q]
      BY <2>1 DEF IInv, TypeOK
    <3>. QED  BY <2>1, <3>1, <3>2, DecideDelivery
  <2>. QED  BY <2>2, <2>3
<1>3. CASE Unwind(p)
  <2>1. /\ UNCHANGED <<logged, ch, dropped, batch, runPc, quit, fate, stored>>
        /\ \A q \in Pusher : pc'[q] = "push" =>
              pc[q] = "push" /\ load'[q] = load[q] /\ attempt'[q] = attempt[q]
    BY <1>3 DEF Unwind, Release, PusherReturn, IInv, TypeOK
  <2>. QED  BY <2>1, QuietStep
<1>. QED  BY <1>1, <1>2, <1>3 DEF PusherStep

(* Callers of Shutdown move no entry. *)
LEMMA CloserDelivery ==
    ASSUME IInv, DInv, NEW c \in Closer, CloserStep(c)
    PROVE  DInv' /\ Stays
<1>1. /\ UNCHANGED <<logged, ch, dropped, batch, runPc, pc, load, attempt, fate, stored>>
      /\ quit => quit'
  BY DEF CloserStep, Shutdown, ShutdownNil, ShutdownCtx, runVars, pushVars
<1>. QED  BY <1>1, QuietStep

(* Every step of the sender preserves DInv and leaves settled entries alone. *)
THEOREM NextDInv == IInv /\ DInv /\ [Next]_vars => DInv' /\ Stays
<1>. SUFFICES ASSUME IInv, DInv, [Next]_vars PROVE DInv' /\ Stays
  OBVIOUS
<1>1. CASE Export
  BY <1>1, ExportDelivery
<1>2. CASE RunStep
  <2>1. CASE Quit \/ RunReturn
    <3>1. /\ UNCHANGED <<logged, ch, dropped, batch, quit, pc, load, attempt, fate, stored>>
          /\ runPc' # "select"
      BY <2>1 DEF Quit, RunReturn, pushVars, closerVars
    <3>. QED  BY <3>1, QuietStep
  <2>. QED  BY <1>2, <2>1, RecvDelivery, DrainRecvDelivery, FlushDelivery DEF RunStep
<1>3. ASSUME NEW p \in Pusher, PusherStep(p) PROVE DInv' /\ Stays
  BY <1>3, PusherDelivery
<1>4. ASSUME NEW c \in Closer, CloserStep(c) PROVE DInv' /\ Stays
  BY <1>4, CloserDelivery
<1>5. CASE UNCHANGED vars
  BY <1>5, QuietStep DEF vars, runVars, pushVars, closerVars
<1>. QED  BY <1>1, <1>2, <1>3, <1>4, <1>5 DEF Next, Step

(* The invariant holds throughout. *)
THEOREM SpecDInv == Spec => []DInv
<1>. QED  BY InitDInv, NextDInv, SpecIInv, PTL DEF Spec

-----------------------------------------------------------------------------
(* No entry is lost or forgotten: the undecided ones are exactly those in the
   channel, in run's batch or with a push goroutine that has not given up, and
   dropped counts the ones the channel had no room for (logger/loki.go:69-79). *)
THEOREM NothingLost == Spec => []Ledger
<1>1. IInv /\ DInv => Ledger
  <2>. SUFFICES ASSUME IInv, DInv PROVE Ledger
    OBVIOUS
  <2>. DEFINE Hand == Range(ch) \cup Range(batch) \cup UNION {Range(load[p]) : p \in Pushing}
  <2>1. Pending \subseteq Hand
    BY DEF IInv, PendingInHand, InHand, Pending, Pushing
  <2>2. ASSUME NEW e \in Hand PROVE e \in Entry /\ fate[e] = "pending"
    <3>1. CASE e \in Range(ch) \cup Range(batch)
      BY <3>1, RangeOfEntries DEF IInv, TypeOK, DInv, Waiting, Fresh
    <3>2. CASE \E p \in Pushing : e \in Range(load[p])
      BY <3>2, OwnLoad
    <3>. QED  BY <2>2, <3>1, <3>2
  <2>3. Pending = Hand
    BY <2>1, <2>2 DEF Pending
  <2>. QED  BY <2>3 DEF Ledger, DInv, Overflowed
<1>. QED  BY <1>1, SpecIInv, SpecDInv, PTL

(* Entries travel in the order they were logged and none is in two places
   (logger/loki.go:69-155). *)
THEOREM KeepsOrder == Spec => []Fifo
<1>1. IInv /\ DInv => Fifo
  <2>. SUFFICES ASSUME IInv, DInv PROVE Fifo
    OBVIOUS
  <2>1. Increasing(batch \o ch) /\ Range(batch \o ch) = Range(batch) \cup Range(ch)
    BY ConcatInOrder DEF IInv, TypeOK, DInv, Waiting
  <2>. QED  BY <2>1 DEF Fifo, DInv, Waiting, Fresh, Loaded
<1>. QED  BY <1>1, SpecIInv, SpecDInv, PTL

(* Only the final flush hands over a batch of more than MaxBatch entries
   (logger/loki.go:98-119). *)
THEOREM BatchesSmall == Spec => []BatchBounded
<1>1. DInv => BatchBounded
  BY DEF DInv, SmallBatch, Loaded, BatchBounded
<1>. QED  BY <1>1, SpecDInv, PTL

(* Loki has an entry at most once per attempt, at least once when it counts as
   shipped and never when it counts as dropped (logger/loki.go:157-195). *)
THEOREM CopiesBounded == Spec => []DeliveryCount
<1>1. DInv => DeliveryCount
  BY DEF DInv
<1>. QED  BY <1>1, SpecDInv, PTL

(* What becomes of an entry is decided once, and Loki receives no copy of it
   afterwards (logger/loki.go:157-195). *)
THEOREM DecidedOnce == Spec => SettledStays
<1>1. IInv /\ DInv /\ [Next]_vars => [Stays]_vars
  BY NextDInv
<1>. QED  BY <1>1, SpecIInv, SpecDInv, PTL DEF Spec, SettledStays, Stays

-----------------------------------------------------------------------------
(* The sender implements LogExporter. *)

(* An abstract step that changes nothing. *)
LEMMA Unseen ==
    ASSUME UNCHANGED <<fate, stored, closer, due>>
    PROVE  UNCHANGED Exporter!vars
  BY DEF Exporter!vars

(* The abstract state has the same undecided entries. *)
LEMMA SamePending == Exporter!Pending = Pending
  BY DEF Exporter!Pending, Pending

(* Export refuses or accepts the entry it numbers. *)
LEMMA ExportImplements == ASSUME IInv, DInv, Export PROVE Exporter!Next
<1>. DEFINE n == logged + 1
<1>1. n \in Entry /\ n > logged /\ logged' = n /\ UNCHANGED <<stored, closer, due>>
  BY MaxEntriesAssumption
  DEF Export, Reject, Enqueue, Overflow, closerVars, IInv, TypeOK, Entry
<1>2. fate[n] = "new"
  BY <1>1 DEF DInv, NewAbove
<1>3. CASE Enqueue
  <2>1. Exporter!Accept(n)
    BY <1>1, <1>2, <1>3 DEF Enqueue, Exporter!Accept
  <2>. QED  BY <1>1, <2>1 DEF Exporter!Next
<1>4. CASE Reject
  <2>1. Exporter!Refuse(n, "rejected")
    BY <1>1, <1>2, <1>4 DEF Reject, Exporter!Refuse
  <2>. QED  BY <1>1, <2>1 DEF Exporter!Next, Exporter!Refusals
<1>5. CASE Overflow
  <2>1. Exporter!Refuse(n, "overflow")
    BY <1>1, <1>2, <1>5 DEF Overflow, Exporter!Refuse
  <2>. QED  BY <1>1, <2>1 DEF Exporter!Next, Exporter!Refusals
<1>. QED  BY <1>3, <1>4, <1>5 DEF Export

(* A flush is invisible unless it sheds the batch b. *)
LEMMA FlushImplements ==
    ASSUME IInv, DInv, NEW b \in Seq(Entry), Fresh(Range(b)),
           Flush(b), UNCHANGED <<stored, closer, due>>
    PROVE  Exporter!Next \/ UNCHANGED Exporter!vars
<1>1. CASE fate' = fate
  BY <1>1, Unseen
<1>2. CASE b # <<>> /\ DropBatch(b)
  <2>1. /\ Range(b) \in (SUBSET Exporter!Pending) \ {{}}
        /\ \A e \in Range(b) : stored[e] = 0
    BY <1>2, RangeOfEntries, SamePending DEF Fresh, Pending
  <2>2. Exporter!Shed(Range(b))
    BY <1>2, <2>1 DEF DropBatch, Settle, Exporter!Shed, Exporter!Settle
  <2>. QED  BY <2>1, <2>2 DEF Exporter!Next
<1>. QED  BY <1>1, <1>2 DEF Flush, PushAsync, StartPush

(* run's steps are flushes or invisible. *)
LEMMA RunImplements ==
    ASSUME IInv, DInv, RunStep
    PROVE  Exporter!Next \/ UNCHANGED Exporter!vars
<1>. DEFINE b == Append(batch, Head(ch))
<1>1. UNCHANGED <<stored, closer, due>>
  BY DEF RunStep, Recv, Tick, Quit, DrainRecv, DrainDone, RunReturn, closerVars
<1>2. CASE fate' = fate
  BY <1>1, <1>2, Unseen
<1>3. CASE Flush(batch)
  BY <1>1, <1>3, FlushImplements DEF IInv, TypeOK, DInv, Waiting, Fresh
<1>4. CASE ch # <<>> /\ Flush(b)
  <2>1. b \in Seq(Entry) /\ Range(b) \subseteq Range(batch) \cup Range(ch)
    BY <1>4, TakeInOrder DEF IInv, TypeOK, DInv, Waiting
  <2>2. Fresh(Range(b))
    BY <2>1 DEF DInv, Waiting, Fresh
  <2>. QED  BY <1>1, <1>4, <2>1, <2>2, FlushImplements
<1>. QED
  BY <1>2, <1>3, <1>4
  DEF RunStep, Recv, Receive, Keep, Tick, Quit, DrainRecv, DrainDone, RunReturn

(* A push goroutine delivers its load, gives it up or is invisible. *)
LEMMA PusherImplements ==
    ASSUME IInv, DInv, NEW p \in Pusher, PusherStep(p)
    PROVE  Exporter!Next \/ UNCHANGED Exporter!vars
<1>. DEFINE S == Range(load[p])
<1>1. UNCHANGED <<closer, due>>
  BY DEF PusherStep, PushOk, PushFail, Unwind, Release, PusherReturn, closerVars
<1>2. pc[p] = "push" =>
         /\ S \in (SUBSET Exporter!Pending) \ {{}}
         /\ \A e \in S : fate[e] = "pending" /\ stored[e] < MaxRetries
  BY OwnLoad, SamePending DEF Pushing, Pending
<1>3. CASE PushOk(p)
  <2>1. Exporter!Deliver(S, "shipped")
    BY <1>1, <1>2, <1>3 DEF PushOk, Store, Settle, Exporter!Deliver, Exporter!Settle
  <2>. QED  BY <1>2, <1>3, <2>1 DEF PushOk, Exporter!Next
<1>4. ASSUME NEW reached \in BOOLEAN, PushFail(p, reached)
      PROVE  Exporter!Next \/ UNCHANGED Exporter!vars
  <2>1. /\ pc[p] = "push"
        /\ stored' = IF reached THEN Store(S) ELSE stored
        /\ fate' = fate \/ fate' = Settle(S, "failed")
    BY <1>4 DEF PushFail
  <2>2. CASE reached /\ fate' = fate
    <3>1. fate' = Settle(S, "pending")
      BY <1>2, <2>1, <2>2 DEF Settle, IInv, TypeOK
    <3>2. Exporter!Deliver(S, "pending")
      BY <1>1, <1>2, <2>1, <2>2, <3>1 DEF Store, Settle, Exporter!Deliver, Exporter!Settle
    <3>. QED  BY <1>2, <2>1, <3>2 DEF Exporter!Next
  <2>3. CASE reached /\ fate' = Settle(S, "failed")
    <3>1. Exporter!Deliver(S, "failed")
      BY <1>1, <1>2, <2>1, <2>3 DEF Store, Settle, Exporter!Deliver, Exporter!Settle
    <3>. QED  BY <1>2, <2>1, <3>1 DEF Exporter!Next
  <2>4. CASE ~reached /\ fate' = fate
    BY <1>1, <2>1, <2>4, Unseen
  <2>5. CASE ~reached /\ fate' = Settle(S, "failed")
    <3>1. Exporter!GiveUp(S)
      BY <1>1, <2>1, <2>5 DEF Settle, Exporter!GiveUp, Exporter!Settle
    <3>. QED  BY <1>2, <2>1, <3>1 DEF Exporter!Next
  <2>. QED  BY <2>1, <2>2, <2>3, <2>4, <2>5
<1>5. CASE Unwind(p)
  BY <1>1, <1>5, Unseen DEF Unwind, Release, PusherReturn
<1>. QED  BY <1>3, <1>4, <1>5 DEF PusherStep

(* The callers of Shutdown do what the contract lets them do, panics apart. *)
LEMMA CloserImplements ==
    ASSUME IInv, NEW c \in Closer, CloserStep(c), Alive'
    PROVE  Exporter!Next
<1>. USE DEF IInv, TypeOK
<1>1. CASE Shutdown(c)
  <2>1. closer'[c] # "panicked"
    BY DEF Alive
  <2>2. closer' = [closer EXCEPT ![c] = "waiting"]
    BY <1>1, <2>1 DEF Shutdown
  <2>3. Exporter!Shutdown(c)
    BY <1>1, <2>2, SamePending DEF Shutdown, Exporter!Shutdown
  <2>. QED  BY <2>3 DEF Exporter!Next
<1>2. CASE ShutdownNil(c)
  <2>1. runPc = "exited" /\ Live = {}
    BY <1>2, Finite, FS_CardinalityType, FS_EmptySet DEF ShutdownNil, WgCounts
  <2>2. due[c] \cap Exporter!Pending = {}
    BY <1>2, <2>1, QuiescentSettled, SamePending DEF ShutdownNil
  <2>3. Exporter!ShutdownNil(c)
    BY <1>2, <2>2 DEF ShutdownNil, Exporter!ShutdownNil
  <2>. QED  BY <2>3 DEF Exporter!Next
<1>3. CASE ShutdownCtx(c)
  <2>1. Exporter!ShutdownCtx(c)
    BY <1>3 DEF ShutdownCtx, Exporter!ShutdownCtx
  <2>. QED  BY <2>1 DEF Exporter!Next
<1>. QED  BY <1>1, <1>2, <1>3 DEF CloserStep

(* Every step of the sender is one of the exporter's or invisible to it. *)
THEOREM StepImplements ==
    IInv /\ DInv /\ [Next]_vars /\ Alive' => [Exporter!Next]_(Exporter!vars)
<1>. SUFFICES ASSUME IInv, DInv, [Next]_vars, Alive'
              PROVE  Exporter!Next \/ UNCHANGED Exporter!vars
  OBVIOUS
<1>1. CASE UNCHANGED vars
  BY <1>1, Unseen DEF vars, closerVars
<1>. QED
  BY <1>1, ExportImplements, RunImplements, PusherImplements, CloserImplements
  DEF Next, Step

(* Until a second Shutdown panics the sender keeps the contract of LogExporter
   (logger/exporter.go, logger/loki.go:69-195). *)
THEOREM ImplementsUntilPanic == Spec /\ []Alive => ImplementsExporter
<1>1. Init => Exporter!Init
  BY DEF Init, Exporter!Init
<1>. QED
  BY <1>1, StepImplements, SpecIInv, SpecDInv, PTL
  DEF Spec, ImplementsExporter, Exporter!Spec

(* quit is closed by a caller of Shutdown. *)
QuitCalled == quit => \E c \in Closer : closer[c] # "idle"

(* With a single caller of Shutdown nothing panics, so the sender keeps the
   contract of LogExporter (logger/loki.go:122-133). *)
THEOREM ImplementsOnce ==
    ASSUME \A c, d \in Closer : c = d
    PROVE  Spec => ImplementsExporter
<1>1. Init => Alive /\ QuitCalled
  BY DEF Init, Alive, QuitCalled
<1>2. IInv /\ Alive /\ QuitCalled /\ [Next]_vars => Alive' /\ QuitCalled'
  <2>. SUFFICES ASSUME IInv, Alive, QuitCalled, [Next]_vars PROVE Alive' /\ QuitCalled'
    OBVIOUS
  <2>1. CASE UNCHANGED <<quit, closer>>
    BY <2>1 DEF Alive, QuitCalled
  <2>2. ASSUME NEW c \in Closer, CloserStep(c) PROVE Alive' /\ QuitCalled'
    <3>1. CASE Shutdown(c)
      <4>1. ~quit
        BY <3>1 DEF Shutdown, QuitCalled
      <4>2. closer' = [closer EXCEPT ![c] = "waiting"]
        BY <3>1, <4>1 DEF Shutdown
      <4>. QED  BY <4>2 DEF IInv, TypeOK, Alive, QuitCalled
    <3>2. CASE ShutdownNil(c) \/ ShutdownCtx(c)
      BY <3>2 DEF ShutdownNil, ShutdownCtx, IInv, TypeOK, Alive, QuitCalled
    <3>. QED  BY <2>2, <3>1, <3>2 DEF CloserStep
  <2>3. CASE Export \/ RunStep \/ \E p \in Pusher : PusherStep(p)
    <3>1. UNCHANGED <<quit, closer>>
      BY <2>3
      DEF Export, Reject, Enqueue, Overflow, RunStep, Recv, Tick, Quit, DrainRecv, DrainDone,
          RunReturn, PusherStep, PushOk, PushFail, Unwind, Release, PusherReturn, closerVars
    <3>. QED  BY <2>1, <3>1
  <2>. QED  BY <2>1, <2>2, <2>3 DEF Next, Step, vars, closerVars
<1>. QED  BY <1>1, <1>2, SpecIInv, ImplementsUntilPanic, PTL DEF Spec
==============================================================================
