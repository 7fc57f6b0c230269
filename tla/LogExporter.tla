---------------------------- MODULE LogExporter ----------------------------
(***************************************************************************)
(* What an implementation of the LogExporter interface                     *)
(* (logger/exporter.go) promises the logging pipeline, whatever buffering, *)
(* batching and retrying it does inside: an entry is taken or refused at   *)
(* once, a taken entry is settled at most once, the backend receives a     *)
(* bounded number of copies of it and none after it has been settled, and  *)
(* a Shutdown that returns nil leaves no entry of its caller undecided.    *)
(*                                                                         *)
(* The contract is weaker than the comments of the interface: an entry may *)
(* also settle as "shed" or "failed", see ShutdownFlushes in LokiSender.   *)
(***************************************************************************)
EXTENDS Naturals, FiniteSets

CONSTANTS
    Entry,      \* the calls of Export
    Closer,     \* the callers of Shutdown
    MaxCopies   \* how many times the backend may be handed one entry, at least 1

VARIABLES
    fate,       \* what has become of each entry
    stored,     \* copies of each entry the backend has stored
    closer,     \* where each caller of Shutdown is
    due         \* the entries that were pending when the caller called

vars == <<fate, stored, closer, due>>

Refusals == {"rejected", "overflow"}
Outcomes == {"shed", "failed", "shipped"}
Fates    == {"new", "pending"} \cup Refusals \cup Outcomes

Pending == {e \in Entry : fate[e] = "pending"}

TypeOK ==
    /\ fate \in [Entry -> Fates]
    /\ stored \in [Entry -> 0..MaxCopies]
    /\ closer \in [Closer -> {"idle", "waiting", "nil", "ctxErr"}]
    /\ due \in [Closer -> SUBSET Entry]

Init ==
    /\ fate = [e \in Entry |-> "new"]
    /\ stored = [e \in Entry |-> 0]
    /\ closer = [c \in Closer |-> "idle"]
    /\ due = [c \in Closer |-> {}]

Settle(S, outcome) ==
    fate' = [e \in Entry |-> IF e \in S THEN outcome ELSE fate[e]]

-----------------------------------------------------------------------------
(* Export returns at once: the entry is refused or taken. *)

Refuse(e, why) ==
    /\ fate[e] = "new"
    /\ fate' = [fate EXCEPT ![e] = why]
    /\ UNCHANGED <<stored, closer, due>>

Accept(e) ==
    /\ fate[e] = "new"
    /\ fate' = [fate EXCEPT ![e] = "pending"]
    /\ UNCHANGED <<stored, closer, due>>

(* What may become of taken entries, as far as the exporter of the repository
   needs it (logger/loki.go): it drops a batch it never handed to the backend. *)
Shed(S) ==
    /\ \A e \in S : stored[e] = 0
    /\ Settle(S, "shed")
    /\ UNCHANGED <<stored, closer, due>>

(* The backend stores a batch; the exporter learns of it ("shipped"), tries
   again ("pending") or stops trying ("failed"). *)
Deliver(S, outcome) ==
    /\ \A e \in S : stored[e] < MaxCopies
    /\ stored' = [e \in Entry |-> IF e \in S THEN stored[e] + 1 ELSE stored[e]]
    /\ Settle(S, outcome)
    /\ UNCHANGED <<closer, due>>

(* The exporter stops trying without a further copy. *)
GiveUp(S) ==
    /\ Settle(S, "failed")
    /\ UNCHANGED <<stored, closer, due>>

Shutdown(c) ==
    /\ closer[c] = "idle"
    /\ closer' = [closer EXCEPT ![c] = "waiting"]
    /\ due' = [due EXCEPT ![c] = Pending]
    /\ UNCHANGED <<fate, stored>>

ShutdownNil(c) ==
    /\ closer[c] = "waiting"
    /\ due[c] \cap Pending = {}
    /\ closer' = [closer EXCEPT ![c] = "nil"]
    /\ UNCHANGED <<fate, stored, due>>

ShutdownCtx(c) ==
    /\ closer[c] = "waiting"
    /\ closer' = [closer EXCEPT ![c] = "ctxErr"]
    /\ UNCHANGED <<fate, stored, due>>

Next ==
    \/ \E e \in Entry : Accept(e) \/ \E why \in Refusals : Refuse(e, why)
    \/ \E S \in (SUBSET Pending) \ {{}} :
          \/ Shed(S)
          \/ GiveUp(S)
          \/ \E outcome \in {"pending", "failed", "shipped"} : Deliver(S, outcome)
    \/ \E c \in Closer : Shutdown(c) \/ ShutdownNil(c) \/ ShutdownCtx(c)

Spec == Init /\ [][Next]_vars
=============================================================================
