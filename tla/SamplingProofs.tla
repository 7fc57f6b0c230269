--------------------------- MODULE SamplingProofs ---------------------------
(***************************************************************************)
(* Proofs, for every number of services and spans, every set of settings   *)
(* and every granularity of the ratios, of what Sampling says of the       *)
(* sampler: services agree about traces, errors known at the start are     *)
(* exported, and resource, exporters and ratio are the ones asked for.     *)
(* Its last theorem says of every setting which spans are exported.        *)
(***************************************************************************)
EXTENDS Sampling, SequenceTheorems, Induction, TLAPS

Fields == {"name", "attrs", "endpoint", "insecure", "exporter", "exporters", "metric",
           "ratio", "errors", "level"}

(* d differs from c in the fields F only. *)
Same(c, d, F) == \A x \in Fields \ F : d[x] = c[x]

SpanRecord ==
    [ service : Service, parent : Nat, trace : 0..(Full - 1), started : BOOLEAN,
      sampled : BOOLEAN, failed : BOOLEAN, marked : BOOLEAN, ended : BOOLEAN ]

Asked(s) == ConfigFromEnv(setting[s].env, setting[s].cfg)

(* A service that runs has the Config, the resource and the sampler of its
   setting; one that does not has its Config yet and samples nothing. *)
Booted ==
    /\ \A s \in up :
          /\ cfg[s] = WithDefaults(Asked(s)) /\ ~Refuses(cfg[s])
          /\ sampler[s] = SamplerFromConfig(cfg[s])
          /\ resource[s] = Resource(cfg[s])
    /\ \A s \in Service \ up : cfg[s] = setting[s].cfg /\ sampler[s] = Unset

(* What the sampler has decided, and what followed from it. *)
Decided(i) ==
    /\ spans[i].service \in up
    /\ Exporting(i) =>
          spans[i].sampled = ((By(i).errors /\ spans[i].started) \/ spans[i].trace < By(i).base)
    /\ spans[i].started /\ spans[i].sampled => spans[i].marked
    /\ spans[i].marked => spans[i].failed /\ spans[i].sampled
    /\ i \in exported <=> spans[i].sampled /\ spans[i].ended /\ Exporting(i)

Sampler == [base : 0..Full, errors : BOOLEAN]

Services ==
    /\ setting \in [Service -> Setting]
    /\ up \subseteq Service /\ refused \subseteq Service \ up
    /\ cfg \in [Service -> ConfigRecord] /\ sampler \in [Service -> Sampler]
    /\ DOMAIN resource = Service
    /\ Booted

IInv ==
    /\ Services
    /\ spans \in Seq(SpanRecord) /\ exported \subseteq Span
    /\ \A i \in Span : Decided(i) /\ spans[i].parent < i

-----------------------------------------------------------------------------
(* The exporters the environment lists. *)

(* KnownExporters takes the names one after the other. *)
LEMMA KnownSteps ==
    ASSUME NEW env, env.exporters \in Seq(ExporterType \cup {"unknown"})
    PROVE  \E f : /\ f \in [0..Len(env.exporters) -> Seq(ExporterType)]
                  /\ f[0] = <<>>
                  /\ \A i \in 1..Len(env.exporters) :
                        f[i] = IF env.exporters[i] \in ExporterType
                                 THEN Append(f[i - 1], env.exporters[i]) ELSE f[i - 1]
                  /\ KnownExporters(env) = f[Len(env.exporters)]
  <1> DEFINE n == Len(env.exporters)
             e(i) == env.exporters[i]
             S == Seq(ExporterType)
             Next1(k, i) == IF e(i) \in ExporterType THEN Append(k, e(i)) ELSE k
             F == [x \in S \X (1..n) |-> Next1(x[1], x[2])]
  <1>1. n \in Nat /\ <<>> \in S
    OBVIOUS
  <1>2. ASSUME NEW k \in S, NEW i \in 1..n
        PROVE  Next1(k, i) \in S
    <2>1. CASE e(i) \in ExporterType
      <3> HIDE DEF e
      <3>1. QED
        BY <2>1
    <2>2. CASE e(i) \notin ExporterType
      BY <2>2
    <2>3. QED
      BY <2>1, <2>2
  <1> HIDE DEF n, e, S, Next1
  <1>3. F \in [S \X (1..n) -> S]
    BY <1>2
  <1>4. \A k \in S, i \in 1..n : F[<<k, i>>] = Next1(k, i)
    OBVIOUS
  <1> HIDE DEF F
  <1>5. PICK f \in [0..n -> S] : MadeUpTo(f, n, <<>>, F)
    BY <1>1, <1>3, StepByStep
  <1> DEFINE Eq(g) == g = [i \in 0..n |->
                             IF i = 0 THEN <<>>
                             ELSE IF e(i) \in ExporterType THEN Append(g[i - 1], e(i))
                             ELSE g[i - 1]]
             known == CHOOSE g : Eq(g)
  <1>6. KnownExporters(env) = known[n]
    BY DEF KnownExporters, n, e
  <1>7. Eq(f)
    <2>1. \A i \in 0..n : i # 0 => i \in 1..n /\ i - 1 \in 0..n
      BY <1>1
    <2>2. ASSUME NEW i \in 1..n
          PROVE  f[i] = Next1(f[i - 1], i)
      <3>1. i - 1 \in 0..n /\ f[i - 1] \in S
        BY <1>1, <1>5
      <3>2. QED
        BY <1>4, <1>5, <3>1 DEF MadeUpTo
    <2>3. \A i \in 0..n : f[i] = IF i = 0 THEN <<>> ELSE Next1(f[i - 1], i)
      BY <1>5, <2>1, <2>2 DEF MadeUpTo
    <2>4. QED
      BY <2>3 DEF Next1
  <1>8. Eq(known)
    <2> HIDE DEF Eq
    <2>1. QED
      BY <1>7
  <1> HIDE DEF known
  <1>9. known[0] = <<>> /\ \A i \in 1..n : known[i] = Next1(known[i - 1], i)
    <2>1. 0 \in 0..n /\ \A i \in 1..n : i \in 0..n /\ i # 0
      BY <1>1
    <2>2. QED
      BY <1>8, <2>1 DEF Next1
  <1> DEFINE P == {i \in 0..n : known[i] \in S}
  <1>10. 0 \in P
    BY <1>1, <1>9
  <1>11. ASSUME NEW i \in 1..n, i - 1 \in P
         PROVE  i \in P
    BY <1>1, <1>2, <1>9, <1>11
  <1>12. 0..n \subseteq P
    <2> HIDE DEF P
    <2>1. QED
      BY <1>1, <1>10, <1>11, UpTo
  <1>13. known \in [0..n -> S]
    <2>1. known = [i \in 0..n |-> known[i]]
      BY <1>8
    <2>2. QED
      BY <1>12, <2>1
  <1>14. QED
    BY <1>6, <1>9, <1>13 DEF n, S, e, Next1

LEMMA KnownTyped ==
    ASSUME NEW env, env.exporters \in Seq(ExporterType \cup {"unknown"})
    PROVE  KnownExporters(env) \in Seq(ExporterType)
  <1>1. Len(env.exporters) \in 0..Len(env.exporters)
    OBVIOUS
  <1>2. QED
    BY <1>1, KnownSteps

(* known is what is known of the first n names. *)
Listed(names, n, known) ==
    LET own == {i \in DOMAIN names : names[i] \in ExporterType} IN
    /\ Len(known) = Rank(own, n)
    /\ \A i \in own : i <= n => Rank(own, i) \in 1..Rank(own, n) /\ known[Rank(own, i)] = names[i]

LEMMA ListedStep ==
    ASSUME NEW names \in Seq(ExporterType \cup {"unknown"}), NEW n \in 1..Len(names),
           NEW known \in Seq(ExporterType), Listed(names, n - 1, known)
    PROVE  Listed(names, n, IF names[n] \in ExporterType THEN Append(known, names[n]) ELSE known)
  <1> DEFINE own == {i \in DOMAIN names : names[i] \in ExporterType}
             R(i) == Rank(own, i)
             more == IF names[n] \in ExporterType THEN Append(known, names[n]) ELSE known
  <1>1. /\ Len(names) \in Nat /\ own \subseteq 1..Len(names) /\ n \in Int
        /\ n \in own <=> names[n] \in ExporterType
    OBVIOUS
  <1>2. R(n - 1) \in Nat /\ R(n) = R(n - 1) + (IF n \in own THEN 1 ELSE 0)
    <2> HIDE DEF own
    <2>1. QED
      BY <1>1, RankGrows
  <1>3. /\ Len(known) = R(n - 1)
        /\ \A i \in own : i <= n - 1 => R(i) \in 1..R(n - 1) /\ known[R(i)] = names[i]
    BY DEF Listed
  <1>4. SUFFICES /\ Len(more) = R(n)
                 /\ \A i \in own : i <= n => R(i) \in 1..R(n) /\ more[R(i)] = names[i]
    BY DEF Listed
  <1>5. more = IF n \in own THEN Append(known, names[n]) ELSE known
    BY <1>1
  <1>6. \A i \in own : i <= n => i <= n - 1 \/ i = n
    BY <1>1
  <1> HIDE DEF own, R, more
  <1>7. CASE n \notin own
    BY <1>2, <1>3, <1>5, <1>6, <1>7
  <1>8. CASE n \in own
    <2>1. /\ R(n) = R(n - 1) + 1 /\ Len(more) = R(n) /\ more[R(n)] = names[n]
          /\ \A k \in 1..R(n - 1) : more[k] = known[k]
      <3>1. names[n] \in ExporterType
        BY <1>1, <1>8
      <3>2. QED
        BY <1>2, <1>3, <1>5, <1>8, <3>1
    <2>2. QED
      BY <1>2, <1>3, <1>6, <2>1
  <1>9. QED
    BY <1>7, <1>8

(* OTEL_TRACES_EXPORTER is taken name by name: each known name that it lists,
   none else, in its order, as often as it is there (ConfigFromEnv, env.go). *)
THEOREM NamesTakenInOrder ==
    ASSUME NEW env \in Environment
    PROVE  LET known == KnownExporters(env)
               own == {i \in DOMAIN env.exporters : env.exporters[i] \in ExporterType}
           IN  /\ Len(known) = Cardinality(own)
               /\ \A i \in own : known[Cardinality({j \in own : j <= i})] = env.exporters[i]
  <1> DEFINE names == env.exporters
             n == Len(names)
             own == {i \in DOMAIN names : names[i] \in ExporterType}
  <1>1. names \in Seq(ExporterType \cup {"unknown"})
    BY DEF Environment
  <1>2. PICK f : /\ f \in [0..n -> Seq(ExporterType)]
                 /\ f[0] = <<>>
                 /\ \A i \in 1..n : f[i] = IF names[i] \in ExporterType
                                           THEN Append(f[i - 1], names[i]) ELSE f[i - 1]
                 /\ KnownExporters(env) = f[n]
    BY <1>1, KnownSteps
  <1>3. n \in Nat /\ own \subseteq 1..n /\ DOMAIN names = 1..n
    BY <1>1
  <1> DEFINE P == {i \in 0..n : Listed(names, i, f[i])}
  <1>4. 0 \in P
    <2>1. \A i \in own : ~(i <= 0)
      BY <1>3
    <2>2. Rank(own, 0) = 0
      <3> HIDE DEF own
      <3>1. QED
        BY <2>1, RankOfNone
    <2>3. Listed(names, 0, f[0])
      BY <1>2, <2>1, <2>2 DEF Listed
    <2>4. QED
      BY <1>3, <2>3
  <1>5. ASSUME NEW i \in 1..n, i - 1 \in P
        PROVE  i \in P
    <2>1. i \in 0..n /\ f[i - 1] \in Seq(ExporterType) /\ Listed(names, i - 1, f[i - 1])
      BY <1>2, <1>3, <1>5
    <2>2. Listed(names, i, IF names[i] \in ExporterType THEN Append(f[i - 1], names[i])
                                                        ELSE f[i - 1])
      <3> HIDE DEF names
      <3>1. QED
        BY <1>1, <2>1, ListedStep DEF n
    <2>3. QED
      BY <1>2, <2>1, <2>2
  <1>6. Listed(names, n, KnownExporters(env))
    <2> HIDE DEF P, n
    <2>1. 0..n \subseteq P
      BY <1>3, <1>4, <1>5, UpTo
    <2>2. n \in P
      BY <1>3, <2>1
    <2>3. QED
      BY <1>2, <2>2 DEF P, n
  <1>7. Rank(own, n) = Cardinality(own)
    <2> HIDE DEF own, n
    <2>1. QED
      BY <1>3, RankOfAll
  <1>8. /\ Len(KnownExporters(env)) = Rank(own, n)
        /\ \A i \in own : i <= n => KnownExporters(env)[Rank(own, i)] = names[i]
    BY <1>6 DEF Listed
  <1>9. \A i \in own : i <= n
    BY <1>3
  <1>10. QED
    BY <1>7, <1>8, <1>9 DEF Rank

-----------------------------------------------------------------------------
(* The attributes the environment lists. *)

Cell == (Text \cup {""}) \X Text

LEMMA PutTyped ==
    ASSUME NEW m \in Attributes, NEW a \in Cell
    PROVE  Put(m, a) \in Attributes
  <1>1. PICK K \in SUBSET Text : m \in [K -> Text]
    BY DEF Attributes
  <1>2. CASE a[1] = ""
    BY <1>2 DEF Put
  <1>3. CASE a[1] # ""
    <2>1. a[1] \in Text /\ a[2] \in Text
      BY <1>3 DEF Cell
    <2>2. Put(m, a) = [k \in K \cup {a[1]} |-> IF k = a[1] THEN a[2] ELSE m[k]]
      BY <1>1, <1>3 DEF Put
    <2>3. Put(m, a) \in [K \cup {a[1]} -> Text]
      BY <1>1, <2>1, <2>2
    <2>4. K \cup {a[1]} \in SUBSET Text
      BY <2>1
    <2>5. QED
      BY <2>3, <2>4 DEF Attributes
  <1>4. QED
    BY <1>2, <1>3

(* Merged takes the pairs one after the other. *)
LEMMA MergedSteps ==
    ASSUME NEW m \in Attributes, NEW pairs \in Seq(Cell)
    PROVE  \E f : /\ f \in [0..Len(pairs) -> Attributes]
                  /\ f[0] = m
                  /\ \A i \in 1..Len(pairs) : f[i] = Put(f[i - 1], pairs[i])
                  /\ Merged(m, pairs) = f[Len(pairs)]
  <1> DEFINE n == Len(pairs)
             F == [x \in Attributes \X (1..n) |-> Put(x[1], pairs[x[2]])]
  <1>1. n \in Nat
    OBVIOUS
  <1>2. ASSUME NEW b \in Attributes, NEW i \in 1..n
        PROVE  Put(b, pairs[i]) \in Attributes
    <2>1. pairs[i] \in Cell
      OBVIOUS
    <2>2. QED
      BY <2>1, PutTyped
  <1> HIDE DEF n
  <1>3. F \in [Attributes \X (1..n) -> Attributes]
    BY <1>2
  <1>4. \A b \in Attributes, i \in 1..n : F[<<b, i>>] = Put(b, pairs[i])
    OBVIOUS
  <1> HIDE DEF F
  <1>5. PICK f \in [0..n -> Attributes] : MadeUpTo(f, n, m, F)
    BY <1>1, <1>3, StepByStep
  <1> DEFINE Eq(g) == g = [i \in 0..n |-> IF i = 0 THEN m ELSE Put(g[i - 1], pairs[i])]
             made == CHOOSE g : Eq(g)
  <1>6. Merged(m, pairs) = made[n]
    BY DEF Merged, n
  <1>7. Eq(f)
    <2>1. \A i \in 0..n : i # 0 => i \in 1..n /\ i - 1 \in 0..n
      BY <1>1
    <2>2. ASSUME NEW i \in 1..n
          PROVE  f[i] = Put(f[i - 1], pairs[i])
      <3>1. i - 1 \in 0..n /\ f[i - 1] \in Attributes
        BY <1>1, <1>5
      <3>2. QED
        BY <1>4, <1>5, <3>1 DEF MadeUpTo
    <2>3. \A i \in 0..n : f[i] = IF i = 0 THEN m ELSE Put(f[i - 1], pairs[i])
      BY <1>5, <2>1, <2>2 DEF MadeUpTo
    <2>4. QED
      BY <2>3
  <1>8. Eq(made)
    <2> HIDE DEF Eq
    <2>1. QED
      BY <1>7
  <1> HIDE DEF made
  <1>9. made[0] = m /\ \A i \in 1..n : made[i] = Put(made[i - 1], pairs[i])
    <2>1. 0 \in 0..n /\ \A i \in 1..n : i \in 0..n /\ i # 0
      BY <1>1
    <2>2. QED
      BY <1>8, <2>1
  <1> DEFINE P == {i \in 0..n : made[i] \in Attributes}
  <1>10. 0 \in P
    BY <1>1, <1>9
  <1>11. ASSUME NEW i \in 1..n, i - 1 \in P
         PROVE  i \in P
    BY <1>1, <1>2, <1>9, <1>11
  <1>12. 0..n \subseteq P
    <2> HIDE DEF P
    <2>1. QED
      BY <1>1, <1>10, <1>11, UpTo
  <1>13. made \in [0..n -> Attributes]
    <2>1. made = [i \in 0..n |-> made[i]]
      BY <1>8
    <2>2. QED
      BY <1>12, <2>1
  <1>14. QED
    BY <1>6, <1>9, <1>13 DEF n

(* r has for each key the last of the first n pairs, or else what m has. *)
Layered(m, pairs, n, r) ==
    \A k \in Text :
        /\ \A i \in 1..n :
              pairs[i][1] = k /\ (\A j \in (i + 1)..n : pairs[j][1] # k)
                => k \in DOMAIN r /\ r[k] = pairs[i][2]
        /\ (\A i \in 1..n : pairs[i][1] # k)
              => (k \in DOMAIN r <=> k \in DOMAIN m) /\ (k \in DOMAIN m => r[k] = m[k])

LEMMA LayeredStep ==
    ASSUME NEW m, NEW pairs, NEW n \in Nat \ {0}, NEW r, Layered(m, pairs, n - 1, r)
    PROVE  Layered(m, pairs, n, Put(r, pairs[n]))
  <1> DEFINE a == pairs[n]
             p == Put(r, a)
  <1>1. \A i : i \in 1..n <=> (i \in 1..(n - 1) \/ i = n)
    OBVIOUS
  <1>2. ASSUME NEW k \in Text
        PROVE  /\ a[1] = k => k \in DOMAIN p /\ p[k] = a[2]
               /\ a[1] # k => (k \in DOMAIN p <=> k \in DOMAIN r)
                              /\ (k \in DOMAIN r => p[k] = r[k])
    <2>1. k # ""
      BY TextAssumption
    <2>2. QED
      BY <2>1 DEF Put
  <1> HIDE DEF p
  <1>3. ASSUME NEW k \in Text, NEW i \in 1..n, pairs[i][1] = k,
               \A j \in (i + 1)..n : pairs[j][1] # k
        PROVE  k \in DOMAIN p /\ p[k] = pairs[i][2]
    <2>1. CASE i = n
      BY <1>2, <1>3, <2>1
    <2>2. CASE i # n
      <3>1. i \in 1..(n - 1) /\ n \in (i + 1)..n /\ \A j \in (i + 1)..(n - 1) : j \in (i + 1)..n
        BY <2>2
      <3>2. k \in DOMAIN r /\ r[k] = pairs[i][2]
        BY <1>3, <3>1 DEF Layered
      <3>3. QED
        BY <1>2, <1>3, <3>1, <3>2
    <2>3. QED
      BY <2>1, <2>2
  <1>4. ASSUME NEW k \in Text, \A i \in 1..n : pairs[i][1] # k
        PROVE  (k \in DOMAIN p <=> k \in DOMAIN m) /\ (k \in DOMAIN m => p[k] = m[k])
    <2>1. a[1] # k /\ \A i \in 1..(n - 1) : pairs[i][1] # k
      BY <1>1, <1>4
    <2>2. (k \in DOMAIN r <=> k \in DOMAIN m) /\ (k \in DOMAIN m => r[k] = m[k])
      BY <2>1 DEF Layered
    <2>3. QED
      BY <1>2, <2>1, <2>2
  <1>5. QED
    BY <1>3, <1>4 DEF Layered, p

(* Of the pairs with a key the last one counts. *)
LEMMA MergedLayered ==
    ASSUME NEW m \in Attributes, NEW pairs \in Seq(Cell)
    PROVE  Merged(m, pairs) \in Attributes /\ Layered(m, pairs, Len(pairs), Merged(m, pairs))
  <1>1. PICK f : /\ f \in [0..Len(pairs) -> Attributes]
                 /\ f[0] = m
                 /\ \A i \in 1..Len(pairs) : f[i] = Put(f[i - 1], pairs[i])
                 /\ Merged(m, pairs) = f[Len(pairs)]
    BY MergedSteps
  <1> DEFINE n == Len(pairs)
             P == {i \in 0..n : Layered(m, pairs, i, f[i])}
  <1>2. n \in Nat
    OBVIOUS
  <1>3. 0 \in P
    <2>1. f[0] = m /\ \A i \in 1..0 : FALSE
      BY <1>1
    <2>2. Layered(m, pairs, 0, f[0])
      BY <2>1 DEF Layered
    <2>3. QED
      BY <1>2, <2>2
  <1>4. ASSUME NEW i \in 1..n, i - 1 \in P
        PROVE  i \in P
    <2>1. /\ i \in 0..n /\ i \in Nat \ {0}
          /\ Layered(m, pairs, i - 1, f[i - 1])
      BY <1>2, <1>4
    <2>2. Layered(m, pairs, i, Put(f[i - 1], pairs[i]))
      BY <2>1, LayeredStep
    <2>3. QED
      BY <1>1, <2>1, <2>2
  <1>5. n \in P
    <2> HIDE DEF P
    <2>1. 0..n \subseteq P
      BY <1>2, <1>3, <1>4, UpTo
    <2>2. QED
      BY <1>2, <2>1
  <1>6. QED
    BY <1>1, <1>2, <1>5

-----------------------------------------------------------------------------
(* The Config on its way through ConfigFromEnv and New, variable by variable. *)

LEMMA NameStep ==
    ASSUME NEW env \in Environment, NEW c \in ConfigRecord
    PROVE  /\ NameFromEnv(env, c) \in ConfigRecord
           /\ Same(c, NameFromEnv(env, c), {"name"})
           /\ NameFromEnv(env, c).name = IF env.name = "" THEN c.name ELSE env.name
  <1>1. env.name \in Text \cup {""}
    BY DEF Environment
  <1>2. QED
    BY <1>1 DEF NameFromEnv, ConfigRecord, Same, Fields

LEMMA ExportersStep ==
    ASSUME NEW env \in Environment, NEW c \in ConfigRecord
    PROVE  LET known == KnownExporters(env)
               d == ExportersFromEnv(env, c)
           IN  /\ d \in ConfigRecord
               /\ Same(c, d, {"exporter", "exporters"})
               /\ IF Len(known) = 1 THEN <<d.exporter>> = known ELSE d.exporter = c.exporter
               /\ d.exporters = IF Len(known) > 1 THEN known ELSE c.exporters
  <1> DEFINE known == KnownExporters(env)
             d == ExportersFromEnv(env, c)
  <1>1. known \in Seq(ExporterType)
    BY KnownTyped DEF Environment
  <1>2. d = IF Len(known) = 1 THEN [c EXCEPT !.exporter = Head(known)]
            ELSE IF Len(known) > 1 THEN [c EXCEPT !.exporters = known] ELSE c
    BY DEF ExportersFromEnv
  <1> HIDE DEF known, d
  <1>3. /\ Len(known) \in Nat
        /\ Len(known) = 1 => Head(known) \in ExporterType /\ <<Head(known)>> = known
    BY <1>1
  <1>4. CASE Len(known) = 1
    <2>1. d = [c EXCEPT !.exporter = Head(known)]
      BY <1>2, <1>4
    <2>2. d \in ConfigRecord
      BY <1>3, <1>4, <2>1 DEF ConfigRecord
    <2>3. Same(c, d, {"exporter", "exporters"}) /\ d.exporters = c.exporters
          /\ d.exporter = Head(known)
      BY <2>1 DEF ConfigRecord, Same, Fields
    <2>4. QED
      BY <1>3, <1>4, <2>2, <2>3 DEF known, d
  <1>5. CASE Len(known) > 1
    <2>1. d = [c EXCEPT !.exporters = known] /\ Len(known) # 1
      <3>1. Len(known) \in Nat
        BY <1>1
      <3>2. Len(known) # 1
        BY <1>5, <3>1
      <3>3. QED
        BY <1>2, <1>5, <3>2
    <2>2. d \in ConfigRecord
      BY <1>1, <2>1 DEF ConfigRecord
    <2>3. /\ Same(c, d, {"exporter", "exporters"})
          /\ d.exporters = known /\ d.exporter = c.exporter
      BY <2>1 DEF ConfigRecord, Same, Fields
    <2>4. QED
      BY <1>5, <2>1, <2>2, <2>3 DEF known, d
  <1>6. CASE Len(known) = 0
    <2>1. d = c
      BY <1>2, <1>6
    <2>2. QED
      BY <1>6, <2>1 DEF known, d, Same
  <1>7. Len(known) = 0 \/ Len(known) = 1 \/ Len(known) > 1
    <2>1. Len(known) \in Nat
      BY <1>1
    <2>2. QED
      BY <2>1
  <1>8. QED
    BY <1>4, <1>5, <1>6, <1>7

LEMMA EndpointStep ==
    ASSUME NEW env \in Environment, NEW c \in ConfigRecord
    PROVE  /\ EndpointFromEnv(env, c) \in ConfigRecord
           /\ Same(c, EndpointFromEnv(env, c), {"endpoint", "insecure"})
           /\ EndpointFromEnv(env, c).endpoint = (c.endpoint \/ env.endpoint)
           /\ EndpointFromEnv(env, c).insecure = (c.insecure \/ env.insecure)
  BY DEF EndpointFromEnv, ConfigRecord, Same, Fields

LEMMA SamplerStep ==
    ASSUME NEW env \in Environment, NEW c \in ConfigRecord
    PROVE  /\ SamplerFromEnv(env, c) \in ConfigRecord
           /\ Same(c, SamplerFromEnv(env, c), {"ratio"})
           /\ SamplerFromEnv(env, c).ratio = CASE env.sampler = "always_on"  -> Full
                                                [] env.sampler = "always_off" -> 0
                                                [] OTHER -> c.ratio
  <1>1. Full \in Ratio /\ 0 \in Ratio
    BY FullAssumption DEF Ratio
  <1>2. QED
    BY <1>1 DEF SamplerFromEnv, ConfigRecord, Same, Fields

LEMMA ArgStep ==
    ASSUME NEW env \in Environment, NEW c \in ConfigRecord
    PROVE  /\ ArgFromEnv(env, c) \in ConfigRecord
           /\ Same(c, ArgFromEnv(env, c), {"ratio"})
           /\ ArgFromEnv(env, c).ratio = IF env.arg = <<>> THEN c.ratio ELSE Head(env.arg)
  <1>1. env.arg \in Seq(Ratio)
    BY DEF Environment
  <1>2. env.arg # <<>> => Head(env.arg) \in Ratio
    BY <1>1, HeadTailProperties
  <1>3. QED
    BY <1>2 DEF ArgFromEnv, ConfigRecord, Same, Fields

LEMMA AttributesStep ==
    ASSUME NEW env \in Environment, NEW c \in ConfigRecord
    PROVE  /\ AttributesFromEnv(env, c) \in ConfigRecord
           /\ Same(c, AttributesFromEnv(env, c), {"attrs"})
           /\ AttributesFromEnv(env, c).attrs = Merged(c.attrs, env.attrs)
  <1>1. c.attrs \in Attributes /\ env.attrs \in Seq(Cell)
    BY DEF ConfigRecord, Environment, Cell
  <1>2. Merged(c.attrs, env.attrs) \in Attributes
    BY <1>1, MergedLayered
  <1>3. QED
    BY <1>2 DEF AttributesFromEnv, ConfigRecord, Same, Fields

LevelAsked(env, c) ==
    IF env.level \in Level THEN env.level ELSE IF env.level = "unset" THEN c.level ELSE "info"

LEMMA LevelStep ==
    ASSUME NEW env \in Environment, NEW c \in ConfigRecord
    PROVE  /\ LevelFromEnv(env, c) \in ConfigRecord
           /\ Same(c, LevelFromEnv(env, c), {"level"})
           /\ LevelFromEnv(env, c).level = LevelAsked(env, c)
  <1>1. env.level \in Level \cup {"unset", "unknown"}
    BY DEF Environment
  <1>2. QED
    BY <1>1 DEF LevelFromEnv, LevelAsked, ConfigRecord, Same, Fields, Level

(* What comes of all of them. *)
LEMMA EnvStep ==
    ASSUME NEW env \in Environment, NEW c \in ConfigRecord
    PROVE  LET d == ConfigFromEnv(env, c)
               known == KnownExporters(env)
           IN  /\ d \in ConfigRecord
               /\ d.errors = c.errors /\ d.ratio = RatioAsked(env, c)
               /\ d.name = IF env.name = "" THEN c.name ELSE env.name
               /\ d.endpoint = (c.endpoint \/ env.endpoint)
               /\ d.attrs = Merged(c.attrs, env.attrs)
               /\ d.insecure = (c.insecure \/ env.insecure)
               /\ d.metric = c.metric /\ d.level = LevelAsked(env, c)
               /\ IF Len(known) = 1 THEN <<d.exporter>> = known ELSE d.exporter = c.exporter
               /\ d.exporters = IF Len(known) > 1 THEN known ELSE c.exporters
  <1> DEFINE known == KnownExporters(env)
             c1 == NameFromEnv(env, c)
             c2 == ExportersFromEnv(env, c1)
             c3 == EndpointFromEnv(env, c2)
             c4 == SamplerFromEnv(env, c3)
             c5 == ArgFromEnv(env, c4)
             c6 == AttributesFromEnv(env, c5)
             d == LevelFromEnv(env, c6)
  <1>1. /\ c1 \in ConfigRecord /\ Same(c, c1, {"name"})
        /\ c1.name = IF env.name = "" THEN c.name ELSE env.name
    BY NameStep
  <1>2. /\ c2 \in ConfigRecord /\ Same(c1, c2, {"exporter", "exporters"})
        /\ IF Len(known) = 1 THEN <<c2.exporter>> = known ELSE c2.exporter = c1.exporter
        /\ c2.exporters = IF Len(known) > 1 THEN known ELSE c1.exporters
    BY <1>1, ExportersStep
  <1>3. /\ c3 \in ConfigRecord /\ Same(c2, c3, {"endpoint", "insecure"})
        /\ c3.endpoint = (c2.endpoint \/ env.endpoint)
        /\ c3.insecure = (c2.insecure \/ env.insecure)
    BY <1>2, EndpointStep
  <1>4. /\ c4 \in ConfigRecord /\ Same(c3, c4, {"ratio"})
        /\ c4.ratio = CASE env.sampler = "always_on"  -> Full
                         [] env.sampler = "always_off" -> 0
                         [] OTHER -> c3.ratio
    BY <1>3, SamplerStep
  <1>5. /\ c5 \in ConfigRecord /\ Same(c4, c5, {"ratio"})
        /\ c5.ratio = IF env.arg = <<>> THEN c4.ratio ELSE Head(env.arg)
    BY <1>4, ArgStep
  <1>6. /\ c6 \in ConfigRecord /\ Same(c5, c6, {"attrs"})
        /\ c6.attrs = Merged(c5.attrs, env.attrs)
    BY <1>5, AttributesStep
  <1>7. d \in ConfigRecord /\ Same(c6, d, {"level"}) /\ d.level = LevelAsked(env, c6)
    BY <1>6, LevelStep
  <1>8. ConfigFromEnv(env, c) = d
    BY DEF ConfigFromEnv
  <1> HIDE DEF known, c1, c2, c3, c4, c5, c6, d
  <1>9. d.errors = c.errors
    <2>1. c3.errors = c.errors
      BY <1>1, <1>2, <1>3 DEF Same, Fields
    <2>2. d.errors = c3.errors
      BY <1>4, <1>5, <1>6, <1>7 DEF Same, Fields
    <2>3. QED
      BY <2>1, <2>2
  <1>10. d.name = c1.name
    BY <1>2, <1>3, <1>4, <1>5, <1>6, <1>7 DEF Same, Fields
  <1>11. d.exporters = c2.exporters /\ d.exporter = c2.exporter
         /\ c1.exporters = c.exporters /\ c1.exporter = c.exporter
    <2>1. c1.exporters = c.exporters /\ c1.exporter = c.exporter
      BY <1>1 DEF Same, Fields
    <2>2. d.exporters = c2.exporters /\ d.exporter = c2.exporter
      BY <1>3, <1>4, <1>5, <1>6, <1>7 DEF Same, Fields
    <2>3. QED
      BY <2>1, <2>2
  <1>12. /\ d.endpoint = c3.endpoint /\ c2.endpoint = c.endpoint
         /\ d.insecure = c3.insecure /\ c2.insecure = c.insecure
    BY <1>1, <1>2, <1>4, <1>5, <1>6, <1>7 DEF Same, Fields
  <1>13. d.attrs = c6.attrs /\ c5.attrs = c.attrs
    BY <1>1, <1>2, <1>3, <1>4, <1>5, <1>7 DEF Same, Fields
  <1>14. d.ratio = RatioAsked(env, c)
    <2>1. d.ratio = c5.ratio /\ c3.ratio = c.ratio
      BY <1>1, <1>2, <1>3, <1>6, <1>7 DEF Same, Fields
    <2>2. QED
      BY <1>4, <1>5, <2>1 DEF RatioAsked
  <1>15. c6.level = c.level /\ d.metric = c.metric
    <2>1. c3.level = c.level /\ c3.metric = c.metric
      BY <1>1, <1>2, <1>3 DEF Same, Fields
    <2>2. c6.level = c3.level /\ d.metric = c3.metric
      BY <1>4, <1>5, <1>6, <1>7 DEF Same, Fields
    <2>3. QED
      BY <2>1, <2>2
  <1>16. d.level = LevelAsked(env, c)
    BY <1>7, <1>15 DEF LevelAsked
  <1>17. /\ d \in ConfigRecord
         /\ d.errors = c.errors /\ d.ratio = RatioAsked(env, c)
         /\ d.name = IF env.name = "" THEN c.name ELSE env.name
         /\ d.endpoint = (c.endpoint \/ env.endpoint)
         /\ d.attrs = Merged(c.attrs, env.attrs)
         /\ d.insecure = (c.insecure \/ env.insecure)
         /\ d.metric = c.metric /\ d.level = LevelAsked(env, c)
         /\ IF Len(known) = 1 THEN <<d.exporter>> = known ELSE d.exporter = c.exporter
         /\ d.exporters = IF Len(known) > 1 THEN known ELSE c.exporters
    BY <1>1, <1>2, <1>3, <1>6, <1>7, <1>9, <1>10, <1>11, <1>12, <1>13,
       <1>14, <1>15, <1>16
  <1>18. QED
    BY <1>8, <1>17 DEF known

(* New takes an unset ratio for 1.0. *)
LEMMA DefaultsStep ==
    ASSUME NEW c \in ConfigRecord
    PROVE  /\ WithDefaults(c) \in ConfigRecord
           /\ Same(c, WithDefaults(c), {"ratio"})
           /\ WithDefaults(c).ratio = IF c.ratio = 0 THEN Full ELSE c.ratio
  <1>1. Full \in Ratio
    BY FullAssumption DEF Ratio
  <1>2. QED
    BY <1>1 DEF WithDefaults, ConfigRecord, Same, Fields

(* The sampler takes everything from 1.0 on and nothing below 0. *)
LEMMA SamplerOf ==
    ASSUME NEW c \in ConfigRecord
    PROVE  /\ SamplerFromConfig(c) = [base |-> SamplerFromConfig(c).base, errors |-> c.errors]
           /\ SamplerFromConfig(c).base \in 0..Full /\ c.errors \in BOOLEAN
           /\ SamplerFromConfig(c) \in Sampler
           /\ c.ratio >= Full => SamplerFromConfig(c).base = Full
           /\ c.ratio <= 0 => SamplerFromConfig(c).base = 0
           /\ \A t \in 0..(Full - 1) : t < SamplerFromConfig(c).base <=> t < c.ratio
  <1>1. Full \in Nat /\ Full > 0 /\ c.ratio \in Int
    <2>1. c.ratio \in Ratio
      BY DEF ConfigRecord
    <2>2. QED
      BY <2>1, FullAssumption DEF Ratio
  <1>2. /\ SamplerFromConfig(c).base \in 0..Full
        /\ c.ratio >= Full => SamplerFromConfig(c).base = Full
        /\ c.ratio <= 0 => SamplerFromConfig(c).base = 0
        /\ \A t \in 0..(Full - 1) : t < SamplerFromConfig(c).base <=> t < c.ratio
    <2>1. CASE c.ratio >= Full
      BY <1>1, <2>1 DEF SamplerFromConfig
    <2>2. CASE c.ratio <= 0
      BY <1>1, <2>2 DEF SamplerFromConfig
    <2>3. CASE 0 < c.ratio /\ c.ratio < Full
      <3>1. SamplerFromConfig(c).base = c.ratio
        BY <1>1, <2>3 DEF SamplerFromConfig
      <3>2. QED
        BY <1>1, <2>3, <3>1
    <2>4. QED
      BY <1>1, <2>1, <2>2, <2>3
  <1>3. SamplerFromConfig(c) = [base |-> SamplerFromConfig(c).base, errors |-> c.errors]
    BY DEF SamplerFromConfig
  <1>4. c.errors \in BOOLEAN
    BY DEF ConfigRecord
  <1>5. SamplerFromConfig(c) \in Sampler
    BY <1>2, <1>3, <1>4 DEF Sampler
  <1>6. QED
    BY <1>2, <1>3, <1>4, <1>5

(* The application's attributes and, where they say nothing, the name. *)
LEMMA ResourceOf ==
    ASSUME NEW c \in ConfigRecord, c.name # ""
    PROVE  /\ Resource(c) \in Attributes
           /\ \A k \in Text : k \in DOMAIN c.attrs => Resource(c)[k] = c.attrs[k]
           /\ "service.name" \notin DOMAIN c.attrs => Resource(c)["service.name"] = c.name
           /\ \A k \in Text \ {"service.name"} : k \notin DOMAIN c.attrs => k \notin DOMAIN Resource(c)
  <1>1. c.name \in Text /\ c.attrs \in Attributes
    BY DEF ConfigRecord
  <1>2. PICK K \in SUBSET Text : c.attrs \in [K -> Text]
    BY <1>1 DEF Attributes
  <1>3. Resource(c) = [k \in {"service.name"} \cup K |-> IF k \in K THEN c.attrs[k] ELSE c.name]
    BY <1>2 DEF Resource
  <1>4. Resource(c) \in [{"service.name"} \cup K -> Text]
    BY <1>1, <1>2, <1>3
  <1>5. {"service.name"} \cup K \in SUBSET Text
    BY TextAssumption
  <1>6. Resource(c) \in Attributes
    BY <1>4, <1>5 DEF Attributes
  <1>7. QED
    BY <1>2, <1>3, <1>6

(* What a setting asks for. *)
LEMMA AskedTyped ==
    ASSUME setting \in [Service -> Setting], NEW s \in Service
    PROVE  /\ setting[s].env \in Environment /\ setting[s].cfg \in ConfigRecord
           /\ Asked(s) \in ConfigRecord
  <1>1. setting[s].env \in Environment /\ setting[s].cfg \in ConfigRecord
    BY SettingAssumption
  <1>2. QED
    BY <1>1, EnvStep DEF Asked

(* The Config of a service that runs is the one asked for but for the ratio. *)
LEMMA RunningConfig ==
    ASSUME IInv, NEW s \in up
    PROVE  /\ s \in Service /\ Asked(s) \in ConfigRecord /\ cfg[s] \in ConfigRecord
           /\ Same(Asked(s), cfg[s], {"ratio"})
           /\ cfg[s].ratio = IF Asked(s).ratio = 0 THEN Full ELSE Asked(s).ratio
  <1>1. s \in Service /\ Asked(s) \in ConfigRecord
    BY AskedTyped DEF IInv, Services
  <1>2. cfg[s] = WithDefaults(Asked(s))
    BY DEF IInv, Services, Booted
  <1>3. QED
    BY <1>1, <1>2, DefaultsStep

(* What is known of the sampler of a service that runs. *)
LEMMA RunningSampler ==
    ASSUME IInv, NEW s \in up
    PROVE  /\ sampler[s].errors = cfg[s].errors /\ sampler[s].errors \in BOOLEAN
           /\ sampler[s].base \in 0..Full
           /\ Asked(s).ratio \in Int
           /\ Asked(s).ratio >= Full => sampler[s].base = Full
           /\ Asked(s).ratio < 0 => sampler[s].base = 0
           /\ \A t \in 0..(Full - 1) :
                 t < sampler[s].base <=> Asked(s).ratio = 0 \/ t < Asked(s).ratio
  <1>1. /\ Asked(s) \in ConfigRecord /\ cfg[s] \in ConfigRecord
        /\ cfg[s].ratio = IF Asked(s).ratio = 0 THEN Full ELSE Asked(s).ratio
    BY RunningConfig
  <1>2. sampler[s] = SamplerFromConfig(cfg[s])
    BY DEF IInv, Services, Booted
  <1>3. /\ sampler[s] = [base |-> sampler[s].base, errors |-> cfg[s].errors]
        /\ sampler[s].base \in 0..Full
        /\ cfg[s].ratio >= Full => sampler[s].base = Full
        /\ cfg[s].ratio <= 0 => sampler[s].base = 0
        /\ \A t \in 0..(Full - 1) : t < sampler[s].base <=> t < cfg[s].ratio
    BY <1>1, <1>2, SamplerOf
  <1>4. sampler[s].errors = cfg[s].errors
    BY <1>3
  <1>5. Asked(s).ratio \in Int /\ Full > 0 /\ cfg[s].errors \in BOOLEAN
    <2>1. Asked(s).ratio \in Ratio /\ cfg[s].errors \in BOOLEAN
      BY <1>1 DEF ConfigRecord
    <2>2. QED
      BY <2>1, FullAssumption DEF Ratio
  <1>6. QED
    BY <1>1, <1>3, <1>4, <1>5, FullAssumption

-----------------------------------------------------------------------------
(* The invariant is inductive. *)

LEMMA InitIInv == Init => IInv
  <1> SUFFICES ASSUME Init
               PROVE  IInv
    OBVIOUS
  <1>1. spans = <<>> /\ Span = {} /\ up = {}
    BY DEF Init, Span
  <1>2. spans \in Seq(SpanRecord)
    BY <1>1
  <1>3. setting \in [Service -> Setting]
    BY DEF Init
  <1>4. cfg \in [Service -> ConfigRecord] /\ sampler \in [Service -> Sampler]
    <2>1. \A s \in Service : setting[s].cfg \in ConfigRecord
      BY <1>3, AskedTyped
    <2>2. Unset \in Sampler
      BY FullAssumption DEF Unset, Sampler
    <2>3. QED
      BY <2>1, <2>2 DEF Init
  <1>5. QED
    BY <1>1, <1>2, <1>3, <1>4 DEF Init, IInv, Services, Booted

(* Spans do not change what services work with. *)
LEMMA ServicesStay ==
    ASSUME Services, UNCHANGED bootVars
    PROVE  Services'
  BY DEF Services, Booted, Asked, bootVars

(* A service that starts decides about nothing yet. *)
LEMMA StartKeepsIInv ==
    ASSUME IInv, NEW s \in Service, Start(s)
    PROVE  IInv'
  <1> DEFINE c == WithDefaults(Asked(s))
  <1>1. s \notin up /\ UNCHANGED <<setting, spans, exported>>
    BY DEF Start
  <1>2. CASE Refuses(c)
    <2>1. refused' = refused \cup {s} /\ UNCHANGED <<up, resource, cfg, sampler>>
      BY <1>2 DEF Start, Asked
    <2>2. refused' \subseteq Service \ up'
      BY <1>1, <2>1 DEF IInv, Services
    <2>3. Booted'
      BY <1>1, <2>1 DEF IInv, Services, Booted, Asked
    <2>4. \A i \in Span' : Decided(i)' /\ spans'[i].parent < i
      BY <1>1, <2>1 DEF IInv, Decided, Exporting, By, Span
    <2>5. QED
      BY <1>1, <2>1, <2>2, <2>3, <2>4 DEF IInv, Services, Span
  <1>3. CASE ~Refuses(c)
    <2>1. /\ up' = up \cup {s}
          /\ cfg' = [cfg EXCEPT ![s] = c]
          /\ resource' = [resource EXCEPT ![s] = Resource(c)]
          /\ sampler' = [sampler EXCEPT ![s] = SamplerFromConfig(c)]
          /\ UNCHANGED refused
      BY <1>3 DEF Start, Asked
    <2>2. /\ DOMAIN cfg = Service /\ DOMAIN sampler = Service /\ DOMAIN resource = Service
          /\ DOMAIN cfg' = Service /\ DOMAIN sampler' = Service /\ DOMAIN resource' = Service
          /\ cfg'[s] = c /\ sampler'[s] = SamplerFromConfig(c) /\ resource'[s] = Resource(c)
          /\ \A t \in Service \ {s} : /\ cfg'[t] = cfg[t] /\ sampler'[t] = sampler[t]
                                      /\ resource'[t] = resource[t]
      BY <2>1 DEF IInv, Services
    <2>3. Booted'
      <3> DEFINE Runs(t) == /\ cfg[t] = WithDefaults(Asked(t)) /\ ~Refuses(cfg[t])
                            /\ sampler[t] = SamplerFromConfig(cfg[t])
                            /\ resource[t] = Resource(cfg[t])
      <3>1. ASSUME NEW t \in up'
            PROVE  Runs(t)'
        <4>1. Asked(t)' = Asked(t)
          BY <1>1 DEF Asked
        <4>2. CASE t = s
          BY <1>3, <2>2, <4>1, <4>2
        <4>3. CASE t # s
          <5>1. t \in up /\ t \in Service \ {s}
            BY <2>1, <4>3 DEF IInv, Services
          <5>2. Runs(t)
            BY <5>1 DEF IInv, Services, Booted
          <5>3. QED
            BY <2>2, <4>1, <5>1, <5>2
        <4>4. QED
          BY <4>2, <4>3
      <3>2. ASSUME NEW t \in Service \ up'
            PROVE  cfg'[t] = setting'[t].cfg /\ sampler'[t] = Unset
        <4>1. t \in Service \ up /\ t \in Service \ {s}
          BY <2>1
        <4>2. QED
          BY <1>1, <2>2, <4>1 DEF IInv, Services, Booted
      <3>3. QED
        BY <3>1, <3>2 DEF Booted
    <2>4. ASSUME NEW i \in Span'
          PROVE  Decided(i)'
      <3>1. i \in Span /\ Decided(i) /\ spans[i].service \in Service \ {s}
        BY <1>1 DEF IInv, Services, Decided, Span
      <3>2. /\ cfg'[spans[i].service] = cfg[spans[i].service]
            /\ sampler'[spans[i].service] = sampler[spans[i].service]
        BY <2>2, <3>1
      <3>3. QED
        BY <1>1, <2>1, <3>1, <3>2 DEF Decided, Exporting, By
    <2>5. /\ up' \subseteq Service /\ refused' \subseteq Service \ up'
          /\ spans' \in Seq(SpanRecord) /\ exported' \subseteq Span'
          /\ \A i \in Span' : spans'[i].parent < i
          /\ setting' \in [Service -> Setting]
      <3>1. s \notin refused
        BY DEF Start
      <3>2. QED
        BY <1>1, <2>1, <3>1 DEF IInv, Services, Span
    <2>6. cfg' \in [Service -> ConfigRecord] /\ sampler' \in [Service -> Sampler]
      <3>1. c \in ConfigRecord
        BY AskedTyped, DefaultsStep DEF IInv, Services
      <3>2. SamplerFromConfig(c) \in Sampler
        BY <3>1, SamplerOf
      <3> HIDE DEF c
      <3>3. QED
        BY <2>1, <3>1, <3>2 DEF IInv, Services
    <2>7. QED
      BY <2>2, <2>3, <2>4, <2>5, <2>6 DEF IInv, Services
  <1>4. QED
    BY <1>2, <1>3

(* A step that leaves the services alone keeps the decisions it does not touch. *)
LEMMA Undisturbed ==
    ASSUME IInv, UNCHANGED bootVars, NEW i \in Span,
           spans'[i].service = spans[i].service, spans'[i].trace = spans[i].trace,
           spans'[i].started = spans[i].started, spans'[i].sampled = spans[i].sampled,
           spans'[i].started /\ spans'[i].sampled => spans'[i].marked,
           spans'[i].marked => spans'[i].failed /\ spans'[i].sampled,
           i \in exported' <=> spans'[i].sampled /\ spans'[i].ended /\ Exporting(i)
    PROVE  Decided(i)'
  <1>1. Decided(i)
    BY DEF IInv
  <1>2. up' = up /\ cfg' = cfg /\ sampler' = sampler
    BY DEF bootVars
  <1>3. Exporting(i)' = Exporting(i)
    BY <1>2 DEF Exporting
  <1>4. By(i)' = By(i)
    BY <1>2 DEF By
  <1>5. QED
    BY <1>1, <1>2, <1>3, <1>4 DEF Decided

(* A span is started with the decision of its service's sampler. *)
LEMMA StartSpanKeepsIInv ==
    ASSUME IInv, NEW s \in Service, NEW parent \in {0} \cup Span, NEW trace \in 0..(Full - 1),
           NEW error \in BOOLEAN, StartSpan(s, parent, trace, error)
    PROVE  IInv'
  <1> DEFINE n == Len(spans) + 1
  <1>1. s \in up /\ UNCHANGED bootVars /\ exported' = exported
    BY DEF StartSpan
  <1>2. PICK sampled \in Decision(s, trace, error) :
            spans' = Append(spans,
               [ service |-> s, parent |-> parent, trace |-> trace, started |-> error,
                 sampled |-> sampled, failed |-> error, marked |-> error /\ sampled,
                 ended |-> FALSE ])
    BY DEF StartSpan
  <1> DEFINE new == [ service |-> s, parent |-> parent, trace |-> trace, started |-> error,
                      sampled |-> sampled, failed |-> error, marked |-> error /\ sampled,
                      ended |-> FALSE ]
  <1>3. /\ sampler[s].errors \in BOOLEAN
        /\ sampled \in BOOLEAN
        /\ Active(cfg[s]) => sampled = ShouldSample(s, trace, error)
    <2>1. sampler[s].errors \in BOOLEAN
      BY <1>1, RunningSampler
    <2>2. ShouldSample(s, trace, error) \in BOOLEAN
      BY DEF ShouldSample
    <2>3. QED
      BY <2>1, <2>2 DEF Decision
  <1>4. new \in SpanRecord
    <2>1. (error /\ sampled) \in BOOLEAN
      OBVIOUS
    <2>2. parent \in Nat
      BY DEF IInv, Span
    <2>3. QED
      BY <1>3, <2>1, <2>2 DEF SpanRecord
  <1>5. spans \in Seq(SpanRecord) /\ spans' = Append(spans, new)
    BY <1>2 DEF IInv
  <1>6. /\ spans' \in Seq(SpanRecord)
        /\ Span = 1..Len(spans) /\ Span' = 1..n /\ n \notin Span
        /\ spans'[n] = new
        /\ \A i \in Span : spans'[i] = spans[i]
    BY <1>4, <1>5 DEF Span
  <1> HIDE DEF n
  <1>7. ASSUME NEW i \in Span
        PROVE  Decided(i)'
    <2>1. spans'[i] = spans[i] /\ Decided(i)
      BY <1>6 DEF IInv
    <2>2. QED
      BY <1>1, <2>1, Undisturbed DEF Decided
  <1>8. ASSUME NEW i, i = n
        PROVE  Decided(i)'
    <2>1. /\ spans'[i].service = s /\ spans'[i].trace = trace /\ spans'[i].started = error
          /\ spans'[i].sampled = sampled /\ spans'[i].ended = FALSE
          /\ spans'[i].marked = (error /\ sampled) /\ spans'[i].failed = error
      BY <1>6, <1>8
    <2>2. up' = up /\ cfg' = cfg /\ sampler' = sampler
      BY <1>1 DEF bootVars
    <2>3. Exporting(i)' = Active(cfg[s]) /\ By(i)' = sampler[s]
      BY <2>1, <2>2 DEF Exporting, By
    <2>4. Active(cfg[s]) => sampled = ((sampler[s].errors /\ error) \/ trace < sampler[s].base)
      BY <1>3 DEF ShouldSample
    <2>5. i \notin exported'
      BY <1>1, <1>6, <1>8 DEF IInv
    <2>6. QED
      BY <1>1, <2>1, <2>2, <2>3, <2>4, <2>5 DEF Decided
  <1>9. ASSUME NEW i \in Span'
        PROVE  Decided(i)'
    <2>1. i \in Span \/ i = n
      BY <1>5, <1>6 DEF n
    <2>2. QED
      BY <1>7, <1>8, <2>1
  <1>10. ASSUME NEW i \in Span'
         PROVE  spans'[i].parent < i
    <2>1. CASE i \in Span
      BY <1>6, <2>1 DEF IInv
    <2>2. CASE i \notin Span
      <3>1. i = n /\ spans'[i].parent = parent
        BY <1>6, <2>2 DEF n
      <3>2. Len(spans) \in Nat /\ parent \in 0..Len(spans)
        BY <1>5, <1>6
      <3>3. QED
        BY <3>1, <3>2 DEF n
    <2>3. QED
      BY <2>1, <2>2
  <1>11. exported' \subseteq Span'
    BY <1>1, <1>6 DEF IInv, n
  <1>12. Services'
    BY <1>1, ServicesStay DEF IInv
  <1>13. QED
    BY <1>6, <1>9, <1>10, <1>11, <1>12 DEF IInv

(* What a span has of its own when one of its fields changes. *)
LEMMA SetErrorKeepsIInv ==
    ASSUME IInv, NEW k \in Span, SetError(k)
    PROVE  IInv'
  <1>1. UNCHANGED bootVars /\ exported' = exported
    BY DEF SetError
  <1>2. spans' = [spans EXCEPT ![k].failed = TRUE, ![k].marked = spans[k].sampled]
    BY DEF SetError
  <1>3. spans \in Seq(SpanRecord) /\ spans[k] \in SpanRecord
    BY DEF IInv, Span
  <1>4. /\ Span' = Span
        /\ spans'[k] = [spans[k] EXCEPT !.failed = TRUE, !.marked = spans[k].sampled]
        /\ \A i \in Span : i # k => spans'[i] = spans[i]
    BY <1>2, <1>3 DEF Span
  <1>5. spans'[k] \in SpanRecord
    BY <1>3, <1>4 DEF SpanRecord
  <1>6. spans' \in Seq(SpanRecord)
    <2>1. spans' = [spans EXCEPT ![k] = spans'[k]]
      BY <1>2, <1>4
    <2>2. QED
      BY <1>3, <1>5, <2>1, ExceptSeq DEF Span
  <1>7. ASSUME NEW i \in Span
        PROVE  Decided(i)'
    <2>1. Decided(i)
      BY DEF IInv
    <2>2. CASE i # k
      <3>1. spans'[i] = spans[i]
        BY <1>4, <2>2
      <3>2. QED
        BY <1>1, <2>1, <3>1, Undisturbed DEF Decided
    <2>3. CASE i = k
      <3>1. /\ spans'[i].service = spans[i].service /\ spans'[i].trace = spans[i].trace
            /\ spans'[i].started = spans[i].started /\ spans'[i].sampled = spans[i].sampled
            /\ spans'[i].marked = spans[i].sampled /\ spans'[i].ended = spans[i].ended
            /\ spans'[i].failed
        BY <1>3, <1>4, <2>3 DEF SpanRecord
      <3>2. QED
        BY <1>1, <2>1, <3>1, Undisturbed DEF Decided
    <2>4. QED
      BY <2>2, <2>3
  <1>8. ASSUME NEW i \in Span
        PROVE  spans'[i].parent = spans[i].parent
    BY <1>3, <1>4 DEF SpanRecord
  <1>9. Services'
    BY <1>1, ServicesStay DEF IInv
  <1>10. QED
    BY <1>1, <1>4, <1>6, <1>7, <1>8, <1>9 DEF IInv

LEMMA EndKeepsIInv ==
    ASSUME IInv, NEW k \in Span, End(k)
    PROVE  IInv'
  <1>1. UNCHANGED bootVars
    BY DEF End
  <1>2. /\ \A i \in Span \ {k} : i \in exported' <=> i \in exported
        /\ k \in exported' <=> spans[k].sampled /\ Exporting(k)
    <2>1. ~spans[k].ended /\ k \notin exported
      BY DEF End, IInv, Decided
    <2>2. QED
      BY <2>1 DEF End, Exporting
  <1>3. spans' = [spans EXCEPT ![k].ended = TRUE]
    BY DEF End
  <1>4. spans \in Seq(SpanRecord) /\ spans[k] \in SpanRecord
    BY DEF IInv, Span
  <1>5. /\ Span' = Span
        /\ spans'[k] = [spans[k] EXCEPT !.ended = TRUE]
        /\ \A i \in Span : i # k => spans'[i] = spans[i]
    BY <1>3, <1>4 DEF Span
  <1>6. spans'[k] \in SpanRecord
    BY <1>4, <1>5 DEF SpanRecord
  <1>7. spans' \in Seq(SpanRecord)
    <2>1. spans' = [spans EXCEPT ![k] = spans'[k]]
      BY <1>3, <1>5
    <2>2. QED
      BY <1>4, <1>6, <2>1, ExceptSeq DEF Span
  <1>8. ASSUME NEW i \in Span
        PROVE  Decided(i)'
    <2>1. Decided(i)
      BY DEF IInv
    <2>2. CASE i # k
      <3>1. spans'[i] = spans[i] /\ (i \in exported' <=> i \in exported)
        BY <1>2, <1>5, <2>2
      <3>2. QED
        BY <1>1, <2>1, <3>1, Undisturbed DEF Decided
    <2>3. CASE i = k
      <3>1. /\ spans'[i].service = spans[i].service /\ spans'[i].trace = spans[i].trace
            /\ spans'[i].started = spans[i].started /\ spans'[i].sampled = spans[i].sampled
            /\ spans'[i].marked = spans[i].marked /\ spans'[i].failed = spans[i].failed
        BY <1>4, <1>5, <2>3 DEF SpanRecord
      <3>2. spans'[i].ended /\ (i \in exported' <=> spans[i].sampled /\ Exporting(i))
        BY <1>2, <1>4, <1>5, <2>3 DEF SpanRecord
      <3>3. QED
        BY <1>1, <1>2, <2>1, <3>1, <3>2, Undisturbed DEF Decided
    <2>4. QED
      BY <2>2, <2>3
  <1>9. ASSUME NEW i \in Span
        PROVE  spans'[i].parent = spans[i].parent
    BY <1>4, <1>5 DEF SpanRecord
  <1>10. exported' \subseteq Span'
    BY <1>5 DEF IInv, End
  <1>11. Services'
    BY <1>1, ServicesStay DEF IInv
  <1>12. QED
    BY <1>5, <1>7, <1>8, <1>9, <1>10, <1>11 DEF IInv

LEMMA NextIInv == IInv /\ [Next]_vars => IInv'
  <1> SUFFICES ASSUME IInv, [Next]_vars
               PROVE  IInv'
    OBVIOUS
  <1>1. ASSUME NEW s \in Service, Start(s)
        PROVE  IInv'
    BY <1>1, StartKeepsIInv
  <1>2. ASSUME NEW s \in Service, NEW error \in BOOLEAN, NEW trace \in 0..(Full - 1),
               StartRoot(s, trace, error)
        PROVE  IInv'
    BY <1>2, StartSpanKeepsIInv DEF StartRoot
  <1>3. ASSUME NEW s \in Service, NEW error \in BOOLEAN, NEW parent \in DOMAIN spans,
               StartChild(s, parent, error)
        PROVE  IInv'
    <2>1. spans \in Seq(SpanRecord) /\ parent \in Nat /\ spans[parent] \in SpanRecord
      BY DEF IInv
    <2>2. spans[parent].trace \in 0..(Full - 1)
      BY <2>1 DEF SpanRecord
    <2>3. parent \in {0} \cup Span
      BY DEF Span
    <2>4. QED
      BY <1>3, <2>2, <2>3, StartSpanKeepsIInv DEF StartChild
  <1>4. ASSUME NEW i \in DOMAIN spans, SetError(i)
        PROVE  IInv'
    BY <1>4, SetErrorKeepsIInv DEF Span
  <1>5. ASSUME NEW i \in DOMAIN spans, End(i)
        PROVE  IInv'
    BY <1>5, EndKeepsIInv DEF Span
  <1>6. ASSUME UNCHANGED vars
        PROVE  IInv'
    BY <1>6 DEF vars, bootVars, IInv, Services, Booted, Asked, Span, Decided, Exporting, By
  <1>7. QED
    BY <1>1, <1>2, <1>3, <1>4, <1>5, <1>6 DEF Next

LEMMA SpecIInv == Spec => []IInv
  BY InitIInv, NextIInv, PTL DEF Spec

-----------------------------------------------------------------------------
(* The theorems. *)

(* Services that never speak to each other agree about a trace: what one takes
   for its ratio, every one with a ratio as large takes (ShouldSample,
   tracer/sampling.go). *)
THEOREM ServicesAgree == Spec => []Agreement
  <1>1. ASSUME IInv
        PROVE  Agreement
    <2> SUFFICES ASSUME NEW i \in Span, NEW j \in Span,
                        Exporting(i), Exporting(j), spans[i].trace = spans[j].trace,
                        spans[i].sampled, ~spans[i].started, By(i).base <= By(j).base
                 PROVE  spans[j].sampled
      BY DEF Agreement
    <2>1. Decided(i) /\ Decided(j)
      BY <1>1 DEF IInv
    <2>2. spans[i].trace < By(i).base
      BY <2>1 DEF Decided
    <2>3. /\ spans[i].trace \in Int
          /\ By(i).base \in Int /\ By(j).base \in Int
      <3>1. spans[i] \in SpanRecord
        BY <1>1 DEF IInv, Span
      <3>2. By(i).base \in 0..Full /\ By(j).base \in 0..Full
        BY <1>1, <2>1, RunningSampler DEF Decided, By
      <3>3. QED
        BY <3>1, <3>2, FullAssumption DEF SpanRecord
    <2>4. spans[j].trace < By(j).base
      BY <2>2, <2>3
    <2>5. spans[j] \in SpanRecord
      BY <1>1 DEF IInv, Span
    <2>6. spans[j].sampled = TRUE
      BY <2>1, <2>4, <2>5 DEF Decided, SpanRecord
    <2>7. QED
      BY <2>6
  <1>2. QED
    BY <1>1, SpecIInv, PTL

(* What starts as an error is exported with its mark wherever AlwaysSampleErrors
   is on (ErrorSampler, tracer/sampling.go). *)
THEOREM ErrorsReachExporter == Spec => []ErrorsAtStartExported
  <1>1. ASSUME IInv
        PROVE  ErrorsAtStartExported
    <2> SUFFICES ASSUME NEW i \in Span, spans[i].started, spans[i].ended, Exporting(i),
                        cfg[spans[i].service].errors
                 PROVE  i \in exported /\ spans[i].marked
      BY DEF ErrorsAtStartExported
    <2>1. Decided(i)
      BY <1>1 DEF IInv
    <2>2. By(i).errors
      BY <1>1, <2>1, RunningSampler DEF Decided, By
    <2>3. spans[i].sampled
      BY <2>1, <2>2 DEF Decided
    <2>4. QED
      BY <2>1, <2>3 DEF Decided
  <1>2. QED
    BY <1>1, SpecIInv, PTL

(* From the variables and the Config to the sampler: the ratio they ask for, an
   argument before a sampler's name and both before the Config, decides about
   every span, but for errors known at the start and a ratio of 0, which New
   takes for unset (ConfigFromEnv, env.go; New, telemetry.go; SamplerFromConfig,
   internal/export/export.go; ShouldSample, tracer/sampling.go). *)
THEOREM RatioObeyed == Spec => []RatioAsAsked
  <1>1. ASSUME IInv
        PROVE  RatioAsAsked
    <2> SUFFICES ASSUME NEW i \in Span, Exporting(i)
                 PROVE  LET service == setting[spans[i].service]
                            asked   == RatioAsked(service.env, service.cfg)
                        IN  spans[i].sampled <=>
                              \/ service.cfg.errors /\ spans[i].started
                              \/ asked = 0 \/ spans[i].trace < asked
      BY DEF RatioAsAsked
    <2>1. PICK s : s = spans[i].service
      OBVIOUS
    <2>2. Decided(i) /\ s \in up /\ spans[i] \in SpanRecord
      BY <1>1, <2>1 DEF IInv, Decided, Span
    <2>3. PICK env, app : env = setting[s].env /\ app = setting[s].cfg
      OBVIOUS
    <2>4. env \in Environment /\ app \in ConfigRecord /\ s \in Service
      BY <1>1, <2>2, <2>3, RunningConfig, AskedTyped DEF IInv, Services
    <2>5. PICK ratio : ratio = RatioAsked(env, app)
      OBVIOUS
    <2>6. Asked(s).errors = app.errors /\ Asked(s).ratio = ratio
      BY <2>3, <2>4, <2>5, EnvStep DEF Asked
    <2>7. sampler[s].errors = app.errors
      <3>1. Same(Asked(s), cfg[s], {"ratio"}) /\ sampler[s].errors = cfg[s].errors
        BY <1>1, <2>2, RunningConfig, RunningSampler
      <3>2. QED
        BY <2>6, <3>1 DEF Same, Fields
    <2>8. spans[i].trace < sampler[s].base <=> ratio = 0 \/ spans[i].trace < ratio
      <3>1. \A t \in 0..(Full - 1) : t < sampler[s].base <=> Asked(s).ratio = 0 \/ t < Asked(s).ratio
        BY <1>1, <2>2, RunningSampler
      <3>2. spans[i].trace \in 0..(Full - 1)
        BY <2>2 DEF SpanRecord
      <3>3. QED
        BY <2>6, <3>1, <3>2
    <2>9. spans[i].sampled = ((sampler[s].errors /\ spans[i].started)
                                \/ spans[i].trace < sampler[s].base)
      BY <2>1, <2>2 DEF Decided, By
    <2>10. QED
      BY <2>1, <2>3, <2>5, <2>7, <2>8, <2>9
  <1>2. QED
    BY <1>1, SpecIInv, PTL

(* Every variable keeps to its type, the Config through ConfigFromEnv too, and
   the resource of a service is a map from names to values (New, telemetry.go);
   only a sampled span carries a mark. *)
THEOREM TypeCorrect == Spec => []TypeOK
  <1>1. ASSUME IInv
        PROVE  TypeOK
    <2>1. ASSUME NEW s \in up
          PROVE  resource[s] \in Attributes
      <3>1. cfg[s] \in ConfigRecord
        BY <1>1, RunningConfig
      <3>2. resource[s] = Resource(cfg[s]) /\ cfg[s].name # ""
        BY <1>1 DEF IInv, Services, Booted, Refuses
      <3>3. QED
        BY <3>1, <3>2, ResourceOf
    <2>2. /\ cfg \in [Service -> ConfigRecord]
          /\ sampler \in [Service -> [base : 0..Full, errors : BOOLEAN]]
      BY <1>1 DEF IInv, Services, Sampler
    <2>3. ASSUME NEW i \in Span
          PROVE  /\ spans[i].parent \in 0..(i - 1) /\ spans[i].trace \in 0..(Full - 1)
                 /\ spans[i].marked => spans[i].failed /\ spans[i].sampled
      <3>1. i \in Nat /\ spans[i] \in SpanRecord
        BY <1>1 DEF IInv, Span
      <3>2. spans[i].parent \in Nat /\ spans[i].trace \in 0..(Full - 1)
        BY <3>1 DEF SpanRecord
      <3>3. spans[i].parent < i /\ Decided(i)
        BY <1>1 DEF IInv
      <3>4. spans[i].parent \in 0..(i - 1)
        BY <3>1, <3>2, <3>3
      <3>5. QED
        BY <3>2, <3>3, <3>4 DEF Decided
    <2>4. up \subseteq Service /\ refused \subseteq Service \ up /\ exported \subseteq Span
      BY <1>1 DEF IInv, Services
    <2>5. QED
      BY <2>1, <2>2, <2>3, <2>4 DEF TypeOK
  <1>2. QED
    BY <1>1, SpecIInv, PTL

(* Each resource attribute has the last value OTEL_RESOURCE_ATTRIBUTES gives it,
   or else the application's, and the resource says the service's name where
   neither does (ConfigFromEnv, env.go; New, telemetry.go). *)
LEMMA AttributesObeyed == IInv => AttributesAsAsked
  <1> SUFFICES ASSUME IInv, NEW s \in up, NEW k \in Text
               PROVE  LET env == setting[s].env
                          app == setting[s].cfg
                          P == {i \in DOMAIN env.attrs : env.attrs[i][1] = k}
                          name == IF env.name # "" THEN env.name ELSE app.name
                      IN  IF P # {} THEN resource[s][k] = env.attrs[Max(P)][2]
                          ELSE IF k \in DOMAIN app.attrs THEN resource[s][k] = app.attrs[k]
                          ELSE IF k = "service.name" THEN resource[s][k] = name
                          ELSE k \notin DOMAIN resource[s]
    BY DEF AttributesAsAsked
  <1>1. PICK env, app : env = setting[s].env /\ app = setting[s].cfg
    OBVIOUS
  <1>2. PICK c, r : c = cfg[s] /\ r = resource[s]
    OBVIOUS
  <1>3. env \in Environment /\ app \in ConfigRecord /\ c \in ConfigRecord
    BY <1>1, <1>2, RunningConfig, AskedTyped DEF IInv, Services
  <1>4. /\ c.attrs = Merged(app.attrs, env.attrs)
        /\ c.name = IF env.name = "" THEN app.name ELSE env.name
    <2>1. Asked(s) = ConfigFromEnv(env, app)
      BY <1>1 DEF Asked
    <2>2. Same(Asked(s), c, {"ratio"})
      BY <1>2, RunningConfig
    <2>3. c.attrs = Asked(s).attrs /\ c.name = Asked(s).name
      BY <2>2 DEF Same, Fields
    <2>4. /\ ConfigFromEnv(env, app).attrs = Merged(app.attrs, env.attrs)
          /\ ConfigFromEnv(env, app).name = IF env.name = "" THEN app.name ELSE env.name
      BY <1>3, EnvStep
    <2>5. QED
      BY <2>1, <2>3, <2>4
  <1>5. r = Resource(c) /\ c.name # ""
    BY <1>2 DEF IInv, Services, Booted, Refuses
  <1>6. /\ \A x \in Text : x \in DOMAIN c.attrs => r[x] = c.attrs[x]
        /\ "service.name" \notin DOMAIN c.attrs => r["service.name"] = c.name
        /\ \A x \in Text \ {"service.name"} : x \notin DOMAIN c.attrs => x \notin DOMAIN r
    BY <1>3, <1>5, ResourceOf
  <1> DEFINE n == Len(env.attrs)
             P == {i \in DOMAIN env.attrs : env.attrs[i][1] = k}
  <1>7. /\ env.attrs \in Seq(Cell) /\ app.attrs \in Attributes
        /\ DOMAIN env.attrs = 1..n /\ n \in Nat
    <2>1. env.attrs \in Seq(Cell)
      BY <1>3 DEF Environment, Cell
    <2>2. app.attrs \in Attributes
      BY <1>3 DEF ConfigRecord
    <2>3. DOMAIN env.attrs = 1..n /\ n \in Nat
      BY <2>1
    <2>4. QED
      BY <2>1, <2>2, <2>3
  <1>8. Layered(app.attrs, env.attrs, n, c.attrs)
    BY <1>4, <1>7, MergedLayered
  <1>9. CASE P # {}
    <2>1. P \subseteq 1..n
      BY <1>7
    <2>2. Max(P) \in P /\ \A i \in P : i <= Max(P)
      <3> HIDE DEF P, n
      <3>1. QED
        BY <1>7, <1>9, <2>1, MaxOf
    <2>3. PICK m : m = Max(P)
      OBVIOUS
    <2>4. m \in 1..n /\ env.attrs[m][1] = k /\ \A j \in (m + 1)..n : env.attrs[j][1] # k
      <3>1. m \in P /\ \A i \in P : i <= m
        BY <2>2, <2>3
      <3>2. ASSUME NEW j \in (m + 1)..n, env.attrs[j][1] = k
            PROVE  FALSE
        <4>1. m \in 1..n
          BY <2>1, <3>1
        <4>2. j \in 1..n /\ ~(j <= m)
          BY <1>7, <4>1
        <4>3. j \in P
          BY <1>7, <3>2, <4>2
        <4>4. QED
          BY <3>1, <4>2, <4>3
      <3>3. QED
        BY <2>1, <3>1, <3>2
    <2>5. k \in DOMAIN c.attrs /\ c.attrs[k] = env.attrs[m][2]
      BY <1>8, <2>4 DEF Layered
    <2>6. r[k] = env.attrs[Max(P)][2]
      BY <1>6, <2>3, <2>5
    <2>7. QED
      BY <1>1, <1>2, <1>9, <2>6
  <1>10. CASE P = {}
    <2>1. \A i \in 1..n : env.attrs[i][1] # k
      BY <1>7, <1>10
    <2>2. /\ k \in DOMAIN c.attrs <=> k \in DOMAIN app.attrs
          /\ k \in DOMAIN app.attrs => c.attrs[k] = app.attrs[k]
      BY <1>8, <2>1 DEF Layered
    <2>3. k \in DOMAIN app.attrs => r[k] = app.attrs[k]
      BY <1>6, <2>2
    <2>4. k \notin DOMAIN app.attrs /\ k = "service.name" =>
            r[k] = IF env.name # "" THEN env.name ELSE app.name
      BY <1>4, <1>5, <1>6, <2>2
    <2>5. k \notin DOMAIN app.attrs /\ k # "service.name" => k \notin DOMAIN r
      BY <1>6, <2>2
    <2>6. QED
      BY <1>1, <1>2, <1>10, <2>3, <2>4, <2>5
  <1>11. QED
    BY <1>9, <1>10

(* What the names of the environment come to, said with KnownExporters. *)
LEMMA KnownIsListed ==
    ASSUME NEW env \in Environment
    PROVE  LET known == KnownExporters(env)
           IN  known \in Seq(ExporterType) /\ Lists(known, env) /\ Len(known) = Cardinality(Named(env))
  BY KnownTyped, NamesTakenInOrder DEF Environment, Lists, Named

(* Spans and metrics go where the environment names one exporter or several, or
   else where the application says, and whoever runs has the endpoint it needs
   (ConfigFromEnv, env.go; New, telemetry.go). *)
LEMMA ExportersObeyed == IInv => ExportersAsAsked
  <1> SUFFICES ASSUME IInv, NEW s \in up
               PROVE  LET env == setting[s].env
                          app == setting[s].cfg
                          named == Cardinality(Named(env))
                          traces == TraceExporters(cfg[s])
                          metrics == MetricExporter(cfg[s])
                      IN  /\ IF named > 1 \/ (named = 1 /\ app.exporters = <<>>)
                               THEN Lists(traces, env)
                               ELSE traces = IF app.exporters # <<>> THEN app.exporters
                                             ELSE <<app.exporter>>
                          /\ IF app.metric = "" /\ named = 1 THEN Lists(<<metrics>>, env)
                             ELSE metrics = IF app.metric # "" THEN app.metric ELSE app.exporter
                          /\ cfg[s].endpoint = (app.endpoint \/ env.endpoint)
                          /\ cfg[s].insecure = (app.insecure \/ env.insecure)
                          /\ ~cfg[s].endpoint => "otlp" \notin Range(Append(traces, metrics))
    BY DEF ExportersAsAsked
  <1>1. PICK env, app : env = setting[s].env /\ app = setting[s].cfg
    OBVIOUS
  <1>2. PICK c, known : c = cfg[s] /\ known = KnownExporters(env)
    OBVIOUS
  <1>3. env \in Environment /\ app \in ConfigRecord
    BY <1>1, RunningConfig, AskedTyped DEF IInv, Services
  <1>4. /\ c.endpoint = (app.endpoint \/ env.endpoint) /\ c.insecure = (app.insecure \/ env.insecure)
        /\ c.metric = app.metric
        /\ IF Len(known) = 1 THEN <<c.exporter>> = known ELSE c.exporter = app.exporter
        /\ c.exporters = IF Len(known) > 1 THEN known ELSE app.exporters
    <2>1. Asked(s) = ConfigFromEnv(env, app)
      BY <1>1 DEF Asked
    <2>2. Same(Asked(s), c, {"ratio"})
      BY <1>2, RunningConfig
    <2>3. /\ c.endpoint = Asked(s).endpoint /\ c.insecure = Asked(s).insecure
          /\ c.exporter = Asked(s).exporter /\ c.exporters = Asked(s).exporters
          /\ c.metric = Asked(s).metric
      BY <2>2 DEF Same, Fields
    <2> DEFINE d == ConfigFromEnv(env, app)
               names == KnownExporters(env)
    <2>4. /\ d.endpoint = (app.endpoint \/ env.endpoint) /\ d.insecure = (app.insecure \/ env.insecure)
          /\ d.metric = app.metric
          /\ IF Len(names) = 1 THEN <<d.exporter>> = names ELSE d.exporter = app.exporter
          /\ d.exporters = IF Len(names) > 1 THEN names ELSE app.exporters
      BY <1>3, EnvStep
    <2> HIDE DEF d
    <2>5. QED
      BY <1>2, <2>1, <2>3, <2>4 DEF d
  <1>5. known \in Seq(ExporterType) /\ Lists(known, env) /\ Len(known) = Cardinality(Named(env))
    BY <1>2, <1>3, KnownIsListed
  <1>6. PICK named : named = Cardinality(Named(env)) /\ named = Len(known) /\ named \in Nat
    BY <1>5
  <1>7. IF named > 1 \/ (named = 1 /\ app.exporters = <<>>) THEN TraceExporters(c) = known
        ELSE TraceExporters(c) = IF app.exporters # <<>> THEN app.exporters ELSE <<app.exporter>>
    <2>1. CASE named > 1
      <3>1. known # <<>>
        BY <1>5, <1>6, <2>1
      <3>2. QED
        BY <1>4, <1>6, <2>1, <3>1 DEF TraceExporters
    <2>2. CASE named = 1
      BY <1>4, <1>6, <2>2 DEF TraceExporters
    <2>3. CASE named = 0
      BY <1>4, <1>6, <2>3 DEF TraceExporters
    <2>4. QED
      BY <1>6, <2>1, <2>2, <2>3
  <1>8. IF app.metric = "" /\ named = 1 THEN <<MetricExporter(c)>> = known
        ELSE MetricExporter(c) = IF app.metric # "" THEN app.metric ELSE app.exporter
    BY <1>4, <1>6 DEF MetricExporter
  <1>9. c.endpoint \/ "otlp" \notin Range(Append(TraceExporters(c), MetricExporter(c)))
    BY <1>2 DEF IInv, Services, Booted, Refuses
  <1>10. QED
    BY <1>1, <1>2, <1>4, <1>5, <1>6, <1>7, <1>8, <1>9

(* The level is the one asked for. *)
LEMMA LevelObeyed == IInv => LevelAsAsked
  <1> SUFFICES ASSUME IInv, NEW s \in up
               PROVE  cfg[s].level = LevelAsked(setting[s].env, setting[s].cfg)
    BY DEF LevelAsAsked, LevelAsked
  <1>1. PICK env, app : env = setting[s].env /\ app = setting[s].cfg
    OBVIOUS
  <1>2. env \in Environment /\ app \in ConfigRecord /\ Asked(s) = ConfigFromEnv(env, app)
    BY <1>1, RunningConfig, AskedTyped DEF IInv, Services, Asked
  <1>3. Asked(s).level = LevelAsked(env, app)
    <2> DEFINE d == ConfigFromEnv(env, app)
    <2>1. d.level = LevelAsked(env, app)
      BY <1>2, EnvStep
    <2> HIDE DEF d
    <2>2. QED
      BY <1>2, <2>1 DEF d
  <1>4. cfg[s].level = Asked(s).level
    BY RunningConfig DEF Same, Fields
  <1>5. QED
    BY <1>1, <1>3, <1>4

(* A service is what its environment and, where that is silent, its Config ask
   for: resource, exporters, endpoint, level and ratio (ConfigFromEnv, env.go; New,
   telemetry.go; SamplerFromConfig, internal/export/export.go). *)
THEOREM ConfigObeyed == Spec => []AsAsked
  <1>1. Spec => []AttributesAsAsked
    BY AttributesObeyed, SpecIInv, PTL
  <1>2. Spec => []ExportersAsAsked
    BY ExportersObeyed, SpecIInv, PTL
  <1>3. Spec => []LevelAsAsked
    BY LevelObeyed, SpecIInv, PTL
  <1>4. AttributesAsAsked /\ ExportersAsAsked /\ LevelAsAsked /\ RatioAsAsked => AsAsked
    BY DEF AsAsked
  <1>5. QED
    BY <1>1, <1>2, <1>3, <1>4, RatioObeyed, PTL

(* What is exported, said in terms of the variables and of the Config alone: a
   span that started as an error where AlwaysSampleErrors is on, one whose
   trace is below the ratio - and every span where that ratio is 0, which New
   takes for unset.  What is recorded after the start plays no part. *)
ExportedExactly ==
    \A i \in Span :
        LET env   == setting[spans[i].service].env
            app   == setting[spans[i].service].cfg
            ratio == RatioAsked(env, app)
        IN  i \in exported <=>
              ( /\ spans[i].ended /\ Exporting(i)
                /\ (app.errors /\ spans[i].started) \/ ratio = 0 \/ spans[i].trace < ratio )

(* Every span a Provider exports and every one it does not (telemetry.go: the
   defaults of New; SamplerFromConfig, internal/export/export.go; ShouldSample,
   tracer/sampling.go); in particular always_off exports everything. *)
THEOREM ExportsExplained == Spec => []ExportedExactly
  <1>1. ASSUME IInv, RatioAsAsked
        PROVE  ExportedExactly
    <2>1. ASSUME NEW i \in Span
          PROVE  i \in exported <=> spans[i].sampled /\ spans[i].ended /\ Exporting(i)
      BY <1>1 DEF IInv, Decided
    <2>2. QED
      BY <1>1, <2>1 DEF RatioAsAsked, ExportedExactly
  <1>2. QED
    BY <1>1, SpecIInv, RatioObeyed, PTL
==============================================================================
