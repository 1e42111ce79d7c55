----------------------------- MODULE RtbfProofs -----------------------------
(***************************************************************************)
(* Theorems about Rtbf, for every set of posts, jobs and erasures, every   *)
(* document, source and subject, and every size of the cache.              *)
(***************************************************************************)
EXTENDS Rtbf, FiniteSetTheorems, SequenceTheorems, TLAPS

-----------------------------------------------------------------------------
(* The filter of embed_batch.  Every rank up to the number of places is    *)
(* the rank of a place: ranks differ, and there are as many as places.     *)
LEMMA NthIsPlace ==
    ASSUME NEW at \in SUBSET Nat, IsFiniteSet(at), NEW n \in 1..Cardinality(at)
    PROVE  Nth(at, n) \in at /\ Cardinality({k \in at : k <= Nth(at, n)}) = n
  <1> DEFINE upTo(i) == {k \in at : k <= i}
             rank == [i \in at |-> Cardinality(upTo(i))]
  <1>1. PICK m \in Nat : m = Cardinality(at)
    BY FS_CardinalityType
  <1>2. IsFiniteSet(1..m) /\ Cardinality(1..m) = m
    BY FS_Interval
  <1>3. ASSUME NEW i \in at
        PROVE  IsFiniteSet(upTo(i)) /\ Cardinality(upTo(i)) \in 1..m
    <2>1. upTo(i) \subseteq at /\ i \in upTo(i)
      OBVIOUS
    <2>2. IsFiniteSet(upTo(i)) /\ Cardinality(upTo(i)) <= m /\ Cardinality(upTo(i)) \in Nat
      BY <1>1, <2>1, FS_Subset, FS_CardinalityType
    <2>3. Cardinality(upTo(i)) # 0
      BY <2>1, <2>2, FS_EmptySet
    <2>4. QED
      BY <1>1, <2>2, <2>3
  <1>4. ASSUME NEW i \in at, NEW j \in at, i < j PROVE rank[i] # rank[j]
    <2>1. upTo(i) \subseteq upTo(j) /\ j \in upTo(j) /\ j \notin upTo(i)
      <3>1. i \in Nat /\ j \in Nat /\ \A k \in at : k \in Nat
        OBVIOUS
      <3>2. \A a, b, c \in Nat : (a <= b /\ b < c => a <= c) /\ (a < b => ~(b <= a)) /\ a <= a
        OBVIOUS
      <3>3. \A k \in at : k <= i => k <= j
        BY <1>4, <3>1, <3>2
      <3>4. j <= j /\ ~(j <= i)
        BY <1>4, <3>1, <3>2
      <3>5. QED
        BY <3>3, <3>4
    <2>2. Cardinality(upTo(i)) # Cardinality(upTo(j))
      BY <1>3, <2>1, FS_Subset
    <2>3. QED
      BY <2>2
  <1>5. rank \in Injection(at, 1..m)
    <2>1. rank \in [at -> 1..m]
      BY <1>3
    <2>2. ASSUME NEW i \in at, NEW j \in at, i # j PROVE rank[i] # rank[j]
      <3> HIDE DEF rank
      <3>1. i < j \/ j < i
        <4>1. i \in Nat /\ j \in Nat
          OBVIOUS
        <4>2. QED
          BY <2>2, <4>1
      <3>2. CASE i < j
        BY <1>4, <3>2
      <3>3. CASE j < i
        BY <1>4, <3>3
      <3>4. QED
        BY <3>1, <3>2, <3>3
    <2>3. QED
      BY <2>1, <2>2 DEF Injection, IsInjective
  <1>6. rank \in Surjection(at, 1..m)
    BY <1>1, <1>2, <1>5, FS_Injection
  <1>7. \E i \in at : rank[i] = n
    BY <1>1, <1>6 DEF Surjection
  <1>8. \E i \in at : Cardinality({k \in at : k <= i}) = n
    BY <1>7
  <1>9. QED
    BY <1>8 DEF Nth

LEMMA PresentFacts ==
    ASSUME NEW S, None \notin S, NEW found \in Seq(S \union {None})
    PROVE  /\ Present(found) \in Seq(S) /\ Len(Present(found)) <= Len(found)
           /\ (\A i \in DOMAIN found : found[i] # None) =>
                  Len(Present(found)) = Len(found) /\ \A i \in DOMAIN found : Present(found)[i] = found[i]
  <1> DEFINE at == Places(found)
  <1>1. PICK l \in Nat : l = Len(found) /\ DOMAIN found = 1..l
    OBVIOUS
  <1>2. IsFiniteSet(1..l) /\ Cardinality(1..l) = l
    BY FS_Interval
  <1>3. at \subseteq 1..l /\ at \subseteq Nat /\ \A i \in at : found[i] \in S
    BY <1>1 DEF Places
  <1>4. IsFiniteSet(at) /\ Cardinality(at) <= l /\ Cardinality(at) \in Nat
    BY <1>2, <1>3, FS_Subset, FS_CardinalityType
  <1>5. PICK m \in Nat : m = Cardinality(at)
    BY <1>4
  <1>6. \A n \in 1..m : Nth(at, n) \in at /\ Cardinality({k \in at : k <= Nth(at, n)}) = n
    BY <1>3, <1>4, <1>5, NthIsPlace
  <1>7. Present(found) = [n \in 1..m |-> found[Nth(at, n)]]
    BY <1>5 DEF Present
  <1> HIDE DEF at
  <1>8. Present(found) \in Seq(S) /\ Len(Present(found)) = m
    <2>1. \A n \in 1..m : found[Nth(at, n)] \in S
      BY <1>3, <1>6
    <2>2. [n \in 1..m |-> found[Nth(at, n)]] \in [1..m -> S]
      BY <2>1
    <2>3. \A f \in [1..m -> S] : f \in Seq(S) /\ Len(f) = m
      BY <1>5
    <2>4. QED
      BY <1>7, <2>2, <2>3
  <1>9. ASSUME \A i \in DOMAIN found : found[i] # None
        PROVE  Len(Present(found)) = Len(found) /\ \A i \in DOMAIN found : Present(found)[i] = found[i]
    <2>1. at = 1..l
      BY <1>1, <1>9 DEF at, Places
    <2>2. m = l
      BY <1>2, <1>5, <2>1
    <2>3. ASSUME NEW n \in 1..l PROVE Nth(at, n) = n
      <3>1. PICK i \in 1..l : i = Nth(at, n)
        BY <1>6, <2>1, <2>2
      <3>2. {k \in at : k <= i} = 1..i
        BY <2>1
      <3>3. Cardinality(1..i) = i
        BY FS_Interval
      <3>4. QED
        BY <1>6, <2>2, <3>1, <3>2, <3>3
    <2>4. QED
      BY <1>1, <1>7, <1>8, <2>2, <2>3
  <1>10. QED
    BY <1>1, <1>4, <1>5, <1>8, <1>9

-----------------------------------------------------------------------------
(* The cache: an entry for a text at most, and the text's own vector.      *)
CacheOK(c) ==
    /\ c \in Seq([text : AllTexts, vec : AllTexts]) /\ Len(c) <= MaxCache
    /\ \A i \in 1..Len(c) : c[i].vec = c[i].text
    /\ \A i, k \in 1..Len(c) : c[i].text = c[k].text => i = k

LEMMA Limits == MaxCache \in Nat /\ Evicted \in Nat /\ 1 <= Evicted /\ Evicted <= MaxCache
  BY RtbfAssumption

LEMMA EntryOf ==
    ASSUME NEW t \in AllTexts
    PROVE  [text |-> t, vec |-> t] \in [text : AllTexts, vec : AllTexts]
  OBVIOUS

LEMMA SeqFacts ==
    ASSUME NEW S, NEW q \in Seq(S)
    PROVE  Len(q) \in Nat /\ DOMAIN q = 1..Len(q) /\ \A i \in 1..Len(q) : q[i] \in S
  OBVIOUS

LEMMA CacheDropsOldest ==
    ASSUME NEW c, CacheOK(c), Len(c) >= MaxCache
    PROVE  CacheOK(SubSeq(c, Evicted + 1, Len(c))) /\ Len(SubSeq(c, Evicted + 1, Len(c))) < MaxCache
  <1> DEFINE E == [text : AllTexts, vec : AllTexts]
             kept == SubSeq(c, Evicted + 1, Len(c))
  <1>1. PICK l \in Nat : l = Len(c) /\ l = MaxCache
    BY Limits DEF CacheOK
  <1>2. c \in Seq(E) /\ \A i \in 1..l : c[i] \in E
    <2>1. c \in Seq(E)
      BY DEF CacheOK
    <2> HIDE DEF E
    <2>2. QED
      BY <1>1, <2>1, SeqFacts
  <1> HIDE DEF E
  <1>3. kept \in Seq(E) /\ Len(kept) = l - Evicted
        /\ \A i \in 1..(l - Evicted) : kept[i] = c[Evicted + i]
    <2>1. \A i \in Evicted + 1 .. l : c[i] \in E
      BY <1>1, <1>2, Limits
    <2>2. kept = [i \in 1..(l - Evicted) |-> c[Evicted + i]]
      BY <1>1, Limits
    <2>3. \A i \in 1..(l - Evicted) : Evicted + i \in 1..l
      BY <1>1, Limits
    <2>4. kept \in [1..(l - Evicted) -> E] /\ l - Evicted \in Nat
      <3>1. \A i \in 1..(l - Evicted) : c[Evicted + i] \in E
        BY <1>2, <2>3
      <3>2. l - Evicted \in Nat
        BY <1>1, Limits
      <3> HIDE DEF kept
      <3>3. QED
        BY <2>2, <3>1, <3>2
    <2>5. \A n \in Nat : \A f \in [1..n -> E] : f \in Seq(E) /\ Len(f) = n
      OBVIOUS
    <2> HIDE DEF kept
    <2>6. QED
      BY <2>2, <2>4, <2>5
  <1> HIDE DEF kept
  <1>4. \A i \in 1..(l - Evicted) : Evicted + i \in 1..l
    BY <1>1, Limits
  <1>5. \A i \in 1..Len(kept) : kept[i].vec = kept[i].text
    BY <1>1, <1>3, <1>4 DEF CacheOK
  <1>6. ASSUME NEW i \in 1..Len(kept), NEW k \in 1..Len(kept), kept[i].text = kept[k].text
        PROVE  i = k
    <2>1. Evicted + i = Evicted + k
      <3>1. Evicted + i \in 1..Len(c) /\ Evicted + k \in 1..Len(c)
        BY <1>1, <1>3, <1>4
      <3>2. c[Evicted + i].text = c[Evicted + k].text
        BY <1>3, <1>6
      <3> DEFINE m == Evicted + i
                 n == Evicted + k
      <3> HIDE DEF m, n
      <3>3. m \in 1..Len(c) /\ n \in 1..Len(c) /\ c[m].text = c[n].text
        BY <3>1, <3>2 DEF m, n
      <3>4. m = n
        BY <3>3, Zenon DEF CacheOK
      <3>5. QED
        BY <3>4 DEF m, n
    <2>2. i \in Nat /\ k \in Nat
      BY <1>1, <1>3, Limits
    <2>3. QED
      BY <2>1, <2>2, Limits
  <1>7. Len(kept) < MaxCache
    BY <1>1, <1>3, Limits
  <1>8. kept \in Seq([text : AllTexts, vec : AllTexts])
    BY <1>3 DEF E
  <1>9. QED
    BY <1>5, <1>6, <1>7, <1>8, <1>3, <1>1, Limits DEF CacheOK, kept

(* The entry of a text is replaced where it is, or added at the end.       *)
LEMMA CacheReplaces ==
    ASSUME NEW c, CacheOK(c), NEW t \in AllTexts, NEW i \in 1..Len(c), c[i].text = t
    PROVE  [k \in DOMAIN c |-> IF k \in {x \in DOMAIN c : c[x].text = t}
                               THEN [text |-> t, vec |-> t] ELSE c[k]] = c
  <1> DEFINE E == [text : AllTexts, vec : AllTexts]
  <1>1. c \in Seq(E) /\ DOMAIN c = 1..Len(c) /\ \A k \in 1..Len(c) : c[k] \in E
    <2>1. c \in Seq(E)
      BY DEF CacheOK
    <2> HIDE DEF E
    <2>2. QED
      BY <2>1, SeqFacts
  <1>2. ASSUME NEW k \in DOMAIN c, c[k].text = t PROVE c[k] = [text |-> t, vec |-> t]
    <2>1. c[k] \in E /\ c[k].vec = c[k].text
      BY <1>1 DEF CacheOK
    <2>2. QED
      BY <1>2, <2>1
  <1>3. c = [k \in DOMAIN c |-> c[k]]
    BY <1>1
  <1>4. QED
    BY <1>2, <1>3

LEMMA CacheAppends ==
    ASSUME NEW c, CacheOK(c), Len(c) < MaxCache, NEW t \in AllTexts,
           \A i \in DOMAIN c : c[i].text # t
    PROVE  CacheOK(Append(c, [text |-> t, vec |-> t]))
  <1> DEFINE E == [text : AllTexts, vec : AllTexts]
             new == [text |-> t, vec |-> t]
             d == Append(c, new)
  <1>1. PICK l \in Nat : l = Len(c) /\ DOMAIN c = 1..l /\ l < MaxCache
    BY SeqFacts DEF CacheOK
  <1>2. new \in E /\ new.text = t /\ new.vec = t
    BY EntryOf
  <1>3. c \in Seq(E)
    BY DEF CacheOK
  <1> HIDE DEF E, new
  <1>4. d \in Seq(E) /\ Len(d) = l + 1 /\ d[l + 1] = new /\ \A i \in 1..l : d[i] = c[i]
    BY <1>1, <1>2, <1>3
  <1> HIDE DEF d
  <1>5. \A i \in 1..(l + 1) : i \in 1..l \/ i = l + 1
    BY <1>1
  <1>6. \A i \in 1..Len(d) : d[i].vec = d[i].text
    BY <1>1, <1>2, <1>4, <1>5 DEF CacheOK
  <1>7. \A i \in 1..l : d[i].text # d[l + 1].text
    BY <1>1, <1>2, <1>4
  <1>8. \A i, k \in 1..l : d[i].text = d[k].text => i = k
    BY <1>1, <1>4 DEF CacheOK
  <1>9. \A i, k \in 1..Len(d) : d[i].text = d[k].text => i = k
    BY <1>4, <1>5, <1>7, <1>8
  <1>10. Len(d) <= MaxCache
    BY <1>1, <1>4, Limits
  <1>11. QED
    BY <1>4, <1>6, <1>9, <1>10 DEF CacheOK, E, d, new

LEMMA CachePutOK ==
    ASSUME NEW c, CacheOK(c), NEW t \in AllTexts
    PROVE  CacheOK(CachePut(c, t, t))
  <1> DEFINE kept == IF Len(c) >= MaxCache THEN SubSeq(c, Evicted + 1, Len(c)) ELSE c
             at == {i \in DOMAIN kept : kept[i].text = t}
  <1>1. CacheOK(kept) /\ Len(kept) < MaxCache
    <2>1. CASE Len(c) >= MaxCache
      BY <2>1, CacheDropsOldest
    <2>2. CASE ~(Len(c) >= MaxCache)
      BY <2>2, Limits DEF CacheOK
    <2>3. QED
      BY <2>1, <2>2
  <1>2. DOMAIN kept = 1..Len(kept)
    BY <1>1 DEF CacheOK
  <1>3. CachePut(c, t, t) =
            IF at = {} THEN Append(kept, [text |-> t, vec |-> t])
            ELSE [i \in DOMAIN kept |-> IF i \in at THEN [text |-> t, vec |-> t] ELSE kept[i]]
    BY DEF CachePut
  <1> HIDE DEF kept
  <1>4. CASE at = {}
    <2>1. \A i \in DOMAIN kept : kept[i].text # t
      BY <1>4
    <2>2. QED
      BY <1>1, <1>3, <1>4, <2>1, CacheAppends
  <1>5. CASE at # {}
    <2>1. PICK i \in 1..Len(kept) : kept[i].text = t
      BY <1>2, <1>5
    <2>2. [k \in DOMAIN kept |-> IF k \in at THEN [text |-> t, vec |-> t] ELSE kept[k]] = kept
      BY <1>1, <2>1, CacheReplaces
    <2>3. QED
      BY <1>1, <1>3, <1>5, <2>2
  <1>6. QED
    BY <1>4, <1>5

LEMMA CacheTexts ==
    ASSUME NEW c, CacheOK(c)
    PROVE  Cardinality({e.text : e \in Range(c)}) = Len(c)
  <1> DEFINE T == {e.text : e \in Range(c)}
             f == [i \in 1..Len(c) |-> c[i].text]
  <1>1. PICK l \in Nat : l = Len(c) /\ DOMAIN c = 1..l
    BY SeqFacts DEF CacheOK
  <1>2. IsFiniteSet(1..l) /\ Cardinality(1..l) = l
    BY FS_Interval
  <1>3. Range(c) = {c[i] : i \in 1..l}
    BY <1>1 DEF Range
  <1>4. f \in [1..l -> T]
    BY <1>1, <1>3
  <1>5. \A i, k \in 1..l : f[i] = f[k] => i = k
    BY <1>1 DEF CacheOK
  <1>6. \A x \in T : \E i \in 1..l : f[i] = x
    BY <1>1, <1>3
  <1> HIDE DEF f, T
  <1>7. f \in Bijection(1..l, T)
    BY <1>4, <1>5, <1>6 DEF Bijection, Injection, Surjection, IsInjective
  <1>8. Cardinality(T) = Cardinality(1..l)
    BY <1>2, <1>7, FS_Bijection DEF ExistsBijection
  <1>9. QED
    BY <1>1, <1>2, <1>8 DEF T

-----------------------------------------------------------------------------
(* A writer in embed_batch, and between it and its store: what is found is *)
(* the text's own vector, and what is missing was asked for and is still   *)
(* to come, unless the provider's answer was short.                        *)
BatchOf(w, s) == IF w \in Posts THEN <<Texts[w][s.n]>> ELSE Texts[w]
Busy == {"lookup", "encode", "put", "store", "fallback"}
Waiting(s, from) ==
    \A i \in 1..Len(s.found) : s.found[i] = None =>
        \E k \in 1..Len(s.asked) : k > from /\ s.asked[k] = i
Aligned(w, s) ==
    /\ Len(s.found) <= Len(BatchOf(w, s))
    /\ \A i \in 1..Len(s.found) : s.found[i] = None \/ s.found[i] = BatchOf(w, s)[i]
    /\ \A k \in 1..Len(s.asked) : s.asked[k] \in 1..Len(s.found)
Coming(w, s) ==
    /\ s.pc = "lookup" => Len(s.found) < Len(BatchOf(w, s))
    /\ s.pc \in Busy \ {"lookup"} => Len(s.found) = Len(BatchOf(w, s))
    /\ s.pc = "lookup" => s.base = 0 /\ s.puts = 0 /\ Waiting(s, 0)
    /\ s.pc = "encode" => s.base < Len(s.asked) /\ s.puts = 0 /\ (s.short \/ Waiting(s, s.base))
    /\ s.pc = "put" => /\ s.base < Len(s.asked)
                       /\ s.puts < s.got /\ s.got <= Wanted(s)
                       /\ s.short \/ (s.got = Wanted(s) /\ Waiting(s, s.base + s.puts))
    /\ s.pc \in {"store", "fallback"} => s.short \/ \A i \in 1..Len(s.found) : s.found[i] # None
TaskOK(w, s) ==
    /\ s \in Task
    /\ s.pc = "begin" => s = Fresh
    /\ w \in Posts => s.pc # "fallback" /\ (s.pc \in Busy => s.n \in 1..Len(Texts[w]))
    /\ s.pc \in Busy => Aligned(w, s)
    /\ Coming(w, s)

Work == /\ CacheOK(cache)
        /\ task = [w \in Writers |-> task[w]]
        /\ \A w \in Writers : TaskOK(w, task[w])

LEMMA DocumentFacts ==
    ASSUME NEW w \in Writers
    PROVE  /\ Texts[w] \in Seq(AllTexts) /\ Len(Texts[w]) \in Nat
           /\ DOMAIN Texts[w] = 1..Len(Texts[w])
           /\ \A i \in 1..Len(Texts[w]) : Texts[w][i] \in AllTexts
  <1>1. Texts[w] \in Seq(AllTexts)
    BY RtbfAssumption
  <1>2. QED
    BY <1>1, SeqFacts

LEMMA BatchFacts ==
    ASSUME NEW w \in Writers, NEW s, TaskOK(w, s), s.pc \in Busy
    PROVE  /\ BatchOf(w, s) \in Seq(AllTexts) /\ Len(BatchOf(w, s)) \in Nat
           /\ \A i \in 1..Len(BatchOf(w, s)) : BatchOf(w, s)[i] \in AllTexts /\ BatchOf(w, s)[i] # None
           /\ w \in Posts => Len(BatchOf(w, s)) = 1
           /\ w \in Jobs => BatchOf(w, s) = Texts[w]
  <1>1. None \notin AllTexts /\ (w \in Jobs => w \notin Posts)
    BY RtbfAssumption
  <1>2. CASE w \in Posts
    <2>1. s.n \in 1..Len(Texts[w])
      BY <1>2 DEF TaskOK
    <2>2. PICK t \in AllTexts : t = Texts[w][s.n]
      BY <2>1, DocumentFacts
    <2>3. BatchOf(w, s) = <<t>> /\ <<t>> \in Seq(AllTexts) /\ Len(<<t>>) = 1
      BY <1>2, <2>2 DEF BatchOf
    <2>4. QED
      BY <1>1, <1>2, <2>3, SeqFacts
  <1>3. CASE w \notin Posts
    <2>1. BatchOf(w, s) = Texts[w]
      BY <1>3 DEF BatchOf
    <2>2. QED
      BY <1>1, <1>3, <2>1, DocumentFacts
  <1>4. QED
    BY <1>2, <1>3

LEMMA TaskFields ==
    ASSUME NEW s \in Task
    PROVE  /\ s.pc \in WriterPC /\ s.n \in Nat /\ s.got \in Nat /\ s.puts \in Nat
           /\ s.short \in BOOLEAN
           /\ s.found \in Seq(AllTexts \union {None}) /\ Len(s.found) \in Nat
           /\ DOMAIN s.found = 1..Len(s.found)
           /\ s.asked \in Seq(Nat) /\ Len(s.asked) \in Nat /\ s.base \in Nat
           /\ s = [pc |-> s.pc, n |-> s.n, found |-> s.found, asked |-> s.asked,
                   base |-> s.base, got |-> s.got, puts |-> s.puts, short |-> s.short]
  BY SeqFacts DEF Task

LEMMA FreshOK == ASSUME NEW w \in Writers PROVE TaskOK(w, Fresh) /\ Fresh.pc = "begin"
  <1>1. <<>> \in Seq(AllTexts \union {None}) /\ <<>> \in Seq(Nat)
    OBVIOUS
  <1>2. Fresh \in Task
    BY <1>1 DEF Fresh, Task, WriterPC
  <1>3. QED
    BY <1>2 DEF TaskOK, Coming, Fresh, Busy

(* A task that is over, or only moves on to its fallback.                  *)
LEMMA StopOK ==
    ASSUME NEW w \in Writers, NEW s, TaskOK(w, s), NEW pc \in {"done", "failed"}
    PROVE  TaskOK(w, [s EXCEPT !.pc = pc])
  <1> DEFINE to == [s EXCEPT !.pc = pc]
  <1>1. to \in Task /\ to.pc = pc
    BY DEF TaskOK, Task, WriterPC
  <1> HIDE DEF to
  <1>2. TaskOK(w, to)
    BY <1>1 DEF TaskOK, Coming, Busy
  <1>3. QED
    BY <1>2 DEF to

LEMMA FallbackOK ==
    ASSUME NEW w \in Jobs, NEW s, TaskOK(w, s), s.pc = "store"
    PROVE  TaskOK(w, [s EXCEPT !.pc = "fallback"])
  <1> DEFINE to == [s EXCEPT !.pc = "fallback"]
  <1>1. /\ to \in Task /\ to.pc = "fallback" /\ to.found = s.found /\ to.asked = s.asked
        /\ to.short = s.short /\ to.n = s.n
    BY DEF TaskOK, Task, WriterPC
  <1>2. w \notin Posts
    BY RtbfAssumption
  <1>3. Aligned(w, s) /\ Coming(w, s)
    BY DEF TaskOK, Busy
  <1> HIDE DEF to
  <1>4. BatchOf(w, to) = BatchOf(w, s)
    BY <1>2 DEF BatchOf
  <1>5. TaskOK(w, to)
    BY <1>1, <1>2, <1>3, <1>4 DEF TaskOK, Aligned, Coming, Busy
  <1>6. QED
    BY <1>5 DEF to

(* A writer that begins, or a post at its next piece.                      *)
LEMMA PieceOK ==
    ASSUME NEW w \in Writers, NEW s \in Task, s.pc = "lookup", s.found = <<>>, s.asked = <<>>,
           s.base = 0, s.puts = 0, w \in Posts => s.n \in 1..Len(Texts[w]), Texts[w] # <<>>
    PROVE  TaskOK(w, s)
  <1>1. PICK l \in Nat : l = Len(Texts[w])
    BY DocumentFacts
  <1>2. l # 0
    BY <1>1, DocumentFacts
  <1>3. PICK m \in Nat : m = Len(BatchOf(w, s)) /\ m > 0
    <2>1. Len(<<Texts[w][s.n]>>) = 1
      OBVIOUS
    <2>2. QED
      BY <1>1, <1>2, <2>1 DEF BatchOf
  <1>4. Len(s.found) = 0 /\ Len(s.asked) = 0
    OBVIOUS
  <1>5. Aligned(w, s)
    BY <1>3, <1>4 DEF Aligned
  <1>6. Coming(w, s)
    BY <1>3, <1>4 DEF Coming, Waiting, Busy
  <1>7. QED
    BY <1>5, <1>6 DEF TaskOK

LEMMA BegunOK ==
    ASSUME NEW w \in Writers
    PROVE  TaskOK(w, [Fresh EXCEPT !.pc = Begun(w)])
  <1>1. CASE Texts[w] = <<>>
    BY <1>1, FreshOK, StopOK DEF Begun
  <1>2. CASE Texts[w] # <<>>
    <2> DEFINE to == [Fresh EXCEPT !.pc = "lookup"]
    <2>1. Fresh \in Task
      BY FreshOK DEF TaskOK
    <2>2. /\ to \in Task /\ to.pc = "lookup" /\ to.found = <<>> /\ to.asked = <<>>
          /\ to.base = 0 /\ to.puts = 0 /\ to.n = 1
      BY <2>1 DEF Fresh, Task, WriterPC
    <2>3. 1 \in 1..Len(Texts[w])
      BY <1>2, DocumentFacts
    <2> HIDE DEF to
    <2>4. TaskOK(w, to)
      BY <1>2, <2>2, <2>3, PieceOK
    <2>5. QED
      BY <1>2, <2>4 DEF Begun, to
  <1>3. QED
    BY <1>1, <1>2

LEMMA LookupOK ==
    ASSUME NEW w \in Writers, NEW s, TaskOK(w, s), s.pc = "lookup",
           NEW i, i = Len(s.found) + 1, NEW v, NEW asked,
           \/ v = BatchOf(w, s)[i] /\ asked = s.asked
           \/ v = None /\ asked = Append(s.asked, i),
           NEW pc \in WriterPC,
           i < Len(BatchOf(w, s)) => pc = "lookup",
           i = Len(BatchOf(w, s)) => pc = (IF asked = <<>> THEN "store" ELSE "encode"),
           NEW to, to = [s EXCEPT !.found = Append(s.found, v), !.asked = asked, !.pc = pc]
    PROVE  TaskOK(w, to)
  <1> DEFINE F == AllTexts \union {None}
  <1>1. s \in Task /\ Aligned(w, s) /\ Coming(w, s)
    BY DEF TaskOK, Busy
  <1>2. PICK l \in Nat : l = Len(s.found) /\ i = l + 1 /\ DOMAIN s.found = 1..l
    BY <1>1, TaskFields
  <1>3. PICK b \in Nat : b = Len(BatchOf(w, s)) /\ l < b
    BY <1>1, <1>2, BatchFacts DEF Coming, Busy
  <1>4. s.found \in Seq(F) /\ s.asked \in Seq(Nat) /\ Len(s.asked) \in Nat
    BY <1>1, TaskFields
  <1>5. v \in F /\ (v = None \/ v = BatchOf(w, s)[i])
        /\ asked = IF v # None THEN s.asked ELSE Append(s.asked, i)
    BY <1>2, <1>3, BatchFacts DEF Busy
  <1> HIDE DEF F
  <1>6. PICK found : /\ found = Append(s.found, v) /\ found \in Seq(F)
                     /\ Len(found) = l + 1 /\ found[l + 1] = v
                     /\ \A k \in 1..l : found[k] = s.found[k]
    <2>1. PICK f \in Seq(F) : f = s.found
      BY <1>4
    <2>2. /\ Append(f, v) \in Seq(F) /\ Len(Append(f, v)) = Len(f) + 1
          /\ Append(f, v)[Len(f) + 1] = v
          /\ \A k \in 1..Len(f) : Append(f, v)[k] = f[k]
      BY ONLY <1>5, AppendProperties
    <2>3. Len(f) = l
      BY <1>2, <2>1
    <2>4. QED
      BY <2>1, <2>2, <2>3
  <1>7. PICK q \in Nat : q = Len(s.asked)
    BY <1>4
  <1>8. /\ asked \in Seq(Nat) /\ Len(asked) = (IF v # None THEN q ELSE q + 1)
        /\ \A k \in 1..q : asked[k] = s.asked[k]
        /\ v = None => asked[q + 1] = l + 1
    BY <1>2, <1>4, <1>5, <1>7
  <1>9. /\ to \in Task /\ to.pc = pc /\ to.found = found /\ to.asked = asked
        /\ to.base = s.base /\ to.puts = s.puts /\ to.short = s.short /\ to.n = s.n
    BY <1>1, <1>6, <1>8 DEF Task, F
  <1>10. BatchOf(w, to) = BatchOf(w, s)
    BY <1>9 DEF BatchOf
  <1>11. \A k \in 1..(l + 1) : k \in 1..l \/ k = l + 1
    BY <1>2
  <1>12. Aligned(w, to)
    <2>1. \A k \in 1..(l + 1) : found[k] = None \/ found[k] = BatchOf(w, s)[k]
      BY <1>1, <1>2, <1>5, <1>6, <1>11 DEF Aligned
    <2>2. \A k \in 1..Len(asked) : asked[k] \in 1..(l + 1)
      <3>1. \A k \in 1..q : s.asked[k] \in 1..l
        BY <1>1, <1>2, <1>7 DEF Aligned
      <3>2. \A k \in 1..Len(asked) : k \in 1..q \/ (v = None /\ k = q + 1)
        BY <1>7, <1>8
      <3>3. \A k \in 1..l : k \in 1..(l + 1)
        BY <1>2
      <3>4. l + 1 \in 1..(l + 1)
        BY <1>2
      <3>5. QED
        BY <1>8, <3>1, <3>2, <3>3, <3>4
    <2>3. QED
      BY <1>3, <1>6, <1>9, <1>10, <2>1, <2>2 DEF Aligned
  <1>13. Waiting(to, 0) /\ to.base = 0 /\ to.puts = 0
    <2>1. s.base = 0 /\ s.puts = 0 /\ \A k \in 1..l : s.found[k] = None =>
              \E n \in 1..q : n > 0 /\ s.asked[n] = k
      BY <1>1, <1>2, <1>7 DEF Coming, Waiting
    <2>2. \A n \in 1..q : n \in 1..Len(asked)
      BY <1>7, <1>8
    <2>3. v = None => q + 1 \in 1..Len(asked) /\ q + 1 > 0
      BY <1>7, <1>8
    <2>4. ASSUME NEW k \in 1..(l + 1), found[k] = None
          PROVE  \E n \in 1..Len(asked) : n > 0 /\ asked[n] = k
      <3>1. CASE k \in 1..l
        BY <1>6, <1>8, <2>1, <2>2, <2>4, <3>1
      <3>2. CASE k = l + 1
        BY <1>5, <1>6, <1>8, <2>3, <2>4, <3>2
      <3>3. QED
        BY <1>11, <3>1, <3>2
    <2>5. Len(to.found) = l + 1 /\ to.found = found /\ to.asked = asked /\ to.base = 0
          /\ to.puts = 0
      BY <1>6, <1>9, <2>1
    <2>6. QED
      BY ONLY <2>4, <2>5 DEF Waiting
  <1>14. asked = <<>> => \A k \in 1..(l + 1) : found[k] # None
    BY <1>6, <1>9, <1>13 DEF Waiting
  <1>15. pc \in {"lookup", "store", "encode"} /\ (pc = "lookup" <=> l + 1 < b)
         /\ (pc = "store" => asked = <<>>) /\ (pc = "encode" => 0 < Len(asked))
    BY <1>2, <1>3, <1>8
  <1>16. Coming(w, to)
    BY <1>3, <1>6, <1>9, <1>10, <1>13, <1>14, <1>15 DEF Coming, Busy
  <1>17. w \in Posts => to.pc # "fallback" /\ to.n \in 1..Len(Texts[w])
    BY <1>9, <1>15 DEF TaskOK, Busy
  <1>18. QED
    BY <1>9, <1>12, <1>15, <1>16, <1>17 DEF TaskOK

(* A batch is never empty, nor longer than the provider takes.             *)
LEMMA WantedFacts ==
    ASSUME NEW s \in Task, s.base < Len(s.asked)
    PROVE  /\ Wanted(s) \in Nat /\ 1 <= Wanted(s) /\ Wanted(s) <= BatchSize
           /\ BatchSize \in Nat /\ 1 <= BatchSize
           /\ s.base + Wanted(s) <= Len(s.asked)
           /\ s.base + BatchSize < Len(s.asked) => Wanted(s) = BatchSize
           /\ ~(s.base + BatchSize < Len(s.asked)) => s.base + Wanted(s) = Len(s.asked)
  <1>1. PICK b \in Nat, q \in Nat, z \in Nat :
            b = s.base /\ q = Len(s.asked) /\ z = BatchSize /\ z # 0 /\ b < q
    BY TaskFields, RtbfAssumption
  <1>2. Wanted(s) = IF b + z <= q THEN z ELSE q - b
    BY <1>1 DEF Wanted
  <1>3. QED
    BY <1>1, <1>2

(* After a batch: what is missing is of a later one, if any comes.         *)
LEMMA NextBatchOK ==
    ASSUME NEW w \in Writers, NEW s, s \in Task, s.base < Len(s.asked),
           w \in Posts => s.n \in 1..Len(Texts[w]),
           Aligned(w, s), Len(s.found) = Len(BatchOf(w, s)),
           s.short \/ Waiting(s, s.base + Wanted(s))
    PROVE  /\ TaskOK(w, NextBatch(s)) /\ NextBatch(s).pc \in {"encode", "store"}
           /\ NextBatch(s).n = s.n /\ NextBatch(s).short = s.short
  <1>1. PICK b \in Nat, q \in Nat, z \in Nat :
            b = s.base /\ q = Len(s.asked) /\ z = BatchSize
    BY TaskFields, RtbfAssumption
  <1>2. CASE b + z < q
    <2>1. PICK to : to = NextBatch(s)
      OBVIOUS
    <2>2. to = [s EXCEPT !.pc = "encode", !.base = b + z, !.got = 0, !.puts = 0]
      BY <1>1, <1>2, <2>1 DEF NextBatch
    <2>3. /\ to \in Task /\ to.pc = "encode" /\ to.n = s.n /\ to.short = s.short
          /\ to.found = s.found /\ to.asked = s.asked /\ to.base = b + z /\ to.puts = 0
      <3>1. PICK base \in Nat : base = b + z
        OBVIOUS
      <3>2. to = [s EXCEPT !.pc = "encode", !.base = base, !.got = 0, !.puts = 0]
        BY <2>2, <3>1
      <3>3. /\ to \in Task /\ to.pc = "encode" /\ to.n = s.n /\ to.short = s.short
            /\ to.found = s.found /\ to.asked = s.asked /\ to.base = base /\ to.puts = 0
        BY ONLY s \in Task, base \in Nat, <3>2 DEF Task, WriterPC
      <3>4. QED
        BY <3>1, <3>3
    <2>4. BatchOf(w, to) = BatchOf(w, s)
      BY <2>3 DEF BatchOf
    <2>5. Aligned(w, to)
      BY <2>3, <2>4 DEF Aligned
    <2>6. to.short \/ Waiting(to, to.base)
      <3>1. s.base + Wanted(s) = b + z
        BY <1>1, <1>2, WantedFacts
      <3>2. QED
        BY <2>3, <3>1 DEF Waiting
    <2>7. Coming(w, to)
      BY <1>1, <1>2, <2>3, <2>4, <2>6 DEF Coming, Busy
    <2>8. QED
      BY <2>1, <2>3, <2>5, <2>7 DEF TaskOK, Busy
  <1>3. CASE ~(b + z < q)
    <2>1. PICK to : to = NextBatch(s)
      OBVIOUS
    <2>2. to = [s EXCEPT !.pc = "store"]
      BY <1>1, <1>3, <2>1 DEF NextBatch
    <2>3. /\ to \in Task /\ to.pc = "store" /\ to.n = s.n /\ to.short = s.short
          /\ to.found = s.found /\ to.asked = s.asked
      BY <2>2 DEF Task, WriterPC
    <2>4. BatchOf(w, to) = BatchOf(w, s)
      BY <2>3 DEF BatchOf
    <2>5. Aligned(w, to)
      BY <2>3, <2>4 DEF Aligned
    <2>6. to.short \/ \A i \in 1..Len(to.found) : to.found[i] # None
      <3>1. s.base + Wanted(s) = q
        BY <1>1, <1>3, WantedFacts
      <3>2. \A k \in 1..q : ~(k > q)
        BY <1>1
      <3>3. QED
        BY <1>1, <2>3, <3>1, <3>2 DEF Waiting
    <2>7. Coming(w, to)
      BY <2>3, <2>4, <2>6 DEF Coming, Busy
    <2>8. QED
      BY <2>1, <2>3, <2>5, <2>7 DEF TaskOK, Busy
  <1>4. QED
    BY <1>2, <1>3

Answered(s, got) == [s EXCEPT !.got = got, !.short = s.short \/ got < Wanted(s)]
Encoded(s, got) ==
    IF got > 0 THEN [Answered(s, got) EXCEPT !.pc = "put"] ELSE NextBatch(Answered(s, got))
LEMMA EncodeOK ==
    ASSUME NEW w \in Writers, NEW s, TaskOK(w, s), s.pc = "encode",
           NEW got \in Nat, got <= Wanted(s), NEW to, to = Encoded(s, got)
    PROVE  /\ TaskOK(w, to) /\ to.pc \in {"put", "encode", "store"} /\ to.n = s.n
           /\ s.short => to.short
  <1>1. s \in Task /\ Aligned(w, s) /\ Coming(w, s) /\ s.base < Len(s.asked)
    BY DEF TaskOK, Coming, Busy
  <1>2. PICK q \in Nat : q = Wanted(s) /\ 1 <= q
    BY <1>1, WantedFacts
  <1>3. PICK short \in BOOLEAN : short = (s.short \/ got < q)
    BY <1>2
  <1> DEFINE answered == Answered(s, got)
  <1>4. /\ answered \in Task /\ answered.pc = "encode" /\ answered.found = s.found
        /\ answered.asked = s.asked /\ answered.base = s.base /\ answered.got = got
        /\ answered.puts = s.puts /\ answered.short = short /\ answered.n = s.n
    <2>1. answered = [s EXCEPT !.got = got, !.short = short]
      BY <1>2, <1>3 DEF Answered
    <2>2. QED
      BY <1>1, <2>1 DEF Task
  <1>5. to = IF got > 0 THEN [answered EXCEPT !.pc = "put"] ELSE NextBatch(answered)
    BY DEF Encoded
  <1> HIDE DEF answered
  <1>6. /\ s.puts = 0 /\ (s.short \/ Waiting(s, s.base)) /\ Len(s.found) = Len(BatchOf(w, s))
        /\ w \in Posts => s.n \in 1..Len(Texts[w])
    BY <1>1 DEF Coming, TaskOK, Busy
  <1>7. CASE got > 0
    <2>1. to = [answered EXCEPT !.pc = "put"]
      BY <1>5, <1>7
    <2>2. /\ to \in Task /\ to.pc = "put" /\ to.found = s.found /\ to.asked = s.asked
          /\ to.base = s.base /\ to.got = got /\ to.puts = 0 /\ to.short = short /\ to.n = s.n
      BY <1>4, <1>6, <2>1 DEF Task, WriterPC
    <2>3. BatchOf(w, to) = BatchOf(w, s) /\ Wanted(to) = q
      BY <1>2, <2>2 DEF BatchOf, Wanted
    <2>4. Aligned(w, to)
      BY <1>1, <2>2, <2>3 DEF Aligned
    <2>5. to.short \/ (to.got = Wanted(to) /\ Waiting(to, to.base + to.puts))
      <3>1. to.base + to.puts = s.base
        BY <1>1, <2>2, TaskFields
      <3>2. got < q \/ got = q
        BY <1>2
      <3>3. s.short => short
        BY <1>3
      <3>4. Waiting(s, s.base) => Waiting(to, s.base)
        BY <2>2 DEF Waiting
      <3>5. short \/ (got = q /\ Waiting(to, s.base))
        BY <1>3, <1>6, <3>2, <3>3, <3>4, Zenon
      <3>6. QED
        BY <2>2, <2>3, <3>1, <3>5
    <2>6. Coming(w, to)
      <3>1. to.base < Len(to.asked) /\ to.puts < to.got /\ to.got <= Wanted(to)
        BY <1>1, <1>2, <1>7, <2>2, <2>3
      <3>2. QED
        BY <1>6, <2>2, <2>3, <2>5, <3>1 DEF Coming, Busy
    <2>7. QED
      BY <1>3, <1>6, <2>2, <2>4, <2>6 DEF TaskOK, Busy
  <1>8. CASE ~(got > 0)
    <2>1. to = NextBatch(answered)
      BY <1>5, <1>8
    <2>2. answered.short
      <3>1. got < q
        BY <1>2, <1>8
      <3>2. QED
        BY <1>3, <1>4, <3>1
    <2>3. BatchOf(w, answered) = BatchOf(w, s)
      BY <1>4 DEF BatchOf
    <2>4. Aligned(w, answered)
      BY <1>1, <1>4, <2>3 DEF Aligned
    <2>5. answered.base < Len(answered.asked) /\ Len(answered.found) = Len(BatchOf(w, answered))
          /\ (w \in Posts => answered.n \in 1..Len(Texts[w]))
      BY <1>1, <1>4, <1>6, <2>3
    <2>6. /\ TaskOK(w, NextBatch(answered)) /\ NextBatch(answered).pc \in {"encode", "store"}
          /\ NextBatch(answered).n = answered.n /\ NextBatch(answered).short = answered.short
      BY ONLY <1>4, <2>2, <2>4, <2>5, NextBatchOK
    <2>7. QED
      BY <1>4, <2>1, <2>2, <2>6
  <1>9. QED
    BY <1>7, <1>8

Filled(s, vec) ==
    [s EXCEPT !.found = [s.found EXCEPT ![s.asked[s.base + s.puts + 1]] = vec],
              !.puts = s.puts + 1]
Stepped(s, vec) == IF s.puts + 1 < s.got THEN Filled(s, vec) ELSE NextBatch(Filled(s, vec))
LEMMA PutOK ==
    ASSUME NEW w \in Writers, NEW s, TaskOK(w, s), s.pc = "put",
           NEW vec, vec = BatchOf(w, s)[s.asked[s.base + s.puts + 1]],
           NEW to, to = Stepped(s, vec)
    PROVE  /\ vec \in AllTexts /\ TaskOK(w, to) /\ to.pc \in {"put", "encode", "store"}
           /\ to.n = s.n /\ to.short = s.short
  <1> DEFINE F == AllTexts \union {None}
             at == s.asked[s.base + s.puts + 1]
             filled == Filled(s, vec)
  <1>1. s \in Task /\ Aligned(w, s) /\ Coming(w, s) /\ s.base < Len(s.asked)
    BY DEF TaskOK, Coming, Busy
  <1>2. PICK q \in Nat, b \in Nat, p \in Nat, g \in Nat, l \in Nat, m \in Nat :
            /\ q = Len(s.asked) /\ b = s.base /\ p = s.puts /\ g = s.got /\ l = Len(s.found)
            /\ m = Wanted(s) /\ p < g /\ g <= m /\ b + m <= q
    BY <1>1, TaskFields, WantedFacts DEF Coming, Busy
  <1>3. /\ s.short \/ (g = m /\ Waiting(s, b + p))
        /\ l = Len(BatchOf(w, s)) /\ DOMAIN s.found = 1..l /\ s.found \in Seq(F)
    BY <1>1, <1>2, TaskFields DEF Coming, Busy
  <1>4. b + p + 1 \in 1..q
    <2>1. \A x, y, z, u, v \in Nat : x < y /\ y <= z /\ u + z <= v => u + x + 1 \in 1..v
      OBVIOUS
    <2> HIDE DEF at, filled, F
    <2>2. QED
      BY <1>2, <2>1
  <1>5. PICK i \in 1..l : i = at
    BY <1>1, <1>2, <1>4 DEF Aligned
  <1>6. vec \in AllTexts /\ vec # None /\ vec = BatchOf(w, s)[i]
    BY <1>2, <1>3, <1>5, BatchFacts DEF Busy
  <1> HIDE DEF F
  <1>7. vec \in F
    BY <1>6 DEF F
  <1>8. PICK found : found = [s.found EXCEPT ![i] = vec]
    OBVIOUS
  <1>9. /\ found \in Seq(F) /\ Len(found) = l /\ found[i] = vec
        /\ \A k \in 1..l : k # i => found[k] = s.found[k]
    BY <1>5, <1>7, <1>8, <1>3
  <1>10. /\ filled \in Task /\ filled.pc = "put" /\ filled.found = found
        /\ filled.asked = s.asked /\ filled.base = b /\ filled.got = g /\ filled.puts = p + 1
        /\ filled.short = s.short /\ filled.n = s.n
    <2>1. filled = [s EXCEPT !.found = found, !.puts = p + 1]
      BY <1>2, <1>5, <1>8 DEF Filled
    <2>2. found \in Seq(AllTexts \union {None}) /\ p + 1 \in Nat
      BY <1>2, <1>9 DEF F
    <2>3. QED
      BY <1>1, <1>2, <2>1, <2>2 DEF Task
  <1>11. to = IF p + 1 < g THEN filled ELSE NextBatch(filled)
    BY <1>2 DEF Stepped
  <1> HIDE DEF filled
  <1>12. BatchOf(w, filled) = BatchOf(w, s) /\ Wanted(filled) = m
    BY <1>2, <1>10 DEF BatchOf, Wanted
  <1>13. Aligned(w, filled)
    <2>1. \A k \in 1..l : found[k] = None \/ found[k] = BatchOf(w, s)[k]
      BY <1>1, <1>2, <1>6, <1>9 DEF Aligned
    <2>2. QED
      BY <1>1, <1>2, <1>9, <1>10, <1>12, <2>1 DEF Aligned
  <1>14. s.short \/ Waiting(filled, b + p + 1)
    <2>1. ASSUME ~s.short, NEW k \in 1..l, found[k] = None
          PROVE  \E n \in 1..q : n > b + p + 1 /\ s.asked[n] = k
      <3>1. k # i /\ s.found[k] = None
        BY <1>6, <1>9, <2>1
      <3>2. PICK n \in 1..q : n > b + p /\ s.asked[n] = k
        BY <1>2, <1>3, <2>1, <3>1 DEF Waiting
      <3>3. n # b + p + 1
        BY <1>2, <1>5, <3>1, <3>2
      <3>4. n > b + p + 1
        <4>1. \A x, y, z \in Nat : x > y + z /\ x # y + z + 1 => x > y + z + 1
          OBVIOUS
        <4>2. n \in Nat
          BY <1>2
        <4>3. QED
          BY <3>2, <3>3, <4>1, <4>2
      <3>5. QED
        BY <3>2, <3>4
    <2>2. ~s.short => Waiting(filled, b + p + 1)
      <3>1. Len(filled.found) = l /\ Len(filled.asked) = q
        BY <1>2, <1>9, <1>10
      <3>2. QED
        BY <1>10, <2>1, <3>1 DEF Waiting
    <2>3. QED
      BY <2>2
  <1>15. Len(filled.found) = Len(BatchOf(w, filled)) /\ filled.base < Len(filled.asked)
         /\ (w \in Posts => filled.n \in 1..Len(Texts[w]))
    BY <1>1, <1>2, <1>9, <1>10, <1>12, <1>3 DEF TaskOK, Busy
  <1>16. CASE p + 1 < g
    <2>1. to = filled
      BY <1>11, <1>16
    <2>2. filled.puts < filled.got /\ filled.got <= Wanted(filled)
      BY <1>2, <1>10, <1>12, <1>16
    <2>3. filled.short \/ (filled.got = Wanted(filled) /\ Waiting(filled, filled.base + filled.puts))
      <3>1. filled.base + filled.puts = b + p + 1
        <4>1. \A x, y \in Nat : x + (y + 1) = x + y + 1
          OBVIOUS
        <4>2. QED
          BY <1>10, <4>1
      <3>2. QED
        BY <1>10, <1>12, <1>14, <1>3, <3>1
    <2>4. Coming(w, filled)
      BY <1>10, <1>15, <2>2, <2>3 DEF Coming, Busy
    <2>5. QED
      BY <1>6, <1>10, <1>13, <1>15, <2>1, <2>4 DEF TaskOK, Busy
  <1>17. CASE ~(p + 1 < g)
    <2>1. to = NextBatch(filled) /\ p + 1 = g
      BY <1>11, <1>2, <1>17
    <2>2. filled.short \/ Waiting(filled, filled.base + Wanted(filled))
      <3>1. g = m => b + p + 1 = b + m
        <4>1. \A x, y, z \in Nat : x + 1 = y => z + x + 1 = z + y
          OBVIOUS
        <4>2. QED
          BY <2>1, <4>1
      <3>2. s.short \/ g = m
        BY <1>3
      <3>3. s.short \/ Waiting(filled, b + m)
        BY <1>14, <3>1, <3>2
      <3>4. QED
        BY <1>10, <1>12, <3>3
    <2>3. /\ TaskOK(w, NextBatch(filled)) /\ NextBatch(filled).pc \in {"encode", "store"}
          /\ NextBatch(filled).n = filled.n /\ NextBatch(filled).short = filled.short
      BY ONLY <1>10, <1>13, <1>15, <2>2, NextBatchOK
    <2>4. QED
      BY <1>6, <1>10, <2>1, <2>3
  <1>18. QED
    BY <1>16, <1>17

LEMMA NextPieceOK ==
    ASSUME NEW w \in Posts, NEW s, TaskOK(w, s), s.pc = "store"
    PROVE  /\ s.n < Len(Texts[w]) => TaskOK(w, NextPiece(s))
           /\ NextPiece(s).short = s.short /\ NextPiece(s).n = s.n + 1
           /\ NextPiece(s).pc = "lookup"
  <1>1. w \in Writers /\ s \in Task /\ s.n \in Nat /\ s.short \in BOOLEAN
    BY TaskFields DEF Writers, TaskOK
  <1>2. NextPiece(s) = [pc |-> "lookup", n |-> s.n + 1, found |-> <<>>, asked |-> <<>>,
                        base |-> 0, got |-> 0, puts |-> 0, short |-> s.short]
    <2>1. PICK short \in BOOLEAN, n \in Nat : short = s.short /\ n = s.n + 1
      BY <1>1
    <2>2. NextPiece(s) = [Fresh EXCEPT !.pc = "lookup", !.n = n, !.short = short]
      BY <2>1 DEF NextPiece
    <2>3. QED
      BY <2>1, <2>2 DEF Fresh
  <1>3. <<>> \in Seq(AllTexts \union {None}) /\ <<>> \in Seq(Nat)
    OBVIOUS
  <1>4. NextPiece(s) \in Task
    BY <1>1, <1>2, <1>3 DEF Task, WriterPC
  <1>5. ASSUME s.n < Len(Texts[w]) PROVE TaskOK(w, NextPiece(s))
    <2>1. Len(Texts[w]) \in Nat /\ s.n + 1 \in 1..Len(Texts[w]) /\ Texts[w] # <<>>
      BY <1>1, <1>5, DocumentFacts
    <2>2. QED
      BY <1>1, <1>2, <1>4, <2>1, PieceOK
  <1>6. QED
    BY <1>2, <1>5

-----------------------------------------------------------------------------
(* Type correctness of the writers and the cache.                          *)
Moves(w, to) ==
    /\ task' = [task EXCEPT ![w] = to] /\ TaskOK(w, to)
    /\ task[w].short => to.short
    /\ task[w].pc \notin {"done", "failed"} /\ to.pc # "begin"

LEMMA MovesKeepWork ==
    ASSUME Work, NEW w \in Writers, NEW to, Moves(w, to), CacheOK(cache')
    PROVE  /\ Work' /\ task'[w] = to
           /\ \A v \in Writers : v # w => task'[v] = task[v]
  <1>1. task' = [task EXCEPT ![w] = to] /\ TaskOK(w, to)
    BY DEF Moves
  <1>2. task = [v \in Writers |-> task[v]]
    BY DEF Work
  <1>3. task' = [v \in Writers |-> IF v = w THEN to ELSE task[v]]
    BY <1>1, <1>2
  <1>4. \A v \in Writers : TaskOK(v, task'[v])
    BY <1>1, <1>3 DEF Work
  <1>5. task' = [v \in Writers |-> task'[v]]
    BY <1>3
  <1>6. QED
    BY <1>3, <1>4, <1>5 DEF Work

LEMMA CacheHit ==
    ASSUME Work, NEW t, Cached(t) PROVE CacheGet(t) = t
  <1>1. cache \in Seq([text : AllTexts, vec : AllTexts])
        /\ \A i \in 1..Len(cache) : cache[i].vec = cache[i].text
    BY DEF Work, CacheOK
  <1>2. DOMAIN cache = 1..Len(cache)
    BY <1>1
  <1>3. \E i \in DOMAIN cache : cache[i].text = t
    BY DEF Cached
  <1>4. PICK i \in DOMAIN cache : i = (CHOOSE k \in DOMAIN cache : cache[k].text = t)
                                  /\ cache[i].text = t
    BY <1>3
  <1>5. QED
    BY <1>1, <1>2, <1>4 DEF CacheGet

LEMMA LookupMoves ==
    ASSUME Work, NEW w \in Writers, Lookup(w)
    PROVE  \E to : /\ Moves(w, to) /\ to.pc \in {"lookup", "encode", "store"}
                   /\ to.n = task[w].n /\ task[w].pc = "lookup"
  <1> DEFINE s == task[w]
             i == Len(s.found) + 1
             t == Batch(w)[i]
             asked == IF Cached(t) THEN s.asked ELSE Append(s.asked, i)
             v == IF Cached(t) THEN CacheGet(t) ELSE None
             pc == CASE i < Len(Batch(w)) -> "lookup"
                     [] i = Len(Batch(w)) /\ asked = <<>> -> "store"
                     [] OTHER -> "encode"
             to == [s EXCEPT !.found = Append(s.found, v), !.asked = asked, !.pc = pc]
  <1>1. s.pc = "lookup"
    BY DEF Lookup
  <1>2. TaskOK(w, s) /\ task = [x \in Writers |-> task[x]]
    BY DEF Work
  <1>3. task' = [task EXCEPT ![w].found = Append(@, v), ![w].asked = asked, ![w].pc = pc]
    BY DEF Lookup
  <1>4. Batch(w) = BatchOf(w, s)
    BY DEF Batch, BatchOf
  <1>5. v = IF Cached(t) THEN BatchOf(w, s)[i] ELSE None
    BY <1>4, CacheHit
  <1>6. \/ v = BatchOf(w, s)[i] /\ asked = s.asked
        \/ v = None /\ asked = Append(s.asked, i)
    BY <1>5
  <1>7. PICK l \in Nat : l = Len(s.found)
    BY <1>2, TaskFields DEF TaskOK
  <1>8. PICK b \in Nat : b = Len(BatchOf(w, s))
    BY <1>1, <1>2, BatchFacts DEF Busy
  <1>9. /\ pc \in {"lookup", "store", "encode"}
        /\ i < Len(BatchOf(w, s)) => pc = "lookup"
        /\ i = Len(BatchOf(w, s)) => pc = IF asked = <<>> THEN "store" ELSE "encode"
    <2> HIDE DEF asked
    <2>1. CASE i < Len(Batch(w))
      BY <1>4, <1>7, <1>8, <2>1
    <2>2. CASE ~(i < Len(Batch(w)))
      BY <1>4, <1>7, <1>8, <2>2
    <2>3. QED
      BY <2>1, <2>2
  <1> HIDE DEF v, asked, pc, i
  <1>10. task' = [task EXCEPT ![w] = to]
    BY <1>2, <1>3
  <1>11. TaskOK(w, to)
    <2>1. pc \in WriterPC
      BY <1>9 DEF WriterPC
    <2>2. i = Len(s.found) + 1
      BY DEF i
    <2>3. to = [s EXCEPT !.found = Append(s.found, v), !.asked = asked, !.pc = pc]
      OBVIOUS
    <2>4. i < Len(BatchOf(w, s)) => pc = "lookup"
      BY <1>9
    <2>5. i = Len(BatchOf(w, s)) => pc = IF asked = <<>> THEN "store" ELSE "encode"
      BY <1>9
    <2> HIDE DEF to, s
    <2>6. QED
      BY ONLY <1>1, <1>2, <1>6, <2>1, <2>2, <2>3, <2>4, <2>5, LookupOK
  <1>12. to.pc = pc /\ to.n = s.n /\ to.short = s.short
    BY <1>2 DEF TaskOK, Task
  <1> HIDE DEF to
  <1>13. Moves(w, to)
    BY <1>1, <1>9, <1>10, <1>11, <1>12 DEF Moves
  <1>14. QED
    BY <1>1, <1>9, <1>12, <1>13

LEMMA EncodeMoves ==
    ASSUME Work, NEW w \in Writers, NEW got \in Nat, Encode(w, got)
    PROVE  \E to : /\ Moves(w, to) /\ to.pc \in {"put", "encode", "store"}
                   /\ to.n = task[w].n /\ task[w].pc = "encode"
  <1> DEFINE s == task[w]
  <1>1. s.pc = "encode" /\ TaskOK(w, s)
    BY DEF Encode, Work
  <1>2. got <= Wanted(s)
    <2>1. PICK q \in Nat : q = Wanted(s)
      BY <1>1, WantedFacts DEF TaskOK, Coming
    <2>2. got = Wanted(s) \/ got < Wanted(s)
      BY DEF Encode
    <2>3. QED
      BY <2>1, <2>2
  <1>3. PICK to : to = Encoded(s, got)
    OBVIOUS
  <1>4. task' = [task EXCEPT ![w] = to]
    BY <1>3 DEF Encode, Encoded, Answered
  <1> HIDE DEF s
  <1>5. /\ TaskOK(w, to) /\ to.pc \in {"put", "encode", "store"} /\ to.n = s.n
        /\ s.short => to.short
    BY <1>1, <1>2, <1>3, EncodeOK
  <1>6. Moves(w, to)
    BY <1>1, <1>4, <1>5 DEF Moves, s
  <1>7. QED
    BY <1>1, <1>5, <1>6 DEF s

LEMMA PutMoves ==
    ASSUME Work, NEW w \in Writers, Put(w)
    PROVE  /\ CacheOK(cache')
           /\ \E to : /\ Moves(w, to) /\ to.pc \in {"put", "encode", "store"}
                      /\ to.n = task[w].n /\ task[w].pc = "put"
  <1> DEFINE s == task[w]
  <1>1. s.pc = "put" /\ TaskOK(w, s) /\ task = [x \in Writers |-> task[x]] /\ CacheOK(cache)
    BY DEF Put, Work
  <1>2. PICK vec : vec = Batch(w)[s.asked[s.base + s.puts + 1]]
    OBVIOUS
  <1>3. PICK to : to = Stepped(s, vec)
    OBVIOUS
  <1>4. cache' = CachePut(cache, vec, vec)
    BY <1>2 DEF Put
  <1>5. task' = [task EXCEPT ![w] = to]
    BY <1>2, <1>3 DEF Put, GlobalIndex, Stepped, Filled
  <1>6. vec = BatchOf(w, s)[s.asked[s.base + s.puts + 1]]
    BY <1>2 DEF Batch, BatchOf
  <1> HIDE DEF s
  <1>7. TaskOK(w, s) /\ s.pc = "put"
    BY <1>1
  <1>8. /\ vec \in AllTexts /\ TaskOK(w, to) /\ to.pc \in {"put", "encode", "store"}
        /\ to.n = s.n /\ to.short = s.short
    BY <1>3, <1>6, <1>7, PutOK
  <1>9. CacheOK(cache')
    BY <1>1, <1>4, <1>8, CachePutOK
  <1>10. Moves(w, to)
    BY <1>1, <1>5, <1>8 DEF Moves, s
  <1>11. QED
    BY <1>1, <1>8, <1>9, <1>10 DEF s

(* A writer in embed_batch moves on, and touches no store.                 *)
LEMMA GotoMoves ==
    ASSUME Work, NEW w \in Writers, NEW pc, Goto(w, pc), TaskOK(w, [task[w] EXCEPT !.pc = pc]),
           task[w].pc \notin {"done", "failed"}, pc # "begin"
    PROVE  \E to : /\ Moves(w, to) /\ to.pc = pc /\ to.n = task[w].n
                   /\ to = [task[w] EXCEPT !.pc = pc]
  <1> DEFINE to == [task[w] EXCEPT !.pc = pc]
  <1>1. task = [x \in Writers |-> task[x]] /\ task[w] \in Task
    BY DEF Work, TaskOK
  <1>2. task' = [task EXCEPT ![w] = to]
    BY <1>1 DEF Goto
  <1>3. to.pc = pc /\ to.n = task[w].n /\ to.short = task[w].short
    BY <1>1 DEF Task
  <1> HIDE DEF to
  <1>4. TaskOK(w, to)
    BY DEF to
  <1>5. Moves(w, to)
    BY <1>2, <1>3, <1>4 DEF Moves
  <1>6. QED
    BY <1>3, <1>5 DEF to

LEMMA EmbedMoves ==
    ASSUME Work, NEW w \in Writers, EmbedBatch(w)
    PROVE  /\ CacheOK(cache')
           /\ \E to : /\ Moves(w, to) /\ to.pc \notin {"begin", "done"} /\ to.n = task[w].n
           /\ task[w].pc # "begin"
           /\ UNCHANGED <<backend, store, operational, schema, rows, points, erase, audit>>
  <1>1. CASE Lookup(w)
    <2>1. UNCHANGED <<backend, store, operational, schema, rows, points, cache, erase, audit>>
      BY <1>1 DEF Lookup, Stores
    <2>2. QED
      BY <1>1, <2>1, LookupMoves DEF Work
  <1>2. CASE EncodeRaises(w)
    <2>1. UNCHANGED <<backend, store, operational, schema, rows, points, cache, erase, audit>>
      BY <1>2 DEF EncodeRaises, Stores
    <2>2. task[w].pc = "encode" /\ Goto(w, "failed") /\ TaskOK(w, task[w])
      BY <1>2 DEF EncodeRaises, Work
    <2>3. TaskOK(w, [task[w] EXCEPT !.pc = "failed"])
      BY <2>2, StopOK
    <2>4. \E to : Moves(w, to) /\ to.pc = "failed" /\ to.n = task[w].n
      BY <2>2, <2>3, GotoMoves
    <2>5. QED
      BY <2>1, <2>2, <2>4 DEF Work
  <1>3. CASE Put(w)
    <2>1. UNCHANGED <<backend, store, operational, schema, rows, points, erase, audit>>
      BY <1>3 DEF Put, Stores
    <2>2. QED
      BY <1>3, <2>1, PutMoves
  <1>4. ASSUME NEW got \in 0..BatchSize, Encode(w, got)
        PROVE  /\ CacheOK(cache')
               /\ \E to : /\ Moves(w, to) /\ to.pc \notin {"begin", "done"} /\ to.n = task[w].n
               /\ task[w].pc # "begin"
               /\ UNCHANGED <<backend, store, operational, schema, rows, points, erase, audit>>
    <2>1. UNCHANGED <<backend, store, operational, schema, rows, points, cache, erase, audit>>
      BY <1>4 DEF Encode, Stores
    <2>2. got \in Nat
      BY RtbfAssumption
    <2>3. QED
      BY <1>4, <2>1, <2>2, EncodeMoves DEF Work
  <1>5. QED
    BY <1>1, <1>2, <1>3, <1>4 DEF EmbedBatch

(* The steps of a writer outside embed_batch.                              *)
LEMMA BeginMoves ==
    ASSUME Work, NEW w \in Writers, task[w].pc = "begin", Goto(w, Begun(w))
    PROVE  \E to : /\ Moves(w, to) /\ to.pc = Begun(w) /\ to.n = 1
                   /\ to.pc \in {"lookup", "done"}
                   /\ to.pc = "done" => Len(Texts[w]) = 0
  <1>1. TaskOK(w, task[w]) /\ task[w] = Fresh
    BY DEF Work, TaskOK
  <1>2. TaskOK(w, [task[w] EXCEPT !.pc = Begun(w)])
    BY <1>1, BegunOK
  <1>3. Begun(w) \in {"lookup", "done"} /\ (Begun(w) = "done" => Texts[w] = <<>>)
    BY DEF Begun
  <1>4. PICK to : Moves(w, to) /\ to.pc = Begun(w) /\ to.n = task[w].n
    BY <1>2, <1>3, GotoMoves
  <1>5. to.n = 1
    BY <1>1, <1>4 DEF Fresh
  <1>6. Begun(w) = "done" => Len(Texts[w]) = 0
    BY <1>3
  <1>7. QED
    BY <1>3, <1>4, <1>5, <1>6

LEMMA StopMoves ==
    ASSUME Work, NEW w \in Writers, NEW pc \in {"done", "failed"}, Goto(w, pc),
           task[w].pc \notin {"done", "failed"}
    PROVE  \E to : Moves(w, to) /\ to.pc = pc /\ to.n = task[w].n /\ to.short = task[w].short
  <1>1. TaskOK(w, task[w]) /\ task[w] \in Task
    BY DEF Work, TaskOK
  <1>2. TaskOK(w, [task[w] EXCEPT !.pc = pc])
    BY <1>1, StopOK
  <1>3. PICK to : /\ Moves(w, to) /\ to.pc = pc /\ to.n = task[w].n
                  /\ to = [task[w] EXCEPT !.pc = pc]
    BY <1>2, GotoMoves
  <1>4. to.short = task[w].short
    BY <1>1, <1>3 DEF Task
  <1>5. QED
    BY <1>3, <1>4

LEMMA FallbackMoves ==
    ASSUME Work, NEW j \in Jobs, task[j].pc = "store", Goto(j, "fallback")
    PROVE  \E to : Moves(j, to) /\ to.pc = "fallback"
  <1>1. j \in Writers /\ TaskOK(j, task[j])
    BY DEF Work, Writers
  <1>2. TaskOK(j, [task[j] EXCEPT !.pc = "fallback"])
    BY <1>1, FallbackOK
  <1>3. QED
    BY <1>1, <1>2, GotoMoves

LEMMA AfterMoves ==
    ASSUME Work, NEW p \in Posts, task[p].pc = "store", task' = [task EXCEPT ![p] = AfterPiece(p)]
    PROVE  \E to : /\ Moves(p, to) /\ to.short = task[p].short /\ to.pc \in {"lookup", "done"}
                   /\ to.pc = "lookup" => to.n = task[p].n + 1
                   /\ to.pc = "done" => task[p].n = Len(Texts[p])
  <1>1. p \in Writers /\ TaskOK(p, task[p]) /\ task[p] \in Task
    BY DEF Work, Writers, TaskOK
  <1>2. Len(Texts[p]) \in Nat /\ task[p].n \in 1..Len(Texts[p])
    BY <1>1, DocumentFacts DEF TaskOK, Busy
  <1>3. CASE task[p].n < Len(Texts[p])
    <2>1. AfterPiece(p) = NextPiece(task[p])
      BY <1>3 DEF AfterPiece
    <2>2. /\ TaskOK(p, AfterPiece(p)) /\ AfterPiece(p).short = task[p].short
          /\ AfterPiece(p).n = task[p].n + 1 /\ AfterPiece(p).pc = "lookup"
      BY <1>1, <1>3, <2>1, NextPieceOK
    <2>3. QED
      BY <2>2 DEF Moves
  <1>4. CASE ~(task[p].n < Len(Texts[p]))
    <2>1. AfterPiece(p) = [task[p] EXCEPT !.pc = "done"] /\ task[p].n = Len(Texts[p])
      BY <1>2, <1>4 DEF AfterPiece
    <2>2. TaskOK(p, AfterPiece(p))
      <3>1. \A pc \in {"done", "failed"} : TaskOK(p, [task[p] EXCEPT !.pc = pc])
        BY <1>1, StopOK
      <3>2. TaskOK(p, [task[p] EXCEPT !.pc = "done"])
        BY <3>1
      <3>3. QED
        BY <2>1, <3>2
    <2>3. AfterPiece(p).pc = "done" /\ AfterPiece(p).short = task[p].short
      BY <1>1, <2>1 DEF Task
    <2>4. QED
      BY <2>1, <2>2, <2>3 DEF Moves
  <1>5. QED
    BY <1>3, <1>4

-----------------------------------------------------------------------------
(* The stores.                                                             *)
LEMMA ChunkFacts ==
    /\ \A c \in Chunks : /\ c.by \in Writers /\ c.n \in 1..Len(Texts[c.by]) /\ c.vec \in AllTexts
    /\ \A w \in Writers : \A n, vec : n \in 1..Len(Texts[w]) /\ vec \in AllTexts =>
           [by |-> w, n |-> n, vec |-> vec] \in Chunks
  <1>1. ASSUME NEW c \in Chunks
        PROVE  c.by \in Writers /\ c.n \in 1..Len(Texts[c.by]) /\ c.vec \in AllTexts
    <2>1. PICK w \in Writers : c \in [by : {w}, n : DOMAIN Texts[w], vec : AllTexts]
      BY DEF Chunks
    <2>2. DOMAIN Texts[w] = 1..Len(Texts[w])
      BY DocumentFacts
    <2>3. QED
      BY <2>1, <2>2
  <1>2. ASSUME NEW w \in Writers, NEW n, NEW vec, n \in 1..Len(Texts[w]), vec \in AllTexts
        PROVE  [by |-> w, n |-> n, vec |-> vec] \in Chunks
    <2>1. n \in DOMAIN Texts[w]
      BY <1>2, DocumentFacts
    <2>2. [by |-> w, n |-> n, vec |-> vec] \in [by : {w}, n : DOMAIN Texts[w], vec : AllTexts]
      BY <1>2, <2>1
    <2>3. QED
      BY <2>2 DEF Chunks
  <1>3. QED
    BY <1>1, <1>2

Own(c, s) == s.short \/ c.vec = Texts[c.by][c.n]
StoreTypes ==
    /\ backend \in Backends /\ store \in Backends \union {"unset"}
    /\ operational \in BOOLEAN /\ schema \in {"none", "api", "worker"}
    /\ rows \subseteq Chunks /\ points \subseteq Chunks
    /\ IsFiniteSet(rows) /\ IsFiniteSet(points)
StoreChoice ==
    /\ store = "qdrant" => backend = "qdrant"
    /\ backend = "sqlite" => points = {}
    /\ store = "unset" => \A p \in Posts : task[p].pc = "begin"
StoreContent ==
    /\ \A c \in rows \union points : /\ Own(c, task[c.by])
                                     /\ c.by \in Jobs => task[c.by].pc = "done"
    /\ \A c \in rows : c \in points => c.by \notin Jobs
StoresOK == StoreTypes /\ StoreChoice /\ StoreContent

(* What a writer's step adds to a store is its own.                        *)
Added(c, w, to) ==
    /\ c \in Chunks /\ c.by = w /\ Own(c, to)
    /\ w \in Jobs => to.pc = "done"
Grown(was, now, w, to) ==
    IsFiniteSet(now) /\ \A c \in now : c \in was \/ Added(c, w, to)

LEMMA ReplacingFacts ==
    ASSUME NEW stored, IsFiniteSet(stored), NEW new, IsFiniteSet(new)
    PROVE  IsFiniteSet(Replacing(stored, new)) /\ Replacing(stored, new) \subseteq stored \union new
  <1> DEFINE kept == {c \in stored : \A d \in new : ChunkId(c) # ChunkId(d)}
  <1>1. kept \subseteq stored /\ IsFiniteSet(kept)
    BY FS_Subset
  <1>2. IsFiniteSet(kept \union new)
    BY <1>1, FS_Union
  <1>3. QED
    BY <1>1, <1>2 DEF Replacing

LEMMA KeptIsGrown ==
    ASSUME NEW was, IsFiniteSet(was), NEW now \in SUBSET was, NEW w, NEW to
    PROVE  Grown(was, now, w, to)
  BY FS_Subset DEF Grown

LEMMA VectorFacts ==
    ASSUME NEW w \in Writers, TaskOK(w, task[w]), task[w].pc \in {"store", "fallback"}
    PROVE  /\ Vectors(w) \in Seq(AllTexts) /\ Len(Vectors(w)) \in Nat
           /\ Len(Vectors(w)) <= Len(BatchOf(w, task[w]))
           /\ ~task[w].short => Vectors(w) = BatchOf(w, task[w])
  <1> DEFINE s == task[w]
             b == BatchOf(w, s)
  <1>1. s \in Task /\ Aligned(w, s) /\ Coming(w, s) /\ s.pc \in Busy
    BY DEF TaskOK, Busy
  <1>2. Len(s.found) = Len(b) /\ s.found \in Seq(AllTexts \union {None}) /\ Len(s.found) \in Nat
        /\ DOMAIN s.found = 1..Len(s.found)
    BY <1>1, TaskFields DEF Coming, Busy
  <1>3. None \notin AllTexts /\ b \in Seq(AllTexts)
    BY <1>1, RtbfAssumption, BatchFacts
  <1>4. /\ Present(s.found) \in Seq(AllTexts) /\ Len(Present(s.found)) <= Len(s.found)
        /\ (\A i \in DOMAIN s.found : s.found[i] # None) =>
               /\ Len(Present(s.found)) = Len(s.found)
               /\ \A i \in DOMAIN s.found : Present(s.found)[i] = s.found[i]
    BY <1>2, <1>3, PresentFacts
  <1>5. Len(Present(s.found)) \in Nat
    BY <1>4
  <1>6. ASSUME ~s.short PROVE Present(s.found) = b
    <2>1. \A i \in 1..Len(s.found) : s.found[i] # None /\ s.found[i] = b[i]
      BY <1>1, <1>6 DEF Coming, Aligned
    <2>2. Len(Present(s.found)) = Len(b) /\ \A i \in 1..Len(b) : Present(s.found)[i] = b[i]
      BY <1>2, <1>4, <2>1
    <2> HIDE DEF b, s
    <2>3. QED
      BY <1>3, <1>4, <2>2, SeqEqual
  <1>7. QED
    BY <1>2, <1>4, <1>5, <1>6 DEF Vectors

(* What a post writes is its piece, and what a job writes its document,    *)
(* with their own vectors, unless an answer was short.                     *)
PieceOf(p) == {[by |-> p, n |-> task[p].n, vec |-> Vectors(p)[1]]}

LEMMA PieceFacts ==
    ASSUME Work, NEW p \in Posts, task[p].pc = "store", Vectors(p) # <<>>,
           NEW to, task[p].short => to.short
    PROVE  IsFiniteSet(PieceOf(p)) /\ \A c \in PieceOf(p) : Added(c, p, to)
  <1>1. p \in Writers /\ TaskOK(p, task[p]) /\ p \notin Jobs
    BY RtbfAssumption DEF Work, Writers
  <1>2. task[p].n \in 1..Len(Texts[p]) /\ BatchOf(p, task[p]) = <<Texts[p][task[p].n]>>
    BY <1>1 DEF TaskOK, Busy, BatchOf
  <1>3. /\ Vectors(p) \in Seq(AllTexts) /\ Len(Vectors(p)) \in Nat
        /\ ~task[p].short => Vectors(p) = BatchOf(p, task[p])
    BY <1>1, VectorFacts
  <1>4. PICK vec \in AllTexts : vec = Vectors(p)[1]
    <2>1. Len(Vectors(p)) # 0
      BY <1>3
    <2>2. 1 \in 1..Len(Vectors(p))
      BY <1>3, <2>1
    <2>3. QED
      BY <1>3, <2>2, SeqFacts
  <1>5. PICK n \in 1..Len(Texts[p]) : n = task[p].n
    BY <1>2
  <1>6. PICK c : c = [by |-> p, n |-> n, vec |-> vec]
    OBVIOUS
  <1>7. c \in Chunks /\ c.by = p /\ c.n = n /\ c.vec = vec
    BY <1>1, <1>6, ChunkFacts
  <1>8. ~task[p].short => vec = Texts[p][n]
    BY <1>2, <1>3, <1>4, <1>5
  <1>9. task[p].short \in BOOLEAN
    BY <1>1, TaskFields DEF TaskOK
  <1>10. Added(c, p, to)
    BY <1>1, <1>7, <1>8, <1>9 DEF Added, Own
  <1>11. PieceOf(p) = {c}
    BY <1>4, <1>5, <1>6 DEF PieceOf
  <1>12. IsFiniteSet({c})
    BY FS_Singleton
  <1>13. QED
    BY <1>10, <1>11, <1>12

LEMMA ZippedFacts ==
    ASSUME Work, NEW j \in Jobs, task[j].pc \in {"store", "fallback"},
           NEW to, task[j].short => to.short, to.pc = "done"
    PROVE  /\ IsFiniteSet(Zipped(j)) /\ \A c \in Zipped(j) : Added(c, j, to)
           /\ ~task[j].short => \A n \in 1..Len(Texts[j]) : \E c \in Zipped(j) : c.by = j /\ c.n = n
  <1> DEFINE f == [i \in DOMAIN Vectors(j) |-> [by |-> j, n |-> i, vec |-> Vectors(j)[i]]]
  <1>1. j \in Writers /\ TaskOK(j, task[j]) /\ j \notin Posts /\ task[j].pc \in Busy
    BY RtbfAssumption DEF Work, Writers, Busy
  <1>2. BatchOf(j, task[j]) = Texts[j]
    BY <1>1 DEF BatchOf
  <1>3. /\ Vectors(j) \in Seq(AllTexts) /\ Len(Vectors(j)) \in Nat
        /\ Len(Vectors(j)) <= Len(Texts[j])
        /\ ~task[j].short => Vectors(j) = Texts[j]
    BY <1>1, <1>2, VectorFacts
  <1>4. PICK l \in Nat : l = Len(Vectors(j)) /\ DOMAIN Vectors(j) = 1..l
    BY <1>3, SeqFacts
  <1>5. Len(Texts[j]) \in Nat /\ task[j].short \in BOOLEAN
    BY <1>1, DocumentFacts, TaskFields DEF TaskOK
  <1>6. \A i \in 1..l : i \in 1..Len(Texts[j]) /\ Vectors(j)[i] \in AllTexts
    BY <1>3, <1>4, <1>5, SeqFacts
  <1>7. ASSUME NEW i \in 1..l
        PROVE  /\ f[i].by = j /\ f[i].n = i /\ Added(f[i], j, to)
    <2>1. f[i] = [by |-> j, n |-> i, vec |-> Vectors(j)[i]]
      BY <1>4
    <2>2. f[i].by = j /\ f[i].n = i /\ f[i].vec = Vectors(j)[i]
      BY <2>1
    <2>3. f[i] \in Chunks
      BY <1>1, <1>6, <2>1, ChunkFacts
    <2>4. ~task[j].short => f[i].vec = Texts[j][i]
      BY <1>3, <2>2
    <2> HIDE DEF f
    <2>5. QED
      BY <1>5, <2>2, <2>3, <2>4 DEF Added, Own
  <1>8. Zipped(j) = {f[i] : i \in 1..l}
    BY <1>4 DEF Zipped
  <1>9. f \in Surjection(1..l, Zipped(j))
    <2>1. f \in [1..l -> Zipped(j)]
      <3>1. f = [i \in 1..l |-> f[i]]
        BY <1>4
      <3> HIDE DEF f
      <3>2. QED
        BY <1>8, <3>1
    <2> HIDE DEF f
    <2>2. QED
      BY <1>8, <2>1 DEF Surjection
  <1>10. IsFiniteSet(Zipped(j))
    BY <1>9, FS_Interval, FS_Surjection
  <1> HIDE DEF f
  <1>11. \A c \in Zipped(j) : Added(c, j, to)
    BY <1>7, <1>8
  <1>12. ASSUME ~task[j].short, NEW n \in 1..Len(Texts[j])
         PROVE  \E c \in Zipped(j) : c.by = j /\ c.n = n
    <2>1. n \in 1..l
      BY <1>3, <1>4, <1>12
    <2>2. QED
      BY <1>7, <1>8, <2>1
  <1>13. QED
    BY <1>10, <1>11, <1>12

(* A store after a write, or after nothing.                                *)
LEMMA WriteGrows ==
    ASSUME NEW was, IsFiniteSet(was), NEW new, IsFiniteSet(new), NEW w, NEW to,
           \A c \in new : Added(c, w, to)
    PROVE  Grown(was, Replacing(was, new), w, to)
  BY ReplacingFacts DEF Grown

(* A writer's step: both stores hold what they held or its own, one of     *)
(* them no more than before, and the API's store is chosen before a post   *)
(* begins.                                                                 *)
LEMMA MovesKeepStores ==
    ASSUME Work, StoresOK, NEW w \in Writers, NEW to, Moves(w, to), CacheOK(cache'),
           Grown(rows, rows', w, to), Grown(points, points', w, to),
           rows' \subseteq rows \/ points' \subseteq points,
           backend = "sqlite" => points' \subseteq points,
           UNCHANGED <<backend, store>>, operational' \in BOOLEAN,
           schema' \in {"none", "api", "worker"}, w \in Posts => store # "unset"
    PROVE  StoresOK'
  <1>1. Work' /\ task'[w] = to /\ \A v \in Writers : v # w => task'[v] = task[v]
    BY MovesKeepWork
  <1>2. /\ task[w].short => to.short
        /\ task[w].pc # "done"
    BY DEF Moves
  <1>3. task[w].short \in BOOLEAN /\ to.short \in BOOLEAN
    BY <1>1, TaskFields DEF Work, TaskOK, Moves
  <1>4. /\ \A c \in rows' : c \in rows \/ Added(c, w, to)
        /\ \A c \in points' : c \in points \/ Added(c, w, to)
        /\ IsFiniteSet(rows') /\ IsFiniteSet(points')
    BY DEF Grown
  <1>5. \A c \in rows' \union points' : c \in Chunks
    BY <1>4 DEF StoresOK, StoreTypes, Added
  <1>6. StoreTypes'
    BY <1>4, <1>5 DEF StoresOK, StoreTypes
  <1>7. StoreChoice'
    <2>1. backend' = backend /\ store' = store
      OBVIOUS
    <2>2. store = "unset" => \A p \in Posts : task'[p].pc = "begin"
      BY <1>1 DEF StoresOK, StoreChoice, Writers
    <2>3. QED
      BY <2>1, <2>2 DEF StoresOK, StoreChoice
  <1>8. ASSUME NEW c \in rows' \union points'
        PROVE  Own(c, task'[c.by]) /\ (c.by \in Jobs => task'[c.by].pc = "done")
    <2>1. CASE c \in rows \union points
      <3>1. Own(c, task[c.by]) /\ (c.by \in Jobs => task[c.by].pc = "done") /\ c.by \in Writers
        BY <1>5, <2>1, ChunkFacts DEF StoresOK, StoreContent
      <3>2. CASE c.by = w
        BY <1>1, <1>2, <1>3, <3>1, <3>2 DEF Own
      <3>3. CASE c.by # w
        BY <1>1, <3>1, <3>3
      <3>4. QED
        BY <3>2, <3>3
    <2>2. CASE Added(c, w, to)
      BY <1>1, <2>2 DEF Added
    <2>3. QED
      BY <1>4, <2>1, <2>2
  <1>9. ASSUME NEW c \in rows', c \in points' PROVE c.by \notin Jobs
    <2>1. CASE c \in rows /\ c \in points
      BY <2>1 DEF StoresOK, StoreContent
    <2>2. ASSUME Added(c, w, to), c \in rows \union points PROVE c.by \notin Jobs
      BY <1>2, <2>2 DEF StoresOK, StoreContent, Added
    <2>3. QED
      BY <1>4, <1>9, <2>1, <2>2
  <1>10. StoreContent'
    BY <1>8, <1>9 DEF StoreContent
  <1>11. QED
    BY <1>6, <1>7, <1>10 DEF StoresOK

LEMMA RemovalKeepsStores ==
    ASSUME StoresOK, rows' \subseteq rows, points' \subseteq points, UNCHANGED <<backend, task>>,
           store' \in Backends \union {"unset"}, store' = "qdrant" => backend = "qdrant",
           store' = "unset" => store = "unset", operational' \in BOOLEAN,
           schema' \in {"none", "api", "worker"}
    PROVE  StoresOK'
  <1>1. IsFiniteSet(rows') /\ IsFiniteSet(points')
    BY FS_Subset DEF StoresOK, StoreTypes
  <1>2. StoreTypes'
    BY <1>1 DEF StoresOK, StoreTypes
  <1>3. StoreChoice'
    BY DEF StoresOK, StoreChoice
  <1>4. StoreContent'
    BY DEF StoresOK, StoreContent
  <1>5. QED
    BY <1>2, <1>3, <1>4 DEF StoresOK

StoreStep(w, to) ==
    /\ Moves(w, to) /\ CacheOK(cache')
    /\ Grown(rows, rows', w, to) /\ Grown(points, points', w, to)
    /\ rows' \subseteq rows \/ points' \subseteq points
    /\ backend = "sqlite" => points' \subseteq points
    /\ UNCHANGED <<backend, store, erase, audit>>
    /\ operational' \in BOOLEAN /\ (~operational => ~operational')
    /\ schema' \in {"none", "api", "worker"}
    /\ w \in Posts => store # "unset"

LEMMA CreatedType ==
    ASSUME StoresOK, NEW columns \in {"api", "worker"}
    PROVE  Created(columns) \in {"none", "api", "worker"}
  BY DEF Created, StoresOK, StoreTypes

LEMMA IdleStores ==
    ASSUME StoresOK, NEW w \in Writers, NEW to, Moves(w, to), CacheOK(cache'),
           UNCHANGED <<backend, store, operational, schema, rows, points, erase, audit>>,
           task[w].pc # "begin" \/ w \notin Posts
    PROVE  StoreStep(w, to)
  <1>1. Grown(rows, rows', w, to) /\ Grown(points, points', w, to)
    BY KeptIsGrown DEF StoresOK, StoreTypes
  <1>2. w \in Posts => store # "unset"
    BY DEF StoresOK, StoreChoice
  <1>3. QED
    BY <1>1, <1>2 DEF StoreStep, StoresOK, StoreTypes

LEMMA QdrantStep ==
    ASSUME StoresOK, NEW written, OnQdrant(written)
    PROVE  /\ points' = points \/ points' = written
           /\ operational' \in BOOLEAN /\ (~operational => ~operational')
           /\ operational' => points' = written
  <1>1. operational \in BOOLEAN
    BY DEF StoresOK, StoreTypes
  <1>2. CASE operational /\ points' = written /\ UNCHANGED operational
    BY <1>1, <1>2
  <1>3. CASE operational /\ QdrantError /\ UNCHANGED points
    <2>1. operational' = FALSE
      BY <1>3 DEF QdrantError
    <2>2. QED
      BY <1>3, <2>1
  <1>4. CASE ~operational /\ UNCHANGED <<points, operational>>
    BY <1>1, <1>4
  <1>5. QED
    BY <1>2, <1>3, <1>4 DEF OnQdrant

LEMMA DeleteStep ==
    ASSUME Work, StoresOK, NEW p \in Posts, DeleteBySource(p)
    PROVE  \E to : /\ StoreStep(p, to) /\ to.pc \in {"lookup", "done", "failed"}
                   /\ to.pc = "lookup" => to.n = 1
                   /\ to.pc = "done" => Len(Texts[p]) = 0
                   /\ rows \ OfSource(rows, p) \subseteq rows'
                   /\ points \ OfSource(points, p) \subseteq points'
  <1>1. /\ p \in Writers /\ task[p].pc = "begin" /\ store # "unset" /\ CacheOK(cache')
        /\ UNCHANGED <<backend, store, schema, cache, erase, audit>>
    BY DEF DeleteBySource, Writers, Work
  <1>2. Goto(p, Begun(p)) \/ Goto(p, "failed")
    BY DEF DeleteBySource
  <1>3. PICK to : /\ Moves(p, to) /\ to.pc \in {"lookup", "done", "failed"}
                  /\ to.pc = "lookup" => to.n = 1
                  /\ to.pc = "done" => Len(Texts[p]) = 0
    <2>1. CASE Goto(p, Begun(p))
      BY <1>1, <2>1, BeginMoves
    <2>2. CASE Goto(p, "failed")
      BY <1>1, <2>2, StopMoves
    <2>3. QED
      BY <1>2, <2>1, <2>2
  <1>4. /\ rows' \subseteq rows /\ points' \subseteq points
        /\ rows \ OfSource(rows, p) \subseteq rows'
        /\ points \ OfSource(points, p) \subseteq points'
        /\ operational' \in BOOLEAN /\ (~operational => ~operational')
    <2>1. CASE store = "qdrant"
      <3>1. OnQdrant(points \ OfSource(points, p)) /\ rows' = rows
        BY <2>1 DEF DeleteBySource
      <3>2. QED
        BY <3>1, QdrantStep
    <2>2. CASE store # "qdrant"
      <3>1. (rows' = rows \ OfSource(rows, p) \/ rows' = rows)
            /\ points' = points /\ operational' = operational
        BY <2>2 DEF DeleteBySource
      <3>2. operational \in BOOLEAN
        BY DEF StoresOK, StoreTypes
      <3>3. QED
        BY <3>1, <3>2
    <2>3. QED
      BY <2>1, <2>2
  <1>5. Grown(rows, rows', p, to) /\ Grown(points, points', p, to)
    BY <1>4, KeptIsGrown DEF StoresOK, StoreTypes
  <1>6. StoreStep(p, to)
    BY <1>1, <1>3, <1>4, <1>5 DEF StoreStep, StoresOK, StoreTypes
  <1>7. QED
    BY <1>3, <1>4, <1>6

LEMMA EmbedStep ==
    ASSUME Work, StoresOK, NEW w \in Writers, EmbedBatch(w)
    PROVE  /\ \E to : StoreStep(w, to) /\ to.pc # "done" /\ to.n = task[w].n
           /\ task[w].pc # "begin" /\ UNCHANGED <<operational, rows, points>>
  BY EmbedMoves, IdleStores

LEMMA NoVectorStep ==
    ASSUME Work, StoresOK, NEW p \in Posts, NoVector(p)
    PROVE  /\ \E to : StoreStep(p, to) /\ to.pc = "failed"
           /\ task[p].pc # "begin" /\ UNCHANGED <<operational, rows, points>>
  <1>1. /\ p \in Writers /\ task[p].pc = "store" /\ Goto(p, "failed") /\ CacheOK(cache')
        /\ UNCHANGED <<backend, store, operational, schema, rows, points, erase, audit>>
    BY DEF NoVector, Stores, Writers, Work
  <1>2. PICK to : Moves(p, to) /\ to.pc = "failed"
    BY <1>1, StopMoves
  <1>3. QED
    BY <1>1, <1>2, IdleStores

LEMMA UpsertStep ==
    ASSUME Work, StoresOK, NEW p \in Posts, Upsert(p)
    PROVE  \E to : /\ StoreStep(p, to) /\ to.pc \in {"lookup", "done", "failed"}
                   /\ to.pc = "lookup" => to.n = task[p].n + 1
                   /\ to.pc = "done" => task[p].n = Len(Texts[p])
                   /\ to.pc # "failed" => \/ rows' = Replacing(rows, PieceOf(p))
                                          \/ points' = Replacing(points, PieceOf(p))
                                          \/ ~operational'
                   /\ rows' = rows \/ rows' = Replacing(rows, PieceOf(p))
                   /\ points' = points \/ points' = Replacing(points, PieceOf(p))
                   /\ task[p].pc = "store" /\ IsFiniteSet(PieceOf(p))
  <1>1. /\ p \in Writers /\ task[p].pc = "store" /\ Vectors(p) # <<>> /\ CacheOK(cache')
        /\ UNCHANGED <<backend, store, schema, cache, erase, audit>>
    BY DEF Upsert, Writers, Work
  <1>2. task' = [task EXCEPT ![p] = AfterPiece(p)] \/ Goto(p, "failed")
    BY DEF Upsert
  <1>3. PICK to : /\ Moves(p, to) /\ to.pc \in {"lookup", "done", "failed"}
                  /\ to.pc = "lookup" => to.n = task[p].n + 1
                  /\ to.pc = "done" => task[p].n = Len(Texts[p])
    <2>1. CASE task' = [task EXCEPT ![p] = AfterPiece(p)]
      BY <1>1, <2>1, AfterMoves
    <2>2. CASE Goto(p, "failed")
      BY <1>1, <2>2, StopMoves
    <2>3. QED
      BY <1>2, <2>1, <2>2
  <1>4. IsFiniteSet(PieceOf(p)) /\ \A c \in PieceOf(p) : Added(c, p, to)
    BY <1>1, <1>3, PieceFacts DEF Moves
  <1>5. to.pc # "failed" => ~Goto(p, "failed")
    <2>1. task' = [task EXCEPT ![p] = to] /\ task = [x \in Writers |-> task[x]]
          /\ task[p] \in Task
      BY <1>1, <1>3 DEF Moves, Work, TaskOK
    <2>2. Goto(p, "failed") => to.pc = "failed"
      BY <1>1, <2>1 DEF Goto, Task
    <2>3. QED
      BY <2>2
  <1>6. /\ rows' = rows \/ rows' = Replacing(rows, PieceOf(p))
        /\ points' = points \/ points' = Replacing(points, PieceOf(p))
        /\ rows' = rows \/ points' = points
        /\ store # "qdrant" => points' = points
        /\ operational' \in BOOLEAN /\ (~operational => ~operational')
        /\ to.pc # "failed" => \/ rows' = Replacing(rows, PieceOf(p))
                               \/ points' = Replacing(points, PieceOf(p))
                               \/ ~operational'
    <2>1. CASE store = "qdrant"
      <3>1. OnQdrant(Replacing(points, PieceOf(p))) /\ rows' = rows
        BY <2>1 DEF Upsert, PieceOf
      <3>2. QED
        BY <2>1, <3>1, QdrantStep
    <2>2. CASE store # "qdrant"
      <3>1. /\ rows' = Replacing(rows, PieceOf(p)) \/ (rows' = rows /\ Goto(p, "failed"))
            /\ points' = points /\ operational' = operational
        BY <2>2 DEF Upsert, PieceOf
      <3>2. operational \in BOOLEAN
        BY DEF StoresOK, StoreTypes
      <3>3. QED
        BY <1>5, <2>2, <3>1, <3>2
    <2>3. QED
      BY <2>1, <2>2
  <1>7. IsFiniteSet(rows) /\ IsFiniteSet(points)
    BY DEF StoresOK, StoreTypes
  <1>8. Grown(rows, rows', p, to) /\ Grown(points, points', p, to)
    BY <1>4, <1>6, <1>7, WriteGrows, KeptIsGrown
  <1>9. backend = "sqlite" => points' \subseteq points
    BY <1>6 DEF StoresOK, StoreChoice
  <1>10. store # "unset"
    BY <1>1 DEF StoresOK, StoreChoice
  <1>11. StoreStep(p, to)
    BY <1>1, <1>3, <1>6, <1>8, <1>9, <1>10 DEF StoreStep, StoresOK, StoreTypes
  <1>12. QED
    BY <1>1, <1>3, <1>4, <1>6, <1>11

LEMMA StartStep ==
    ASSUME Work, StoresOK, NEW j \in Jobs, StartJob(j)
    PROVE  /\ \E to : /\ StoreStep(j, to) /\ to.pc \in {"lookup", "done"}
                      /\ to.pc = "done" => Len(Texts[j]) = 0
           /\ UNCHANGED <<operational, rows, points>>
  <1>1. /\ j \in Writers /\ j \notin Posts /\ task[j].pc = "begin" /\ Goto(j, Begun(j))
        /\ CacheOK(cache')
        /\ UNCHANGED <<backend, store, operational, schema, rows, points, erase, audit>>
    BY RtbfAssumption DEF StartJob, Stores, Writers, Work
  <1>2. PICK to : Moves(j, to) /\ to.pc \in {"lookup", "done"}
                  /\ (to.pc = "done" => Len(Texts[j]) = 0)
    BY <1>1, BeginMoves
  <1>3. QED
    BY <1>1, <1>2, IdleStores

LEMMA JobStores ==
    ASSUME Work, StoresOK, NEW j \in Jobs, NEW pc \in {"done", "failed", "fallback"},
           task[j].pc \in {"store", "fallback"}, Goto(j, pc), pc = "fallback" => task[j].pc = "store",
           UNCHANGED <<backend, store, operational, cache, erase, audit>>,
           schema' \in {"none", "api", "worker"},
           rows' = rows \/ rows' = Replacing(rows, Zipped(j)),
           points' = points \/ points' = Replacing(points, Zipped(j)),
           rows' = rows \/ points' = points,
           pc # "done" => rows' = rows /\ points' = points,
           backend = "sqlite" => points' = points
    PROVE  \E to : StoreStep(j, to) /\ to.pc = pc
  <1>1. j \in Writers /\ j \notin Posts /\ CacheOK(cache')
    BY RtbfAssumption DEF Writers, Work
  <1>2. PICK to : Moves(j, to) /\ to.pc = pc
    <2>1. CASE pc = "fallback"
      BY <2>1, FallbackMoves
    <2>2. CASE pc # "fallback"
      BY <1>1, <2>2, StopMoves
    <2>3. QED
      BY <2>1, <2>2
  <1>3. IsFiniteSet(rows) /\ IsFiniteSet(points)
    BY DEF StoresOK, StoreTypes
  <1>4. Grown(rows, rows', j, to) /\ Grown(points, points', j, to)
    <2>1. CASE pc = "done"
      <3>1. IsFiniteSet(Zipped(j)) /\ \A c \in Zipped(j) : Added(c, j, to)
        BY <1>2, <2>1, ZippedFacts DEF Moves
      <3>2. QED
        BY <1>3, <3>1, WriteGrows, KeptIsGrown
    <2>2. CASE pc # "done"
      BY <1>3, <2>2, KeptIsGrown
    <2>3. QED
      BY <2>1, <2>2
  <1>5. StoreStep(j, to)
    BY <1>1, <1>2, <1>4 DEF StoreStep, StoresOK, StoreTypes
  <1>6. QED
    BY <1>2, <1>5

(* A job is done when one of the stores has taken its chunks.              *)
Written(j) ==
    /\ task[j].pc \in {"store", "fallback"}
    /\ rows' = rows \/ rows' = Replacing(rows, Zipped(j))
    /\ points' = points \/ points' = Replacing(points, Zipped(j))
    /\ task'[j].pc = "done" => \/ rows' = Replacing(rows, Zipped(j))
                               \/ points' = Replacing(points, Zipped(j))
    /\ UNCHANGED operational

LEMMA UpsertQdrantStep ==
    ASSUME Work, StoresOK, NEW j \in Jobs, UpsertQdrant(j)
    PROVE  Written(j) /\ \E to : StoreStep(j, to)
  <1>1. /\ task[j].pc = "store" /\ backend = "qdrant"
        /\ UNCHANGED <<backend, store, operational, schema, rows, cache, erase, audit>>
        /\ schema' \in {"none", "api", "worker"}
    BY DEF UpsertQdrant, StoresOK, StoreTypes
  <1>2. CASE points' = Replacing(points, Zipped(j)) /\ Goto(j, "done")
    <2>1. \E to : StoreStep(j, to)
      BY <1>1, <1>2, JobStores
    <2>2. QED
      BY <1>1, <1>2, <2>1 DEF Written
  <1>3. CASE UNCHANGED points /\ Goto(j, "fallback")
    <2>1. PICK to : StoreStep(j, to) /\ to.pc = "fallback"
      BY <1>1, <1>3, JobStores
    <2>2. j \in Writers
      BY DEF Writers
    <2>3. task'[j] = to
      BY <2>1, <2>2, MovesKeepWork DEF StoreStep
    <2>4. QED
      BY <1>1, <1>3, <2>1, <2>3 DEF Written
  <1>4. QED
    BY <1>2, <1>3 DEF UpsertQdrant

LEMMA UpsertSqliteStep ==
    ASSUME Work, StoresOK, NEW j \in Jobs, UpsertSqlite(j)
    PROVE  Written(j) /\ \E to : StoreStep(j, to)
  <1>1. /\ task[j].pc \in {"store", "fallback"}
        /\ UNCHANGED <<backend, store, operational, points, cache, erase, audit>>
    BY DEF UpsertSqlite
  <1>2. schema' \in {"none", "api", "worker"}
    BY CreatedType DEF UpsertSqlite, StoresOK, StoreTypes
  <1>3. CASE rows' = Replacing(rows, Zipped(j)) /\ Goto(j, "done")
    <2>1. \E to : StoreStep(j, to)
      BY <1>1, <1>2, <1>3, JobStores
    <2>2. QED
      BY <1>1, <1>3, <2>1 DEF Written
  <1>4. CASE UNCHANGED rows /\ Goto(j, "failed")
    <2>1. PICK to : StoreStep(j, to) /\ to.pc = "failed"
      BY <1>1, <1>2, <1>4, JobStores
    <2>2. j \in Writers
      BY DEF Writers
    <2>3. task'[j] = to
      BY <2>1, <2>2, MovesKeepWork DEF StoreStep
    <2>4. QED
      BY <1>1, <1>4, <2>1, <2>3 DEF Written
  <1>5. QED
    BY <1>3, <1>4 DEF UpsertSqlite

LEMMA WriterSteps ==
    ASSUME Work, StoresOK
    PROVE  /\ \A p \in Posts : Post(p) => \E to : StoreStep(p, to)
           /\ \A j \in Jobs : ProcessJob(j) => \E to : StoreStep(j, to)
  <1>1. Posts \subseteq Writers /\ Jobs \subseteq Writers
    BY DEF Writers
  <1>2. ASSUME NEW p \in Posts, Post(p) PROVE \E to : StoreStep(p, to)
    <2>1. DeleteBySource(p) \/ EmbedBatch(p) \/ NoVector(p) \/ Upsert(p)
      BY <1>2 DEF Post
    <2>2. QED
      BY <1>1, <2>1, DeleteStep, EmbedStep, NoVectorStep, UpsertStep
  <1>3. ASSUME NEW j \in Jobs, ProcessJob(j) PROVE \E to : StoreStep(j, to)
    <2>1. StartJob(j) \/ EmbedBatch(j) \/ UpsertQdrant(j) \/ UpsertSqlite(j)
      BY <1>3 DEF ProcessJob
    <2>2. QED
      BY <1>1, <2>1, StartStep, EmbedStep, UpsertQdrantStep, UpsertSqliteStep
  <1>4. QED
    BY <1>2, <1>3

LEMMA StoreStepKeeps ==
    ASSUME Work, StoresOK, NEW w \in Writers, NEW to, StoreStep(w, to)
    PROVE  /\ Work' /\ StoresOK' /\ task'[w] = to
           /\ \A v \in Writers : v # w => task'[v] = task[v]
  BY MovesKeepWork, MovesKeepStores DEF StoreStep

(* The choice of the API's store.                                          *)
LEMMA GetStoreKeeps ==
    ASSUME Work, StoresOK, GetStore
    PROVE  /\ Work' /\ StoresOK' /\ UNCHANGED <<rows, points, task, erase, audit>>
           /\ store = "unset"
  <1>1. /\ UNCHANGED <<backend, rows, points, cache, task, erase, audit>> /\ store = "unset"
        /\ store' \in Backends /\ (store' = "qdrant" => backend = "qdrant")
        /\ operational' \in BOOLEAN
        /\ schema' = schema \/ schema' = Created("api")
    BY DEF GetStore, Backends
  <1>2. schema' \in {"none", "api", "worker"}
    BY <1>1, CreatedType DEF StoresOK, StoreTypes
  <1>3. store' # "unset"
    BY <1>1 DEF Backends
  <1>4. StoresOK'
    BY <1>1, <1>2, <1>3, RemovalKeepsStores
  <1>5. Work'
    BY <1>1 DEF Work
  <1>6. QED
    BY <1>1, <1>4, <1>5

-----------------------------------------------------------------------------
(* The erasures.  What one has seen are chunks of jobs that are over: no   *)
(* writer stores them again.                                               *)
ErasureOK(e, s) ==
    /\ s \in Erasure
    /\ s.pc \in {"begin", "select"} => s.seen = {} /\ s.counted = 0
    /\ s.pc = "delete" => ~s.dry /\ backend = "sqlite"
    /\ \A c \in s.seen : c.by \in Jobs /\ Subject[c.by] = Target[e]
SeenAreOver(s) == \A c \in s.seen : task[c.by].pc = "done"
Certified(s, r, p) ==
    (~s.dry /\ s.pc \in {"cache", "audit", "done"} /\ s.counted > 0) =>
        \A c \in s.seen : c \notin r /\ c \notin p

AuditRow == [subject : {Target[e] : e \in Erasures}, chunks : Nat]
Over == {e \in Erasures : erase[e].pc = "done"}

ErasuresOK ==
    /\ erase = [e \in Erasures |-> erase[e]]
    /\ \A e \in Erasures : /\ ErasureOK(e, erase[e]) /\ SeenAreOver(erase[e])
                           /\ Certified(erase[e], rows, points)
    /\ audit \in Seq(AuditRow) /\ Len(audit) <= Cardinality(Over)

LEMMA ErasureFields ==
    ASSUME NEW s \in Erasure
    PROVE  /\ s.pc \in ErasurePC /\ s.dry \in BOOLEAN /\ s.had \subseteq Chunks
           /\ s.seen \subseteq Chunks /\ s.counted \in Nat
           /\ s = [pc |-> s.pc, dry |-> s.dry, had |-> s.had, seen |-> s.seen,
                   counted |-> s.counted]
  BY DEF Erasure

LEMMA ErasureOf ==
    ASSUME NEW s \in Erasure, NEW pc \in ErasurePC, NEW had \in SUBSET Chunks,
           NEW seen \in SUBSET Chunks, NEW counted \in Nat
    PROVE  LET to == [s EXCEPT !.pc = pc, !.had = had, !.seen = seen, !.counted = counted]
           IN  /\ to \in Erasure /\ to.pc = pc /\ to.dry = s.dry /\ to.had = had
               /\ to.seen = seen /\ to.counted = counted
  BY DEF Erasure

(* A step of an erasure.                                                   *)
Erases(e, to) ==
    /\ erase' = [erase EXCEPT ![e] = to]
    /\ ErasureOK(e, to) /\ SeenAreOver(to) /\ Certified(to, rows', points')
    /\ erase[e].pc # "done" /\ to.pc # "begin" /\ to.dry = erase[e].dry
    /\ rows' \subseteq rows /\ points' \subseteq points
    /\ \A c \in rows \union points :
           \/ c \in rows' \union points'
           \/ c.by \in Jobs /\ Subject[c.by] = Target[e] /\ ~to.dry
    /\ UNCHANGED <<backend, store, operational, schema, cache, task>>
    /\ audit' \in Seq(AuditRow)
    /\ Len(audit') = Len(audit) \/ (to.pc = "done" /\ Len(audit') = Len(audit) + 1)

LEMMA TaggedFacts ==
    ASSUME StoresOK, NEW stored \in {rows, points}, NEW e \in Erasures
    PROVE  /\ Tagged(stored, e) \in SUBSET Chunks /\ Cardinality(Tagged(stored, e)) \in Nat
           /\ Tagged(stored, e) \subseteq stored
           /\ \A c \in Tagged(stored, e) : /\ c.by \in Jobs /\ Subject[c.by] = Target[e]
                                           /\ task[c.by].pc = "done"
           /\ \A c \in stored : c.by \in Jobs /\ Subject[c.by] = Target[e] => c \in Tagged(stored, e)
  <1>1. Tagged(stored, e) \subseteq stored
        /\ \A c \in stored : (c.by \in Jobs /\ Subject[c.by] = Target[e]) <=> c \in Tagged(stored, e)
    BY DEF Tagged, OfSubject
  <1>2. stored \subseteq Chunks /\ IsFiniteSet(stored)
    BY DEF StoresOK, StoreTypes
  <1>3. Cardinality(Tagged(stored, e)) \in Nat
    BY <1>1, <1>2, FS_Subset, FS_CardinalityType
  <1>4. \A c \in stored : c.by \in Jobs => task[c.by].pc = "done"
    BY DEF StoresOK, StoreContent
  <1>5. QED
    BY <1>1, <1>2, <1>3, <1>4

LEMMA BeginErases ==
    ASSUME StoresOK, ErasuresOK, NEW e \in Erasures, BeginErasure(e)
    PROVE  \E to : Erases(e, to)
  <1> DEFINE s == erase[e]
             had == OfSubject(rows \union points, e)
             to == [s EXCEPT !.pc = "select", !.had = had]
  <1>1. /\ s.pc = "begin" /\ ErasureOK(e, s) /\ SeenAreOver(s)
        /\ erase = [x \in Erasures |-> erase[x]]
    BY DEF BeginErasure, ErasuresOK
  <1>2. /\ erase' = [erase EXCEPT ![e].pc = "select", ![e].had = had]
        /\ UNCHANGED <<backend, store, operational, schema, rows, points, cache, task, audit>>
    BY DEF BeginErasure, Stores
  <1>3. had \in SUBSET Chunks
    BY DEF OfSubject, StoresOK, StoreTypes
  <1> HIDE DEF had
  <1>4. erase' = [erase EXCEPT ![e] = to]
    BY <1>1, <1>2
  <1>5. /\ to \in Erasure /\ to.pc = "select" /\ to.dry = s.dry /\ to.seen = s.seen
        /\ to.counted = s.counted
    BY <1>1, <1>3 DEF ErasureOK, Erasure, ErasurePC
  <1> HIDE DEF to
  <1>6. ErasureOK(e, to) /\ SeenAreOver(to) /\ Certified(to, rows', points')
    BY <1>1, <1>5 DEF ErasureOK, SeenAreOver, Certified
  <1>7. audit' \in Seq(AuditRow) /\ Len(audit') = Len(audit)
    BY <1>2 DEF ErasuresOK
  <1>8. Erases(e, to)
    BY <1>1, <1>2, <1>4, <1>5, <1>6, <1>7 DEF Erases
  <1>9. QED
    BY <1>8

(* The same, in parts: what the step makes of its erasure, and what it     *)
(* leaves of the stores.                                                   *)
Sets(e, pc, seen, counted) ==
    erase' = [erase EXCEPT ![e] = [@ EXCEPT !.pc = pc, !.seen = seen, !.counted = counted]]
Leaves(e, pc, seen, counted) ==
    /\ pc \in ErasurePC \ {"begin", "select"} /\ erase[e].pc # "done"
    /\ pc = "delete" => ~erase[e].dry /\ backend = "sqlite"
    /\ seen \subseteq Chunks /\ counted \in Nat
    /\ \A c \in seen : c.by \in Jobs /\ Subject[c.by] = Target[e] /\ task[c.by].pc = "done"
    /\ (~erase[e].dry /\ pc # "delete" /\ counted > 0) =>
           \A c \in seen : c \notin rows' /\ c \notin points'
    /\ rows' \subseteq rows /\ points' \subseteq points
    /\ \A c \in rows \union points :
           \/ c \in rows' \union points'
           \/ c.by \in Jobs /\ Subject[c.by] = Target[e] /\ ~erase[e].dry
    /\ UNCHANGED <<backend, store, operational, schema, cache, task>>
    /\ audit' \in Seq(AuditRow)
    /\ Len(audit') = Len(audit) \/ (pc = "done" /\ Len(audit') = Len(audit) + 1)

LEMMA EraseTo ==
    ASSUME ErasuresOK, NEW e \in Erasures, NEW pc, NEW seen, NEW counted,
           Sets(e, pc, seen, counted), Leaves(e, pc, seen, counted)
    PROVE  \E to : Erases(e, to)
  <1> DEFINE s == erase[e]
             to == [s EXCEPT !.pc = pc, !.seen = seen, !.counted = counted]
  <1>1. s \in Erasure
    BY DEF ErasuresOK, ErasureOK
  <1>2. erase' = [erase EXCEPT ![e] = to]
    BY DEF ErasuresOK, Sets
  <1>3. pc \in ErasurePC /\ seen \subseteq Chunks /\ counted \in Nat
    BY DEF Leaves
  <1>4. /\ to \in Erasure /\ to.pc = pc /\ to.dry = s.dry /\ to.seen = seen
        /\ to.counted = counted
    BY <1>1, <1>3 DEF Erasure
  <1> HIDE DEF to
  <1>5. ErasureOK(e, to) /\ SeenAreOver(to)
    BY <1>4 DEF ErasureOK, SeenAreOver, Leaves
  <1>6. Certified(to, rows', points')
    BY <1>4 DEF Certified, Leaves
  <1>7. Erases(e, to)
    BY <1>2, <1>4, <1>5, <1>6 DEF Erases, Leaves
  <1>8. QED
    BY <1>7

LEMMA EraseKeep ==
    ASSUME ErasuresOK, NEW e \in Erasures, NEW pc \in ErasurePC,
           erase' = [erase EXCEPT ![e].pc = pc]
    PROVE  Sets(e, pc, erase[e].seen, erase[e].counted)
  <1>1. PICK s \in Erasure : s = erase[e]
    BY DEF ErasuresOK, ErasureOK
  <1>2. [s EXCEPT !.pc = pc] = [s EXCEPT !.pc = pc, !.seen = s.seen, !.counted = s.counted]
    BY <1>1, ErasureFields DEF Erasure
  <1>3. erase' = [erase EXCEPT ![e] = [s EXCEPT !.pc = pc]]
    BY <1>1 DEF ErasuresOK
  <1>4. QED
    BY <1>1, <1>2, <1>3 DEF ErasuresOK, Sets

LEMMA EraseCount ==
    ASSUME ErasuresOK, NEW e \in Erasures, NEW pc \in ErasurePC, NEW counted \in Nat,
           erase' = [erase EXCEPT ![e].pc = pc, ![e].counted = counted]
    PROVE  Sets(e, pc, erase[e].seen, counted)
  <1>1. PICK s \in Erasure : s = erase[e]
    BY DEF ErasuresOK, ErasureOK
  <1>2. [s EXCEPT !.pc = pc, !.counted = counted]
            = [s EXCEPT !.pc = pc, !.seen = s.seen, !.counted = counted]
    BY <1>1, ErasureFields DEF Erasure
  <1>3. erase' = [erase EXCEPT ![e] = [s EXCEPT !.pc = pc, !.counted = counted]]
    BY <1>1 DEF ErasuresOK
  <1>4. QED
    BY <1>1, <1>2, <1>3 DEF ErasuresOK, Sets

LEMMA EraseFacts ==
    ASSUME ErasuresOK, NEW e \in Erasures
    PROVE  /\ erase[e] \in Erasure /\ erase[e].seen \in SUBSET Chunks /\ erase[e].counted \in Nat
           /\ erase[e].dry \in BOOLEAN
           /\ \A c \in erase[e].seen : /\ c.by \in Jobs /\ Subject[c.by] = Target[e]
                                       /\ task[c.by].pc = "done"
           /\ erase[e].pc = "select" => erase[e].seen = {} /\ erase[e].counted = 0
           /\ erase[e].pc = "delete" => ~erase[e].dry /\ backend = "sqlite"
           /\ Certified(erase[e], rows, points)
           /\ audit \in Seq(AuditRow) /\ Len(audit) \in Nat
  <1>1. audit \in Seq(AuditRow)
    BY DEF ErasuresOK
  <1>2. Len(audit) \in Nat
    BY <1>1, SeqFacts
  <1>3. QED
    BY <1>1, <1>2, ErasureFields DEF ErasuresOK, ErasureOK, SeenAreOver

LEMMA EraseQdrantErases ==
    ASSUME StoresOK, ErasuresOK, NEW e \in Erasures, EraseQdrant(e)
    PROVE  \E to : Erases(e, to)
  <1> DEFINE hits == Tagged(points, e)
  <1>1. /\ erase[e].pc = "select" /\ backend = "qdrant"
        /\ UNCHANGED <<backend, store, operational, schema, rows, cache, task, audit>>
    BY DEF EraseQdrant
  <1>2. /\ hits \in SUBSET Chunks /\ Cardinality(hits) \in Nat /\ hits \subseteq points
        /\ \A c \in hits : c.by \in Jobs /\ Subject[c.by] = Target[e] /\ task[c.by].pc = "done"
    BY TaggedFacts
  <1>3. {"cache"} \subseteq ErasurePC \ {"begin", "select"}
    BY DEF ErasurePC
  <1> HIDE DEF hits
  <1>4. CASE /\ ~erase[e].dry /\ points' = points \ hits
             /\ erase' = [erase EXCEPT ![e].pc = "cache", ![e].seen = hits, ![e].counted = 1]
    <2>1. Sets(e, "cache", hits, 1)
      <3>1. PICK s \in Erasure : s = erase[e]
        BY EraseFacts
      <3>2. erase' = [erase EXCEPT ![e] = [s EXCEPT !.pc = "cache", !.seen = hits, !.counted = 1]]
        BY <1>4, <3>1 DEF ErasuresOK
      <3>3. QED
        BY <3>1, <3>2 DEF ErasuresOK, Sets
    <2>2. \A c \in hits : c \notin rows' /\ c \notin points'
      BY <1>1, <1>2, <1>4 DEF StoresOK, StoreContent
    <2>3. audit' \in Seq(AuditRow) /\ Len(audit') = Len(audit)
      BY <1>1 DEF ErasuresOK
    <2>4. \A c \in rows \union points :
               \/ c \in rows' \union points'
               \/ c.by \in Jobs /\ Subject[c.by] = Target[e] /\ ~erase[e].dry
      BY <1>1, <1>2, <1>4
    <2>5. Leaves(e, "cache", hits, 1)
      BY <1>1, <1>2, <1>3, <1>4, <2>2, <2>3, <2>4 DEF Leaves
    <2>6. QED
      BY <2>1, <2>5, EraseTo
  <1>5. CASE /\ erase[e].dry /\ UNCHANGED points
             /\ erase' = [erase EXCEPT ![e].pc = "cache", ![e].counted = Cardinality(hits)]
    <2>1. Sets(e, "cache", erase[e].seen, Cardinality(hits))
      BY <1>2, <1>3, <1>5, EraseCount
    <2>2. Leaves(e, "cache", erase[e].seen, Cardinality(hits))
      BY <1>1, <1>2, <1>3, <1>5, EraseFacts DEF Leaves
    <2>3. QED
      BY <2>1, <2>2, EraseTo
  <1>6. CASE erase' = [erase EXCEPT ![e].pc = "cache"] /\ UNCHANGED points
    <2>1. Sets(e, "cache", erase[e].seen, erase[e].counted)
      BY <1>3, <1>6, EraseKeep
    <2>2. Leaves(e, "cache", erase[e].seen, erase[e].counted)
      BY <1>1, <1>3, <1>6, EraseFacts DEF Leaves
    <2>3. QED
      BY <2>1, <2>2, EraseTo
  <1>7. QED
    BY <1>4, <1>5, <1>6 DEF EraseQdrant, hits

LEMMA CountErases ==
    ASSUME StoresOK, ErasuresOK, NEW e \in Erasures, CountSqlite(e)
    PROVE  \E to : Erases(e, to)
  <1> DEFINE hits == Tagged(rows, e)
             pc == IF erase[e].dry \/ hits = {} THEN "cache" ELSE "delete"
  <1>1. /\ erase[e].pc = "select" /\ backend = "sqlite"
        /\ UNCHANGED <<backend, store, operational, schema, rows, points, cache, task, audit>>
    BY DEF CountSqlite, Stores
  <1>2. /\ hits \in SUBSET Chunks /\ Cardinality(hits) \in Nat /\ hits \subseteq rows
        /\ \A c \in hits : c.by \in Jobs /\ Subject[c.by] = Target[e] /\ task[c.by].pc = "done"
    BY TaggedFacts
  <1>3. {"cache", "delete"} \subseteq ErasurePC \ {"begin", "select"}
    BY DEF ErasurePC
  <1>4. audit' \in Seq(AuditRow) /\ Len(audit') = Len(audit)
    BY <1>1 DEF ErasuresOK
  <1>5. CASE erase' = [erase EXCEPT ![e].seen = hits, ![e].counted = Cardinality(hits),
                                    ![e].pc = pc]
    <2>1. /\ pc \in {"cache", "delete"} /\ (pc = "delete" => ~erase[e].dry)
          /\ ~erase[e].dry /\ pc # "delete" => hits = {}
      OBVIOUS
    <2> HIDE DEF pc, hits
    <2>2. Sets(e, pc, hits, Cardinality(hits))
      <3>1. PICK s \in Erasure : s = erase[e]
        BY EraseFacts
      <3>2. [s EXCEPT !.seen = hits, !.counted = Cardinality(hits), !.pc = pc]
                = [s EXCEPT !.pc = pc, !.seen = hits, !.counted = Cardinality(hits)]
        BY <3>1 DEF Erasure
      <3>3. erase' = [erase EXCEPT ![e] = [s EXCEPT !.seen = hits, !.counted = Cardinality(hits),
                                                    !.pc = pc]]
        BY <1>5, <3>1 DEF ErasuresOK
      <3>4. QED
        BY <3>1, <3>2, <3>3 DEF ErasuresOK, Sets
    <2>3. Leaves(e, pc, hits, Cardinality(hits))
      BY <1>1, <1>2, <1>3, <1>4, <2>1 DEF Leaves
    <2>4. QED
      BY <2>2, <2>3, EraseTo
  <1>6. CASE erase' = [erase EXCEPT ![e].pc = "cache"]
    <2>1. Sets(e, "cache", erase[e].seen, erase[e].counted)
      BY <1>3, <1>6, EraseKeep
    <2>2. Leaves(e, "cache", erase[e].seen, erase[e].counted)
      BY <1>1, <1>3, <1>4, <1>6, EraseFacts DEF Leaves
    <2>3. QED
      BY <2>1, <2>2, EraseTo
  <1>7. QED
    BY <1>5, <1>6 DEF CountSqlite

LEMMA DeleteErases ==
    ASSUME StoresOK, ErasuresOK, NEW e \in Erasures, DeleteSqlite(e)
    PROVE  \E to : Erases(e, to)
  <1> DEFINE hits == Tagged(rows, e)
             s == erase[e]
  <1>1. /\ s.pc = "delete"
        /\ UNCHANGED <<backend, store, operational, schema, points, cache, task, audit>>
    BY DEF DeleteSqlite
  <1>2. /\ hits \subseteq rows
        /\ \A c \in hits : c.by \in Jobs /\ Subject[c.by] = Target[e]
        /\ \A c \in rows : c.by \in Jobs /\ Subject[c.by] = Target[e] => c \in hits
    BY TaggedFacts
  <1>3. {"cache"} \subseteq ErasurePC \ {"begin", "select"} /\ {"cache"} \subseteq ErasurePC
    BY DEF ErasurePC
  <1>4. audit' \in Seq(AuditRow) /\ Len(audit') = Len(audit)
    BY <1>1 DEF ErasuresOK
  <1>5. points = {} /\ ~s.dry
    BY <1>1, EraseFacts DEF StoresOK, StoreChoice
  <1> HIDE DEF hits
  <1>6. CASE rows' = rows \ hits /\ erase' = [erase EXCEPT ![e].pc = "cache"]
    <2>1. Sets(e, "cache", s.seen, s.counted)
      BY <1>3, <1>6, EraseKeep
    <2>2. \A c \in s.seen : c \notin rows' /\ c \notin points'
      BY <1>1, <1>2, <1>5, <1>6, EraseFacts
    <2>3. \A c \in rows \union points :
               \/ c \in rows' \union points'
               \/ c.by \in Jobs /\ Subject[c.by] = Target[e] /\ ~erase[e].dry
      BY <1>1, <1>2, <1>5, <1>6
    <2>4. Leaves(e, "cache", s.seen, s.counted)
      BY <1>1, <1>3, <1>4, <1>6, <2>2, <2>3, EraseFacts DEF Leaves
    <2>5. QED
      BY <2>1, <2>4, EraseTo
  <1>7. CASE UNCHANGED rows /\ erase' = [erase EXCEPT ![e] = DeleteFailed(@)]
    <2>1. erase' = [erase EXCEPT ![e].pc = "cache", ![e].counted = 0]
      BY <1>7 DEF DeleteFailed, ErasuresOK
    <2>2. Sets(e, "cache", s.seen, 0)
      BY <1>3, <2>1, EraseCount
    <2>3. Leaves(e, "cache", s.seen, 0)
      BY <1>1, <1>3, <1>4, <1>7, EraseFacts DEF Leaves
    <2>4. QED
      BY <2>2, <2>3, EraseTo
  <1>8. QED
    BY <1>6, <1>7 DEF DeleteSqlite, hits

LEMMA EvictErases ==
    ASSUME StoresOK, ErasuresOK, NEW e \in Erasures, EvictCache(e)
    PROVE  \E to : Erases(e, to)
  <1> DEFINE pc == IF erase[e].dry THEN "done" ELSE "audit"
  <1>1. /\ erase[e].pc = "cache" /\ erase' = [erase EXCEPT ![e].pc = pc]
        /\ UNCHANGED <<backend, store, operational, schema, rows, points, cache, task, audit>>
    BY DEF EvictCache, Stores
  <1>2. pc \in ErasurePC \ {"begin", "select"} /\ pc # "delete"
    BY DEF ErasurePC
  <1>3. audit' \in Seq(AuditRow) /\ Len(audit') = Len(audit)
    BY <1>1 DEF ErasuresOK
  <1> HIDE DEF pc
  <1>4. Sets(e, pc, erase[e].seen, erase[e].counted)
    BY <1>1, <1>2, EraseKeep
  <1>5. ~erase[e].dry /\ erase[e].counted > 0 =>
            \A c \in erase[e].seen : c \notin rows' /\ c \notin points'
    BY <1>1, EraseFacts DEF Certified
  <1>6. Leaves(e, pc, erase[e].seen, erase[e].counted)
    BY <1>1, <1>2, <1>3, <1>5, EraseFacts DEF Leaves
  <1>7. QED
    BY <1>4, <1>6, EraseTo

LEMMA AuditErases ==
    ASSUME StoresOK, ErasuresOK, NEW e \in Erasures, WriteAudit(e)
    PROVE  \E to : Erases(e, to)
  <1>1. /\ erase[e].pc = "audit" /\ erase' = [erase EXCEPT ![e].pc = "done"]
        /\ UNCHANGED <<backend, store, operational, schema, rows, points, cache, task>>
    BY DEF WriteAudit, Stores
  <1>2. {"done"} \subseteq ErasurePC \ {"begin", "select"} /\ {"done"} \subseteq ErasurePC
    BY DEF ErasurePC
  <1>3. /\ audit' \in Seq(AuditRow)
        /\ Len(audit') = Len(audit) \/ Len(audit') = Len(audit) + 1
    <2> DEFINE row == [subject |-> Target[e], chunks |-> erase[e].counted]
    <2>1. row \in AuditRow
      BY EraseFacts DEF AuditRow
    <2>2. audit \in Seq(AuditRow)
      BY EraseFacts
    <2>3. audit' = Append(audit, row) \/ audit' = audit
      BY DEF WriteAudit
    <2> HIDE DEF row
    <2>4. QED
      BY <2>1, <2>2, <2>3, AppendProperties
  <1>4. Sets(e, "done", erase[e].seen, erase[e].counted)
    BY <1>1, <1>2, EraseKeep
  <1>5. ~erase[e].dry /\ erase[e].counted > 0 =>
            \A c \in erase[e].seen : c \notin rows' /\ c \notin points'
    BY <1>1, EraseFacts DEF Certified
  <1>6. Leaves(e, "done", erase[e].seen, erase[e].counted)
    BY <1>1, <1>2, <1>3, <1>5, EraseFacts DEF Leaves
  <1>7. QED
    BY <1>4, <1>6, EraseTo

LEMMA EraseSteps ==
    ASSUME StoresOK, ErasuresOK, NEW e \in Erasures, Erase(e)
    PROVE  \E to : Erases(e, to)
  BY BeginErases, EraseQdrantErases, CountErases, DeleteErases, EvictErases, AuditErases
     DEF Erase

LEMMA OverFinite == IsFiniteSet(Over) /\ Cardinality(Over) \in Nat
                    /\ Cardinality(Over) <= Cardinality(Erasures) /\ Cardinality(Erasures) \in Nat
  <1>1. Over \subseteq Erasures /\ IsFiniteSet(Erasures)
    BY RtbfAssumption DEF Over
  <1>2. QED
    BY <1>1, FS_Subset, FS_CardinalityType

LEMMA ErasesKeep ==
    ASSUME Work, StoresOK, ErasuresOK, NEW e \in Erasures, NEW to, Erases(e, to)
    PROVE  /\ Work' /\ StoresOK' /\ ErasuresOK' /\ erase'[e] = to
           /\ \A x \in Erasures : x # e => erase'[x] = erase[x]
  <1>1. /\ erase' = [x \in Erasures |-> IF x = e THEN to ELSE erase[x]]
        /\ ErasureOK(e, to) /\ SeenAreOver(to) /\ Certified(to, rows', points')
        /\ rows' \subseteq rows /\ points' \subseteq points
        /\ UNCHANGED <<backend, store, operational, schema, cache, task>>
        /\ erase[e].pc # "done"
    BY DEF Erases, ErasuresOK
  <1>2. Work'
    BY <1>1 DEF Work
  <1>3. StoresOK'
    BY <1>1, RemovalKeepsStores DEF StoresOK, StoreTypes, StoreChoice
  <1>4. erase' = [x \in Erasures |-> erase'[x]] /\ erase'[e] = to
        /\ \A x \in Erasures : x # e => erase'[x] = erase[x]
    BY <1>1
  <1>5. ASSUME NEW x \in Erasures
        PROVE  /\ ErasureOK(x, erase[x])' /\ SeenAreOver(erase[x])'
               /\ Certified(erase[x], rows, points)'
    <2>1. CASE x = e
      BY <1>1, <1>4, <2>1 DEF ErasureOK, SeenAreOver, Certified
    <2>2. CASE x # e
      <3>1. erase'[x] = erase[x]
        BY <1>4, <2>2
      <3>2. ErasureOK(x, erase[x]) /\ SeenAreOver(erase[x]) /\ Certified(erase[x], rows, points)
        BY DEF ErasuresOK
      <3>3. Certified(erase[x], rows', points')
        BY <1>1, <3>2 DEF Certified
      <3>4. QED
        BY <1>1, <3>1, <3>2, <3>3 DEF ErasureOK, SeenAreOver, Certified
    <2>3. QED
      BY <2>1, <2>2
  <1>6. audit' \in Seq(AuditRow) /\ Len(audit') <= Cardinality(Over')
    <2>1. /\ audit' \in Seq(AuditRow)
          /\ Len(audit') = Len(audit) \/ (to.pc = "done" /\ Len(audit') = Len(audit) + 1)
      BY DEF Erases
    <2>2. Len(audit) \in Nat /\ Len(audit) <= Cardinality(Over) /\ Len(audit') \in Nat
      BY <2>1, EraseFacts, SeqFacts DEF ErasuresOK
    <2>3. CASE to.pc = "done"
      <3>1. Over' = Over \union {e} /\ e \notin Over
        BY <1>1, <1>4, <2>3 DEF Over
      <3>2. Cardinality(Over') = Cardinality(Over) + 1
        BY <3>1, OverFinite, FS_AddElement
      <3>3. QED
        BY <2>1, <2>2, <3>2, OverFinite
    <2>4. CASE to.pc # "done"
      <3>1. Over' = Over
        BY <1>1, <1>4, <2>4 DEF Over
      <3>2. QED
        BY <2>1, <2>2, <2>4, <3>1
    <2>5. QED
      BY <2>3, <2>4
  <1>7. ErasuresOK'
    <2>1. AuditRow' = AuditRow
      BY DEF AuditRow
    <2>2. QED
      BY <1>4, <1>5, <1>6, <2>1 DEF ErasuresOK
  <1>8. QED
    BY <1>2, <1>3, <1>4, <1>7

(* A writer beside the erasures.                                           *)
LEMMA StoreStepKeepsErasures ==
    ASSUME Work, StoresOK, ErasuresOK, NEW w \in Writers, NEW to, StoreStep(w, to)
    PROVE  ErasuresOK'
  <1>1. /\ task'[w] = to /\ \A v \in Writers : v # w => task'[v] = task[v]
        /\ UNCHANGED <<backend, erase, audit>>
    BY StoreStepKeeps DEF StoreStep
  <1>2. task[w].pc # "done" /\ (\A c \in rows' : c \in rows \/ c.by = w)
        /\ \A c \in points' : c \in points \/ c.by = w
    BY DEF StoreStep, Moves, Grown, Added
  <1>3. Jobs \subseteq Writers
    BY DEF Writers
  <1>4. ASSUME NEW e \in Erasures
        PROVE  /\ ErasureOK(e, erase[e])' /\ SeenAreOver(erase[e])'
               /\ Certified(erase[e], rows, points)'
    <2>1. ErasureOK(e, erase[e]) /\ SeenAreOver(erase[e]) /\ Certified(erase[e], rows, points)
      BY DEF ErasuresOK
    <2>2. erase'[e] = erase[e] /\ backend' = backend
      BY <1>1
    <2>3. \A c \in erase[e].seen : c.by # w /\ c.by \in Writers
      BY <1>2, <1>3, <2>1 DEF ErasureOK, SeenAreOver
    <2>4. ErasureOK(e, erase[e])'
      BY <2>1, <2>2 DEF ErasureOK
    <2>5. SeenAreOver(erase[e])'
      BY <1>1, <2>1, <2>2, <2>3 DEF SeenAreOver
    <2>6. Certified(erase[e], rows, points)'
      BY <1>2, <2>1, <2>2, <2>3 DEF Certified
    <2>7. QED
      BY <2>4, <2>5, <2>6
  <1>5. AuditRow' = AuditRow /\ Over' = Over
    BY <1>1 DEF AuditRow, Over
  <1>6. QED
    BY <1>1, <1>4, <1>5 DEF ErasuresOK

-----------------------------------------------------------------------------
(* Nothing is lost silently: the pieces a post is past, and the document   *)
(* of a writer that is done, are stored, unless there is an excuse, and an *)
(* excuse stays one.                                                       *)
Through(w, n) ==
    \/ task[w].pc = "done"
    \/ w \in Posts /\ task[w].pc \in Busy /\ n < task[w].n
Kept == \A w \in Writers : \A n \in 1..Len(Texts[w]) :
            Through(w, n) => Stored(w, n) \/ Excused(w)

RtbfInv == Work /\ StoresOK /\ ErasuresOK /\ Kept

LEMMA RtbfInit == Init => RtbfInv
  <1> SUFFICES ASSUME Init PROVE RtbfInv
    OBVIOUS
  <1>1. Work
    <2>1. cache = <<>> /\ task = [w \in Writers |-> Fresh]
      BY DEF Init
    <2>2. <<>> \in Seq([text : AllTexts, vec : AllTexts]) /\ Len(<<>>) = 0
      OBVIOUS
    <2>3. CacheOK(cache)
      BY <2>1, <2>2, Limits DEF CacheOK
    <2>4. QED
      BY <2>1, <2>3, FreshOK DEF Work
  <1>2. \A w \in Writers : task[w].pc = "begin"
    BY FreshOK DEF Init
  <1>3. StoresOK
    <2>1. IsFiniteSet({})
      BY FS_EmptySet
    <2>2. /\ rows = {} /\ points = {} /\ store = "unset" /\ backend \in Backends
          /\ operational = FALSE /\ schema = "none"
      BY DEF Init
    <2>3. StoreTypes
      BY <2>1, <2>2 DEF StoreTypes
    <2>4. StoreChoice /\ StoreContent
      BY <1>2, <2>2 DEF StoreChoice, StoreContent, Writers
    <2>5. QED
      BY <2>3, <2>4 DEF StoresOK
  <1>4. ErasuresOK
    <2>1. /\ erase \in [Erasures -> [pc : {"begin"}, dry : BOOLEAN, had : {{}}, seen : {{}},
                                     counted : {0}]]
          /\ audit = <<>>
      BY DEF Init
    <2>2. ASSUME NEW e \in Erasures
          PROVE  /\ ErasureOK(e, erase[e]) /\ SeenAreOver(erase[e])
                 /\ Certified(erase[e], rows, points)
      <3>1. PICK s : /\ s = erase[e] /\ s \in [pc : {"begin"}, dry : BOOLEAN, had : {{}},
                                               seen : {{}}, counted : {0}]
        BY <2>1
      <3>2. s \in Erasure /\ s.pc = "begin" /\ s.seen = {} /\ s.counted = 0
        BY <3>1 DEF Erasure, ErasurePC
      <3>3. QED
        BY <3>1, <3>2 DEF ErasureOK, SeenAreOver, Certified
    <2>3. audit \in Seq(AuditRow) /\ Len(audit) = 0
      BY <2>1
    <2>4. QED
      BY <2>1, <2>2, <2>3, OverFinite DEF ErasuresOK
  <1>5. Kept
    BY <1>2 DEF Kept, Through, Busy
  <1>6. QED
    BY <1>1, <1>3, <1>4, <1>5 DEF RtbfInv

(* Ids: of a place for a post, of a place and a text for a job.            *)
Id(w, n) == ChunkId([by |-> w, n |-> n])

LEMMA IdFacts ==
    /\ \A c \in Chunks : ChunkId(c) = Id(c.by, c.n)
    /\ \A v, w \in Writers : \A m, n : Id(v, m) = Id(w, n) =>
           Source[v] = Source[w] /\ (v \in Posts <=> w \in Posts)
  <1>1. ASSUME NEW w \in Writers, NEW n
        PROVE  /\ Len(Id(w, n)) = IF w \in Posts THEN 2 ELSE 3
               /\ Id(w, n)[1] = Source[w]
    BY DEF Id, ChunkId
  <1>2. ASSUME NEW c \in Chunks PROVE ChunkId(c) = Id(c.by, c.n)
    BY DEF Id, ChunkId
  <1>3. ASSUME NEW v \in Writers, NEW w \in Writers, NEW m, NEW n, Id(v, m) = Id(w, n)
        PROVE  Source[v] = Source[w] /\ (v \in Posts <=> w \in Posts)
    <2>1. Source[v] = Source[w]
      BY <1>1, <1>3
    <2>2. (IF v \in Posts THEN 2 ELSE 3) = (IF w \in Posts THEN 2 ELSE 3)
      <3>1. Len(Id(v, m)) = Len(Id(w, n))
        BY <1>3
      <3>2. QED
        BY <1>1, <3>1
    <2>3. QED
      BY <2>1, <2>2
  <1>4. QED
    BY <1>2, <1>3

Holds(stored, w, n) == \E c \in stored : ChunkId(c) = Id(w, n)

LEMMA StoredIsHeld ==
    ASSUME NEW w, NEW n
    PROVE  Stored(w, n) <=> Holds(rows, w, n) \/ Holds(points, w, n)
  BY DEF Stored, Holds, Id

LEMMA ReplacingHolds ==
    ASSUME NEW stored, NEW new, NEW w, NEW n
    PROVE  /\ Holds(stored, w, n) => Holds(Replacing(stored, new), w, n)
           /\ Holds(new, w, n) => Holds(Replacing(stored, new), w, n)
  BY DEF Holds, Replacing

LEMMA ExcuseStays ==
    ASSUME NEW w \in Writers, Excused(w),
           \A v \in Writers : task[v].short => task'[v].short,
           \A v \in Writers : task[v].pc # "begin" => task'[v].pc # "begin",
           w \in Posts /\ ~operational => ~operational',
           \A e \in Erasures : erase[e].pc # "begin" =>
               erase'[e].pc # "begin" /\ erase'[e].dry = erase[e].dry
    PROVE  Excused(w)'
  <1>1. CASE task[w].short
    BY <1>1 DEF Excused
  <1>2. CASE w \in Posts /\ ~operational
    BY <1>2 DEF Excused
  <1>3. CASE w \in Jobs /\ ErasedFor(w)
    <2>1. PICK e \in Erasures, j \in Jobs :
              /\ ~erase[e].dry /\ erase[e].pc # "begin"
              /\ Target[e] = Subject[j] /\ Source[j] = Source[w]
      BY <1>3 DEF ErasedFor
    <2>2. ~erase'[e].dry /\ erase'[e].pc # "begin"
      BY <2>1
    <2>3. ErasedFor(w)'
      BY <2>1, <2>2 DEF ErasedFor
    <2>4. QED
      BY <1>3, <2>3 DEF Excused
  <1>4. CASE \E p \in Posts \ {w} : task[p].pc # "begin" /\ Source[p] = Source[w]
    BY <1>4 DEF Excused, Writers
  <1>5. QED
    BY <1>1, <1>2, <1>3, <1>4 DEF Excused

LEMMA ExcuseStaysBeside ==
    ASSUME Work, StoresOK, NEW v \in Writers, NEW to, StoreStep(v, to), NEW w \in Writers, Excused(w)
    PROVE  Excused(w)'
  <1>1. /\ task'[v] = to /\ \A x \in Writers : x # v => task'[x] = task[x]
        /\ task[v].short => to.short
        /\ to.pc # "begin" /\ erase' = erase /\ (~operational => ~operational')
    BY StoreStepKeeps DEF StoreStep, Moves
  <1>2. \A x \in Writers : task[x].short => task'[x].short
    BY <1>1
  <1>3. \A x \in Writers : task[x].pc # "begin" => task'[x].pc # "begin"
    BY <1>1
  <1>4. QED
    BY <1>1, <1>2, <1>3, ExcuseStays

LEMMA KeptByWriter ==
    ASSUME Work, StoresOK, Kept, NEW v \in Writers, NEW to, StoreStep(v, to),
           \A w \in Writers : \A n : Stored(w, n) => Stored(w, n)' \/ Excused(w)' \/ w = v,
           \A n \in 1..Len(Texts[v]) : Through(v, n)' =>
               \/ Stored(v, n)' \/ Excused(v)'
               \/ Through(v, n) /\ (Stored(v, n) => Stored(v, n)')
    PROVE  Kept'
  <1>1. \A w \in Writers : Excused(w) => Excused(w)'
    BY ExcuseStaysBeside
  <1>2. \A w \in Writers : w # v => task'[w] = task[w]
    BY StoreStepKeeps
  <1>3. ASSUME NEW w \in Writers, NEW n \in 1..Len(Texts[w]), Through(w, n)'
        PROVE  Stored(w, n)' \/ Excused(w)'
    <2>1. CASE w = v
      <3>1. Through(v, n) => Stored(v, n) \/ Excused(v)
        BY <2>1 DEF Kept
      <3>2. QED
        BY <1>1, <1>3, <2>1, <3>1
    <2>2. CASE w # v
      <3>1. Through(w, n)
        BY <1>2, <1>3, <2>2 DEF Through
      <3>2. Stored(w, n) \/ Excused(w)
        BY <3>1 DEF Kept
      <3>3. QED
        BY <1>1, <2>2, <3>2
    <2>3. QED
      BY <2>1, <2>2
  <1>4. QED
    BY <1>3 DEF Kept

LEMMA KeptByDelete ==
    ASSUME Work, StoresOK, Kept, NEW p \in Posts, DeleteBySource(p)
    PROVE  Kept'
  <1>1. PICK to : /\ StoreStep(p, to) /\ to.pc \in {"lookup", "done", "failed"}
                  /\ to.pc = "lookup" => to.n = 1
                  /\ to.pc = "done" => Len(Texts[p]) = 0
                  /\ rows \ OfSource(rows, p) \subseteq rows'
                  /\ points \ OfSource(points, p) \subseteq points'
    BY DeleteStep
  <1>2. p \in Writers /\ task'[p] = to /\ to.pc # "begin"
    BY <1>1, StoreStepKeeps DEF StoreStep, Moves, Writers
  <1>3. ASSUME NEW w \in Writers, NEW n, Stored(w, n), w # p
        PROVE  Stored(w, n)' \/ Excused(w)'
    <2>1. PICK c \in rows \union points : ChunkId(c) = Id(w, n)
      BY <1>3, StoredIsHeld DEF Holds
    <2>2. CASE c \in rows' \union points'
      <3>1. Stored(w, n)'
        BY <2>1, <2>2 DEF Stored, Id
      <3>2. QED
        BY <3>1
    <2>3. CASE c \notin rows' \union points'
      <3>1. Source[c.by] = Source[p]
        BY <1>1, <2>1, <2>3 DEF OfSource
      <3>2. c \in Chunks /\ c.by \in Writers
        BY <2>1, ChunkFacts DEF StoresOK, StoreTypes
      <3>3. Source[c.by] = Source[w]
        BY <2>1, <3>2, IdFacts
      <3>4. Excused(w)'
        BY <1>2, <1>3, <3>1, <3>3 DEF Excused
      <3>5. QED
        BY <3>4
    <2>4. QED
      BY <2>2, <2>3
  <1>4. \A n \in 1..Len(Texts[p]) : ~Through(p, n)'
    <2>1. Len(Texts[p]) \in Nat
      BY <1>2, DocumentFacts
    <2>2. QED
      BY <1>1, <1>2, <2>1 DEF Through, Busy
  <1>5. QED
    BY <1>1, <1>2, <1>3, <1>4, KeptByWriter

LEMMA KeptByIdle ==
    ASSUME Work, StoresOK, Kept, NEW v \in Writers, NEW to, StoreStep(v, to),
           UNCHANGED <<rows, points>>,
           \A n \in 1..Len(Texts[v]) : Through(v, n)' => Through(v, n)
    PROVE  Kept'
  <1>1. \A w \in Writers : \A n : Stored(w, n) => Stored(w, n)'
    BY DEF Stored
  <1>2. QED
    BY <1>1, KeptByWriter

LEMMA KeptByEmbed ==
    ASSUME Work, StoresOK, Kept, NEW w \in Writers, EmbedBatch(w)
    PROVE  Kept'
  <1>1. PICK to : StoreStep(w, to) /\ to.pc # "done" /\ to.n = task[w].n
    BY EmbedStep
  <1>2. task[w].pc # "begin" /\ UNCHANGED <<rows, points>>
    BY EmbedStep
  <1>3. task'[w] = to /\ task[w].pc \notin {"done", "failed"} /\ task[w] \in Task
    BY <1>1, StoreStepKeeps DEF StoreStep, Moves, Work, TaskOK
  <1>4. task[w].pc \in Busy
    BY <1>2, <1>3, TaskFields DEF WriterPC, Busy
  <1>5. \A n \in 1..Len(Texts[w]) : Through(w, n)' => Through(w, n)
    BY <1>1, <1>3, <1>4 DEF Through
  <1>6. QED
    BY <1>1, <1>2, <1>5, KeptByIdle

LEMMA KeptByNoVector ==
    ASSUME Work, StoresOK, Kept, NEW p \in Posts, NoVector(p)
    PROVE  Kept'
  <1>1. PICK to : StoreStep(p, to) /\ to.pc = "failed"
    BY NoVectorStep
  <1>2. p \in Writers /\ task'[p] = to /\ UNCHANGED <<rows, points>>
    BY <1>1, NoVectorStep, StoreStepKeeps DEF Writers
  <1>3. \A n : ~Through(p, n)'
    BY <1>1, <1>2 DEF Through, Busy
  <1>4. QED
    BY <1>1, <1>2, <1>3, KeptByIdle

LEMMA KeptByStart ==
    ASSUME Work, StoresOK, Kept, NEW j \in Jobs, StartJob(j)
    PROVE  Kept'
  <1>1. PICK to : /\ StoreStep(j, to) /\ to.pc \in {"lookup", "done"}
                  /\ to.pc = "done" => Len(Texts[j]) = 0
    BY StartStep
  <1>2. j \in Writers /\ j \notin Posts /\ task'[j] = to /\ UNCHANGED <<rows, points>>
    BY <1>1, StartStep, StoreStepKeeps, RtbfAssumption DEF Writers
  <1>3. \A n \in 1..Len(Texts[j]) : ~Through(j, n)'
    BY <1>1, <1>2 DEF Through
  <1>4. QED
    BY <1>1, <1>2, <1>3, KeptByIdle

(* What a write adds or replaces is stored afterwards.                     *)
LEMMA WritesKeepStored ==
    ASSUME NEW new, NEW w, NEW n,
           rows' = rows \/ rows' = Replacing(rows, new),
           points' = points \/ points' = Replacing(points, new)
    PROVE  /\ Stored(w, n) => Stored(w, n)'
           /\ (rows' = Replacing(rows, new) \/ points' = Replacing(points, new)) /\ Holds(new, w, n)
                  => Stored(w, n)'
  <1>1. Stored(w, n)' <=> Holds(rows', w, n) \/ Holds(points', w, n)
    BY DEF Stored, Holds, Id
  <1>2. Holds(rows, w, n) => Holds(rows', w, n)
    BY ReplacingHolds
  <1>3. Holds(points, w, n) => Holds(points', w, n)
    BY ReplacingHolds
  <1>4. QED
    BY <1>1, <1>2, <1>3, StoredIsHeld, ReplacingHolds

LEMMA KeptByUpsert ==
    ASSUME Work, StoresOK, Kept, NEW p \in Posts, Upsert(p)
    PROVE  Kept'
  <1>1. PICK to : /\ StoreStep(p, to) /\ to.pc \in {"lookup", "done", "failed"}
                  /\ to.pc = "lookup" => to.n = task[p].n + 1
                  /\ to.pc = "done" => task[p].n = Len(Texts[p])
                  /\ to.pc # "failed" => \/ rows' = Replacing(rows, PieceOf(p))
                                         \/ points' = Replacing(points, PieceOf(p))
                                         \/ ~operational'
                  /\ rows' = rows \/ rows' = Replacing(rows, PieceOf(p))
                  /\ points' = points \/ points' = Replacing(points, PieceOf(p))
                  /\ task[p].pc = "store" /\ IsFiniteSet(PieceOf(p))
    BY UpsertStep
  <1>2. p \in Writers /\ task'[p] = to
    BY <1>1, StoreStepKeeps DEF Writers
  <1>3. \A w \in Writers : \A n : Stored(w, n) => Stored(w, n)'
    BY <1>1, WritesKeepStored
  <1>4. Holds(PieceOf(p), p, task[p].n)
    <2>1. PICK c : c = [by |-> p, n |-> task[p].n, vec |-> Vectors(p)[1]]
      OBVIOUS
    <2>2. c \in PieceOf(p) /\ c.by = p /\ c.n = task[p].n
      BY <2>1 DEF PieceOf
    <2>3. ChunkId(c) = Id(p, task[p].n)
      BY <2>2 DEF ChunkId, Id
    <2>4. QED
      BY <2>2, <2>3 DEF Holds
  <1>5. ASSUME NEW n \in 1..Len(Texts[p]), Through(p, n)'
        PROVE  Stored(p, n)' \/ Excused(p)' \/ Through(p, n)
    <2>1. to.pc # "failed" /\ (to.pc = "done" \/ n < to.n)
      BY <1>1, <1>2, <1>5 DEF Through, Busy
    <2>2. task[p].n \in Nat /\ n \in Nat /\ Len(Texts[p]) \in Nat /\ n <= Len(Texts[p])
      BY <1>2, TaskFields, DocumentFacts DEF Work, TaskOK
    <2>3. n < task[p].n \/ n = task[p].n
      BY <1>1, <2>1, <2>2
    <2>4. CASE n < task[p].n
      BY <1>1, <2>4 DEF Through, Busy
    <2>5. CASE n = task[p].n
      <3>1. CASE ~operational'
        BY <3>1 DEF Excused
      <3>2. CASE operational'
        BY <1>1, <1>4, <2>1, <2>5, <3>2, WritesKeepStored
      <3>3. QED
        BY <3>1, <3>2
    <2>6. QED
      BY <2>3, <2>4, <2>5
  <1>6. QED
    BY <1>1, <1>2, <1>3, <1>5, KeptByWriter

LEMMA KeptByJob ==
    ASSUME Work, StoresOK, Kept, NEW j \in Jobs, NEW to, StoreStep(j, to), Written(j)
    PROVE  Kept'
  <1>1. j \in Writers /\ j \notin Posts /\ task'[j] = to /\ (task[j].short => to.short)
    BY StoreStepKeeps, RtbfAssumption DEF StoreStep, Moves, Writers
  <1>2. \A w \in Writers : \A n : Stored(w, n) => Stored(w, n)'
    BY WritesKeepStored DEF Written
  <1>3. ASSUME NEW n \in 1..Len(Texts[j]), Through(j, n)'
        PROVE  Stored(j, n)' \/ Excused(j)'
    <2>1. to.pc = "done"
      BY <1>1, <1>3 DEF Through
    <2>2. CASE task[j].short
      BY <1>1, <2>2 DEF Excused
    <2>3. CASE ~task[j].short
      <3>1. PICK c \in Zipped(j) : c.by = j /\ c.n = n
        BY <1>1, <2>1, <2>3, ZippedFacts DEF Written
      <3>2. ChunkId(c) = Id(j, n)
        BY <3>1 DEF ChunkId, Id
      <3>3. Holds(Zipped(j), j, n)
        BY <3>1, <3>2 DEF Holds
      <3>4. rows' = Replacing(rows, Zipped(j)) \/ points' = Replacing(points, Zipped(j))
        BY <1>1, <2>1 DEF Written
      <3>5. QED
        BY <3>3, <3>4, WritesKeepStored DEF Written
    <2>4. QED
      BY <2>2, <2>3
  <1>4. QED
    BY <1>1, <1>2, <1>3, KeptByWriter

LEMMA KeptByErasure ==
    ASSUME Work, StoresOK, ErasuresOK, Kept, NEW e \in Erasures, NEW to, Erases(e, to)
    PROVE  Kept'
  <1>1. /\ erase'[e] = to /\ \A x \in Erasures : x # e => erase'[x] = erase[x]
        /\ to.pc # "begin" /\ to.dry = erase[e].dry /\ UNCHANGED <<operational, task>>
    BY ErasesKeep DEF Erases
  <1>2. \A x \in Erasures : erase[x].pc # "begin" =>
            erase'[x].pc # "begin" /\ erase'[x].dry = erase[x].dry
    BY <1>1
  <1>3. \A w \in Writers : Excused(w) => Excused(w)'
    BY <1>1, <1>2, ExcuseStays
  <1>4. ASSUME NEW w \in Writers, NEW n, Stored(w, n) PROVE Stored(w, n)' \/ Excused(w)'
    <2>1. PICK c \in rows \union points : ChunkId(c) = Id(w, n)
      BY <1>4, StoredIsHeld DEF Holds
    <2>2. CASE c \in rows' \union points'
      <3>1. Stored(w, n)'
        BY <2>1, <2>2 DEF Stored, Id
      <3>2. QED
        BY <3>1
    <2>3. CASE c \notin rows' \union points'
      <3>1. c.by \in Jobs /\ Subject[c.by] = Target[e] /\ ~to.dry
        BY <2>1, <2>3 DEF Erases
      <3>2. c \in Chunks /\ c.by \in Writers
        BY <2>1, ChunkFacts DEF StoresOK, StoreTypes
      <3>3. Source[c.by] = Source[w] /\ w \in Jobs
        BY <2>1, <3>1, <3>2, IdFacts, RtbfAssumption DEF Writers
      <3>4. ErasedFor(w)'
        BY <1>1, <3>1, <3>3 DEF ErasedFor
      <3>5. Excused(w)'
        BY <3>3, <3>4 DEF Excused
      <3>6. QED
        BY <3>5
    <2>4. QED
      BY <2>2, <2>3
  <1>5. ASSUME NEW w \in Writers, NEW n \in 1..Len(Texts[w]), Through(w, n)'
        PROVE  Stored(w, n)' \/ Excused(w)'
    <2>1. Through(w, n)
      BY <1>1, <1>5 DEF Through
    <2>2. QED
      BY <1>3, <1>4, <2>1 DEF Kept
  <1>6. QED
    BY <1>5 DEF Kept

LEMMA KeptByGetStore ==
    ASSUME Work, StoresOK, Kept, GetStore
    PROVE  Kept'
  <1>1. UNCHANGED <<rows, points, task, erase>> /\ \A p \in Posts : task[p].pc = "begin"
    BY GetStoreKeeps DEF StoresOK, StoreChoice
  <1>2. ASSUME NEW w \in Writers, NEW n \in 1..Len(Texts[w]), Through(w, n)'
        PROVE  Stored(w, n)' \/ Excused(w)'
    <2>1. Through(w, n) /\ w \notin Posts
      BY <1>1, <1>2 DEF Through, Busy
    <2>2. Stored(w, n) \/ Excused(w)
      BY <2>1 DEF Kept
    <2>3. Stored(w, n) => Stored(w, n)'
      BY <1>1 DEF Stored
    <2>4. Excused(w) => Excused(w)'
      BY <1>1, <2>1, ExcuseStays
    <2>5. QED
      BY <2>2, <2>3, <2>4
  <1>3. QED
    BY <1>2 DEF Kept

LEMMA KeptByPost ==
    ASSUME Work, StoresOK, Kept, NEW p \in Posts, Post(p)
    PROVE  Kept'
  <1>1. p \in Writers
    BY DEF Writers
  <1>2. QED
    BY <1>1, KeptByDelete, KeptByEmbed, KeptByNoVector, KeptByUpsert DEF Post

LEMMA KeptByProcess ==
    ASSUME Work, StoresOK, Kept, NEW j \in Jobs, ProcessJob(j)
    PROVE  Kept'
  <1>1. j \in Writers
    BY DEF Writers
  <1>2. CASE StartJob(j)
    BY <1>2, KeptByStart
  <1>3. CASE EmbedBatch(j)
    BY <1>1, <1>3, KeptByEmbed
  <1>4. CASE UpsertQdrant(j)
    BY <1>4, UpsertQdrantStep, KeptByJob
  <1>5. CASE UpsertSqlite(j)
    BY <1>5, UpsertSqliteStep, KeptByJob
  <1>6. QED
    BY <1>2, <1>3, <1>4, <1>5 DEF ProcessJob

LEMMA RtbfStep == RtbfInv /\ [Next]_vars => RtbfInv'
  <1> SUFFICES ASSUME RtbfInv, [Next]_vars PROVE RtbfInv'
    OBVIOUS
  <1>1. Work /\ StoresOK /\ ErasuresOK /\ Kept /\ Posts \subseteq Writers /\ Jobs \subseteq Writers
    BY DEF RtbfInv, Writers
  <1>2. CASE GetStore
    <2>1. Work' /\ StoresOK' /\ UNCHANGED <<rows, points, task, erase, audit>> /\ backend' = backend
      BY <1>1, <1>2, GetStoreKeeps DEF GetStore
    <2>2. ErasuresOK'
      BY <1>1, <2>1 DEF ErasuresOK, ErasureOK, SeenAreOver, Certified, Over, AuditRow
    <2>3. Kept'
      BY <1>1, <1>2, KeptByGetStore
    <2>4. QED
      BY <2>1, <2>2, <2>3 DEF RtbfInv
  <1>3. ASSUME NEW p \in Posts, Post(p) PROVE RtbfInv'
    <2>1. PICK to : StoreStep(p, to)
      BY <1>1, <1>3, WriterSteps
    <2>2. Work' /\ StoresOK' /\ ErasuresOK'
      BY <1>1, <2>1, StoreStepKeeps, StoreStepKeepsErasures
    <2>3. Kept'
      BY <1>1, <1>3, KeptByPost
    <2>4. QED
      BY <2>2, <2>3 DEF RtbfInv
  <1>4. ASSUME NEW j \in Jobs, ProcessJob(j) PROVE RtbfInv'
    <2>1. PICK to : StoreStep(j, to)
      BY <1>1, <1>4, WriterSteps
    <2>2. Work' /\ StoresOK' /\ ErasuresOK'
      BY <1>1, <2>1, StoreStepKeeps, StoreStepKeepsErasures
    <2>3. Kept'
      BY <1>1, <1>4, KeptByProcess
    <2>4. QED
      BY <2>2, <2>3 DEF RtbfInv
  <1>5. ASSUME NEW e \in Erasures, Erase(e) PROVE RtbfInv'
    <2>1. PICK to : Erases(e, to)
      BY <1>1, <1>5, EraseSteps
    <2>2. Work' /\ StoresOK' /\ ErasuresOK'
      BY <1>1, <2>1, ErasesKeep
    <2>3. Kept'
      BY <1>1, <2>1, KeptByErasure
    <2>4. QED
      BY <2>2, <2>3 DEF RtbfInv
  <1>6. CASE UNCHANGED vars
    <2>1. UNCHANGED <<backend, store, operational, schema, rows, points, cache, task, erase, audit>>
      BY <1>6 DEF vars
    <2>2. Work'
      BY <1>1, <2>1 DEF Work
    <2>3. StoresOK'
      BY <1>1, <2>1 DEF StoresOK, StoreTypes, StoreChoice, StoreContent
    <2>4. ErasuresOK'
      BY <1>1, <2>1 DEF ErasuresOK, ErasureOK, SeenAreOver, Certified, Over, AuditRow
    <2>5. Kept'
      BY <1>1, <2>1 DEF Kept, Through, Stored, Excused, ErasedFor
    <2>6. QED
      BY <2>2, <2>3, <2>4, <2>5 DEF RtbfInv
  <1>7. QED
    BY <1>2, <1>3, <1>4, <1>5, <1>6 DEF Next

LEMMA RtbfInvariant == Spec => []RtbfInv
  BY RtbfInit, RtbfStep, PTL DEF Spec

LEMMA RtbfInvImplies ==
    RtbfInv => RtbfTypeOK /\ OwnVectors /\ NothingLostSilently /\ CertifiedIsGone
  <1> SUFFICES ASSUME RtbfInv
               PROVE  RtbfTypeOK /\ OwnVectors /\ NothingLostSilently /\ CertifiedIsGone
    OBVIOUS
  <1>1. CacheOK(cache) /\ StoresOK /\ ErasuresOK /\ Kept
        /\ \A w \in Writers : TaskOK(w, task[w])
    BY DEF RtbfInv, Work
  <1>2. RtbfTypeOK
    <2>1. task \in [Writers -> Task]
      <3>1. task = [w \in Writers |-> task[w]] /\ \A w \in Writers : task[w] \in Task
        BY <1>1 DEF RtbfInv, Work, TaskOK
      <3>2. QED
        BY <3>1
    <2>2. erase \in [Erasures -> Erasure]
      <3>1. erase = [e \in Erasures |-> erase[e]] /\ \A e \in Erasures : erase[e] \in Erasure
        BY <1>1 DEF ErasuresOK, ErasureOK
      <3>2. QED
        BY <3>1
    <2>3. Len(audit) <= Cardinality(Erasures)
      <3>1. Len(audit) \in Nat /\ Len(audit) <= Cardinality(Over)
        BY <1>1, SeqFacts DEF ErasuresOK
      <3>2. QED
        BY <3>1, OverFinite
    <2>4. Cardinality({c.text : c \in Range(cache)}) = Len(cache)
      BY <1>1, CacheTexts
    <2>5. cache \in Seq([text : AllTexts, vec : AllTexts]) /\ Len(cache) <= MaxCache
      BY <1>1 DEF CacheOK
    <2>6. QED
      BY <1>1, <2>1, <2>2, <2>3, <2>4, <2>5 DEF RtbfTypeOK, StoresOK, StoreTypes
  <1>3. OwnVectors
    <2>1. \A c \in Range(cache) : c.vec = c.text
      <3>1. cache \in Seq([text : AllTexts, vec : AllTexts])
        BY <1>1 DEF CacheOK
      <3>2. DOMAIN cache = 1..Len(cache)
        BY <3>1, SeqFacts
      <3>3. QED
        BY <1>1, <3>2 DEF CacheOK, Range
    <2>2. QED
      BY <1>1, <2>1 DEF OwnVectors, StoresOK, StoreContent, Own
  <1>4. NothingLostSilently
    BY <1>1, DocumentFacts DEF NothingLostSilently, Kept, Through
  <1>5. CertifiedIsGone
    BY <1>1 DEF CertifiedIsGone, ErasuresOK, Certified
  <1>6. QED
    BY <1>2, <1>3, <1>4, <1>5

-----------------------------------------------------------------------------
(* Types; the cache never exceeds its limit and has one entry for a text.  *)
THEOREM RtbfTypeCorrect == Spec => []RtbfTypeOK
  BY RtbfInvariant, RtbfInvImplies, PTL

(* A vector belongs to the text it is stored with, in the cache always, in *)
(* the stores unless a provider's answer was short (embed_batch).          *)
THEOREM VectorsAreOwn == Spec => []OwnVectors
  BY RtbfInvariant, RtbfInvImplies, PTL

(* A document that was taken in is stored, unless it was erased, posted    *)
(* again, its embedding cut short, or the store says that it fails.        *)
THEOREM NothingIsLostSilently == Spec => []NothingLostSilently
  BY RtbfInvariant, RtbfInvImplies, PTL

(* What a certificate counts as deleted is in no store, then or later.     *)
THEOREM CertifiedGone == Spec => []CertifiedIsGone
  BY RtbfInvariant, RtbfInvImplies, PTL
=============================================================================
