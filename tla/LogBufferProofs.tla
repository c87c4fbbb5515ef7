-------------------------- MODULE LogBufferProofs --------------------------
(***************************************************************************)
(* Theorems about LogBuffer, for any threads, lines, limits and batches:   *)
(* the backlog keeps to both limits and its account is exact, every line   *)
(* logged is accounted for once, each thread's lines stay in order,        *)
(* nothing is refused that would have fitted, and all of it together is    *)
(* the queue of LossyQueue.tla.                                            *)
(***************************************************************************)
EXTENDS LogBuffer, FiniteSetTheorems, SequenceTheorems, TLAPS

Lines == [kind : {"line"}, thread : Threads, n : Nat, size : Nat]
Items == Lines \cup [kind : {"note"}, count : Nat]

LogBufferTypeOK ==
    /\ lines \in Seq(Lines) /\ bytes \in Nat /\ dropped \in Nat
    /\ logging \in [Threads -> Seq(Lines)] /\ refused \subseteq Threads
    /\ attached \in {"no", "single", "batched"}
    /\ batch \in Seq(Items) /\ drain \in {"idle", "note", "send"}
    /\ logged \in [Threads -> Nat]
    /\ sent \in Seq(Items) /\ unsent \in Nat /\ losses \in Nat

\* A thread in a logging call has the last line it logged in hand, and the agent
\* holds a batch only until it has been sent.
HandInv ==
    /\ \A t \in Threads :
          logging[t] # <<>> =>
              \E size \in Nat : logging[t] = <<Line(t, logged[t], size)>>
    /\ \A t \in refused : logging[t] # <<>>
    /\ drain = "idle" => batch = <<>>

\* A line that has left a thread's hands is one of those it logged, and older
\* than the one it has in them.
OlderInv ==
    \A i \in 1..Len(Path) :
        Path[i].kind = "line" =>
            /\ Path[i].n <= logged[Path[i].thread]
            /\ logging[Path[i].thread] # <<>> => Path[i].n < logged[Path[i].thread]

LogBufferInv ==
    /\ LogBufferTypeOK
    /\ HandInv /\ OlderInv
    /\ WithinLimits /\ Accounted /\ InOrder

----------------------------------------------------------------------------
(* Sums.                                                                   *)

Cells(amounts) == UNION {{i} \X (1..amounts[i]) : i \in DOMAIN amounts}

\* What is counted out.
LEMMA CellFacts ==
    ASSUME NEW D, NEW f \in [D -> Nat]
    PROVE  /\ \A c \in Cells(f) : c[1] \in D /\ c[2] \in 1..f[c[1]] /\ c = <<c[1], c[2]>>
           /\ \A i \in D : \A b \in 1..f[i] : <<i, b>> \in Cells(f)
  BY DEF Cells

LEMMA TotalFinite ==
    ASSUME NEW D, IsFiniteSet(D), NEW f \in [D -> Nat]
    PROVE  IsFiniteSet(Cells(f)) /\ Total(f) \in Nat /\ Total(f) = Cardinality(Cells(f))
<1> DEFINE Row(i) == {i} \X (1..f[i])
           Rows == {Row(i) : i \in D}
           rows == [i \in D |-> Row(i)]
<1>1. rows \in Surjection(D, Rows)
  BY DEF Surjection
<1>2. IsFiniteSet(Rows)
  BY <1>1, FS_Surjection
<1>3. \A i \in D : IsFiniteSet(Row(i))
  <2>1. ASSUME NEW i \in D
        PROVE  IsFiniteSet(Row(i))
    <3>1. 0 \in Int /\ 1 \in Int /\ f[i] \in Int
      OBVIOUS
    <3>2. IsFiniteSet(1..f[i]) /\ IsFiniteSet({i})
      BY <3>1, FS_Interval, FS_Singleton
    <3> QED
      BY <3>2, FS_Product
  <2> QED
    BY <2>1
<1>4. Cells(f) = UNION Rows
  BY DEF Cells
<1>5. IsFiniteSet(Cells(f))
  BY <1>2, <1>3, <1>4, FS_UNION
<1> QED
  BY <1>5, FS_CardinalityType DEF Total, Cells

\* Nothing sums to nothing, one number to itself, and n ones to n.
LEMMA TotalNone ==
    ASSUME NEW f, DOMAIN f = {}
    PROVE  Total(f) = 0
<1>1. UNION {{i} \X (1..f[i]) : i \in DOMAIN f} = {}
  OBVIOUS
<1> QED
  BY <1>1, FS_EmptySet DEF Total

LEMMA TotalAlike ==
    ASSUME NEW n \in Nat, NEW k \in Nat, NEW f \in [1..n -> Nat],
           \A i \in 1..n : f[i] = k
    PROVE  (n = 1 => Total(f) = k) /\ (k = 1 => Total(f) = n)
<1>1. Cells(f) = (1..n) \X (1..k)
  <2>1. ASSUME NEW c \in Cells(f)
        PROVE  c \in (1..n) \X (1..k)
    BY CellFacts
  <2>2. ASSUME NEW c \in (1..n) \X (1..k)
        PROVE  c \in Cells(f)
    <3>1. c = <<c[1], c[2]>> /\ c[1] \in 1..n /\ c[2] \in 1..k
      OBVIOUS
    <3> QED
      BY <3>1, CellFacts
  <2> QED
    BY <2>1, <2>2
<1>2. /\ IsFiniteSet(1..n) /\ Cardinality(1..n) = n
      /\ IsFiniteSet(1..k) /\ Cardinality(1..k) = k
  BY FS_Interval
<1>3. Total(f) = Cardinality(1..n) * Cardinality(1..k)
  <2>1. Cardinality((1..n) \X (1..k)) = Cardinality(1..n) * Cardinality(1..k)
    BY <1>2, FS_Product
  <2> QED
    BY <1>1, <2>1, Zenon DEF Total, Cells
<1>4. CASE n = 1
  <2>1. Total(f) = 1 * Cardinality(1..k)
    BY <1>2, <1>3, <1>4
  <2> QED
    BY <1>2, <1>4, <2>1
<1>5. CASE k = 1
  <2>1. Total(f) = Cardinality(1..n) * 1
    BY <1>2, <1>3, <1>5
  <2> QED
    BY <1>2, <1>5, <2>1
<1> QED
  BY <1>4, <1>5

LEMMA TotalSingle ==
    ASSUME NEW k \in Nat, NEW f \in [1..1 -> Nat], \A i \in 1..1 : f[i] = k
    PROVE  Total(f) = k
<1>1. 1 \in Nat
  OBVIOUS
<1> QED
  BY <1>1, TotalAlike

\* A sequence of numbers sums to what its two parts do.
LEMMA TotalSplit ==
    ASSUME NEW n \in Nat, NEW m \in Nat,
           NEW f \in [1..(n + m) -> Nat], NEW g \in [1..n -> Nat], NEW h \in [1..m -> Nat],
           \A i \in 1..n : f[i] = g[i],
           \A i \in 1..m : f[n + i] = h[i]
    PROVE  Total(f) = Total(g) + Total(h)
<1> DEFINE rest == {c \in Cells(f) : c[1] > n}
           back == [c \in rest |-> <<c[1] - n, c[2]>>]
<1>1. /\ \A i \in 1..(n + m) : i \in Int /\ (i > n => i - n \in 1..m /\ f[i] = h[i - n])
      /\ \A i \in 1..(n + m) : ~(i > n) => i \in 1..n
      /\ \A i \in 1..n : i \in 1..(n + m) /\ ~(i > n)
      /\ \A i \in 1..m : n + i \in 1..(n + m) /\ n + i > n /\ (n + i) - n = i
  <2>1. ASSUME NEW i \in 1..(n + m), i > n
        PROVE  i - n \in 1..m /\ f[i] = h[i - n]
    <3>1. i - n \in 1..m /\ n + (i - n) = i
      BY <2>1
    <3> QED
      BY <3>1
  <2> QED
    BY <2>1
<1>2. /\ \A c \in Cells(f) : c[1] \in 1..(n + m) /\ c[2] \in 1..f[c[1]] /\ c = <<c[1], c[2]>>
      /\ \A i \in 1..(n + m) : \A b \in 1..f[i] : <<i, b>> \in Cells(f)
  BY CellFacts
<1>3. /\ \A c \in Cells(g) : c[1] \in 1..n /\ c[2] \in 1..g[c[1]] /\ c = <<c[1], c[2]>>
      /\ \A i \in 1..n : \A b \in 1..g[i] : <<i, b>> \in Cells(g)
  BY CellFacts
<1>4. /\ \A c \in Cells(h) : c[1] \in 1..m /\ c[2] \in 1..h[c[1]] /\ c = <<c[1], c[2]>>
      /\ \A i \in 1..m : \A b \in 1..h[i] : <<i, b>> \in Cells(h)
  BY CellFacts
<1>5. Cells(f) = Cells(g) \cup rest
  <2>1. ASSUME NEW c \in Cells(f), c \notin rest
        PROVE  c \in Cells(g)
    <3>1. c[1] \in 1..n /\ c[2] \in 1..g[c[1]] /\ c = <<c[1], c[2]>>
      BY <1>1, <1>2, <2>1
    <3> QED
      BY <1>3, <3>1
  <2>2. ASSUME NEW c \in Cells(g)
        PROVE  c \in Cells(f)
    <3>1. c[1] \in 1..(n + m) /\ c[2] \in 1..f[c[1]] /\ c = <<c[1], c[2]>>
      BY <1>1, <1>3
    <3> QED
      BY <1>2, <3>1
  <2> QED
    BY <2>1, <2>2
<1>6. Cells(g) \cap rest = {}
  BY <1>1, <1>3
<1>7. back \in Bijection(rest, Cells(h))
  <2>1. \A c \in rest : <<c[1] - n, c[2]>> \in Cells(h)
    <3>1. ASSUME NEW c \in rest
          PROVE  <<c[1] - n, c[2]>> \in Cells(h)
      <4>1. c[1] - n \in 1..m /\ c[2] \in 1..h[c[1] - n]
        BY <1>1, <1>2
      <4> QED
        BY <1>4, <4>1
    <3> QED
      BY <3>1
  <2>2. \A c, d \in rest : <<c[1] - n, c[2]>> = <<d[1] - n, d[2]>> => c = d
    <3> TAKE c, d \in rest
    <3>1. c[1] \in Int /\ d[1] \in Int /\ c = <<c[1], c[2]>> /\ d = <<d[1], d[2]>>
      BY <1>1, <1>2
    <3> QED
      BY <3>1
  <2>3. \A e \in Cells(h) : \E c \in rest : <<c[1] - n, c[2]>> = e
    <3> TAKE e \in Cells(h)
    <3>1. e[1] \in 1..m /\ e[2] \in 1..h[e[1]] /\ e = <<e[1], e[2]>>
      BY <1>4
    <3>2. n + e[1] \in 1..(n + m) /\ n + e[1] > n /\ (n + e[1]) - n = e[1]
          /\ f[n + e[1]] = h[e[1]]
      BY <1>1, <3>1
    <3>3. <<n + e[1], e[2]>> \in rest
      BY <1>2, <3>1, <3>2
    <3> WITNESS <<n + e[1], e[2]>> \in rest
    <3> QED
      BY <3>1, <3>2
  <2>4. back \in [rest -> Cells(h)] /\ \A c \in rest : back[c] = <<c[1] - n, c[2]>>
    BY <2>1
  <2> HIDE DEF back
  <2>5. back \in Injection(rest, Cells(h))
    BY <2>2, <2>4 DEF Injection, IsInjective
  <2>6. back \in Surjection(rest, Cells(h))
    BY <2>3, <2>4 DEF Surjection
  <2> QED
    BY <2>5, <2>6 DEF Bijection
<1>8. IsFiniteSet(1..n) /\ IsFiniteSet(1..m) /\ IsFiniteSet(1..(n + m))
  BY FS_Interval
<1>9. IsFiniteSet(Cells(f)) /\ IsFiniteSet(Cells(g)) /\ IsFiniteSet(rest)
  BY <1>8, TotalFinite, FS_Subset
<1> HIDE DEF rest
<1>10. Cardinality(Cells(h)) = Cardinality(rest)
  BY <1>7, <1>9, FS_Bijection DEF ExistsBijection
<1>11. Cardinality(Cells(f)) = Cardinality(Cells(g)) + Cardinality(rest) - Cardinality(Cells(g) \cap rest)
  BY <1>5, <1>9, FS_Union
<1>12. Cardinality(Cells(g) \cap rest) = 0
  BY <1>6, FS_EmptySet
<1>13. Total(f) = Cardinality(Cells(f)) /\ Total(g) = Cardinality(Cells(g))
       /\ Total(h) = Cardinality(Cells(h)) /\ Total(g) \in Nat /\ Total(h) \in Nat
  BY <1>8, TotalFinite
<1> QED
  BY <1>10, <1>11, <1>12, <1>13

\* One more of one thing is one more of all.
LEMMA TotalOneMore ==
    ASSUME NEW D, IsFiniteSet(D), NEW f \in [D -> Nat], NEW t \in D
    PROVE  Total([f EXCEPT ![t] = f[t] + 1]) = Total(f) + 1
<1> DEFINE g == [f EXCEPT ![t] = f[t] + 1]
<1>1. g \in [D -> Nat] /\ g[t] = f[t] + 1 /\ \A i \in D : i # t => g[i] = f[i]
  OBVIOUS
<1> HIDE DEF g
<1>2. /\ f[t] + 1 \in 1..g[t] /\ f[t] + 1 \notin 1..f[t] /\ f[t] \in Nat
      /\ \A b \in 1..g[t] : b = f[t] + 1 \/ b \in 1..f[t]
      /\ 1..f[t] \subseteq 1..g[t]
  BY <1>1
<1>3. Cells(g) = Cells(f) \cup {<<t, f[t] + 1>>} /\ <<t, f[t] + 1>> \notin Cells(f)
  <2>1. ASSUME NEW c \in Cells(g)
        PROVE  c \in Cells(f) \cup {<<t, f[t] + 1>>}
    <3>1. c[1] \in D /\ c[2] \in 1..g[c[1]] /\ c = <<c[1], c[2]>>
      BY <1>1, CellFacts
    <3>2. CASE c[1] = t
      BY <1>2, <3>1, <3>2, CellFacts
    <3>3. CASE c[1] # t
      BY <1>1, <3>1, <3>3, CellFacts
    <3> QED
      BY <3>2, <3>3
  <2>2. ASSUME NEW c \in Cells(f)
        PROVE  c \in Cells(g)
    <3>1. c[1] \in D /\ c[2] \in 1..f[c[1]] /\ c = <<c[1], c[2]>>
      BY CellFacts
    <3>2. c[2] \in 1..g[c[1]]
      BY <1>1, <1>2, <3>1
    <3> QED
      BY <1>1, <3>1, <3>2, CellFacts
  <2>3. <<t, f[t] + 1>> \in Cells(g)
    BY <1>1, <1>2, CellFacts
  <2>4. <<t, f[t] + 1>> \notin Cells(f)
    <3>1. SUFFICES ASSUME <<t, f[t] + 1>> \in Cells(f)
                   PROVE  FALSE
      OBVIOUS
    <3>2. f[t] + 1 \in 1..f[t]
      BY <3>1, CellFacts
    <3> QED
      BY <1>2, <3>2
  <2> QED
    BY <2>1, <2>2, <2>3, <2>4
<1>4. IsFiniteSet(Cells(f)) /\ Total(f) = Cardinality(Cells(f)) /\ Total(g) = Cardinality(Cells(g))
  BY <1>1, TotalFinite
<1>5. Cardinality(Cells(g)) = Cardinality(Cells(f)) + 1
  BY <1>3, <1>4, FS_AddElement
<1> QED
  BY <1>4, <1>5 DEF g

----------------------------------------------------------------------------
(* What sequences of lines take and tell.                                  *)

LEMMA ItemFacts ==
    /\ \A line \in Lines :
          /\ heap_cost(line) \in Nat /\ heap_cost(line) >= LineSize
          /\ Tells(line) = 1 /\ line.kind = "line" /\ line.thread \in Threads /\ line.n \in Nat
    /\ \A item \in Items :
          /\ Tells(item) \in Nat
          /\ item.kind = "line" => item \in Lines
    /\ \A n \in Nat : Note(n) \in Items /\ Tells(Note(n)) = n /\ Note(n).kind = "note"
    /\ Lines \subseteq Items
    /\ \A t \in Threads, n \in Nat, size \in Nat :
          Line(t, n, size) \in Lines /\ Line(t, n, size).thread = t /\ Line(t, n, size).n = n
<1>1. ASSUME NEW line \in Lines
      PROVE  /\ heap_cost(line) \in Nat /\ heap_cost(line) >= LineSize
             /\ Tells(line) = 1 /\ line.kind = "line" /\ line.thread \in Threads /\ line.n \in Nat
  BY SizesAssumption DEF Lines, heap_cost, Tells
<1>2. ASSUME NEW note \in [kind : {"note"}, count : Nat]
      PROVE  Tells(note) = note.count /\ note.count \in Nat /\ note.kind = "note"
  BY DEF Tells
<1>3. ASSUME NEW item \in Items
      PROVE  Tells(item) \in Nat /\ (item.kind = "line" => item \in Lines)
  <2>1. CASE item \in Lines
    BY <1>1, <2>1
  <2>2. CASE item \in [kind : {"note"}, count : Nat]
    BY <1>2, <2>2
  <2> QED
    BY <2>1, <2>2 DEF Items
<1>4. ASSUME NEW n \in Nat
      PROVE  Note(n) \in Items /\ Tells(Note(n)) = n /\ Note(n).kind = "note"
  <2>1. Note(n) \in [kind : {"note"}, count : Nat] /\ Note(n).count = n
    BY DEF Note
  <2> QED
    BY <1>2, <2>1 DEF Items
<1>5. ASSUME NEW t \in Threads, NEW n \in Nat, NEW size \in Nat
      PROVE  Line(t, n, size) \in Lines /\ Line(t, n, size).thread = t /\ Line(t, n, size).n = n
  BY DEF Line, Lines
<1> QED
  BY <1>1, <1>3, <1>4, <1>5 DEF Items

\* Where the elements of two sequences are in the one that has both.
LEMMA JoinElements ==
    ASSUME NEW S, NEW s \in Seq(S), NEW t \in Seq(S)
    PROVE  /\ s \o t \in Seq(S) /\ Len(s \o t) = Len(s) + Len(t)
           /\ Len(s) \in Nat /\ Len(t) \in Nat
           /\ \A i \in 1..Len(s) : (s \o t)[i] = s[i]
           /\ \A i \in 1..Len(t) : (s \o t)[Len(s) + i] = t[i]
           /\ \A i \in 1..Len(s) : s[i] \in S
           /\ \A i \in 1..Len(t) : t[i] \in S
  OBVIOUS

LEMMA ElementsIn ==
    ASSUME NEW S, NEW s \in Seq(S)
    PROVE  Len(s) \in Nat /\ \A i \in 1..Len(s) : s[i] \in S
  OBVIOUS

LEMMA HeapFacts ==
    ASSUME NEW s \in Seq(Lines)
    PROVE  /\ Heap(s) \in Nat
           /\ \A t \in Seq(Lines) : Heap(s \o t) = Heap(s) + Heap(t)
           /\ \A line \in Lines : Heap(<<line>>) = heap_cost(line)
<1> DEFINE costs(q) == [i \in 1..Len(q) |-> heap_cost(q[i])]
<1>1. ASSUME NEW q \in Seq(Lines)
      PROVE  /\ Len(q) \in Nat /\ costs(q) \in [1..Len(q) -> Nat]
             /\ \A i \in 1..Len(q) : costs(q)[i] = heap_cost(q[i])
             /\ Heap(q) = Total(costs(q))
  <2>1. Len(q) \in Nat /\ \A i \in 1..Len(q) : q[i] \in Lines
    BY ElementsIn
  <2>2. \A i \in 1..Len(q) : heap_cost(q[i]) \in Nat
    BY <2>1, ItemFacts
  <2> QED
    BY <2>1, <2>2 DEF Heap
<1> HIDE DEF costs
<1>2. ASSUME NEW q \in Seq(Lines)
      PROVE  Heap(q) \in Nat
  <2>1. IsFiniteSet(1..Len(q))
    BY <1>1, FS_Interval
  <2> QED
    BY <1>1, <2>1, TotalFinite
<1>3. ASSUME NEW t \in Seq(Lines)
      PROVE  Heap(s \o t) = Heap(s) + Heap(t)
  <2>1. /\ s \o t \in Seq(Lines) /\ Len(s \o t) = Len(s) + Len(t)
        /\ \A i \in 1..Len(s) : (s \o t)[i] = s[i] /\ i \in 1..Len(s \o t)
        /\ \A i \in 1..Len(t) : (s \o t)[Len(s) + i] = t[i] /\ Len(s) + i \in 1..Len(s \o t)
    BY JoinElements
  <2>2. /\ costs(s \o t) \in [1..(Len(s) + Len(t)) -> Nat]
        /\ \A i \in 1..Len(s) : costs(s \o t)[i] = costs(s)[i]
        /\ \A i \in 1..Len(t) : costs(s \o t)[Len(s) + i] = costs(t)[i]
    BY <1>1, <2>1, ZenonT(40)
  <2>3. Total(costs(s \o t)) = Total(costs(s)) + Total(costs(t))
    BY <1>1, <2>2, TotalSplit
  <2> QED
    BY <1>1, <2>1, <2>3
<1>4. ASSUME NEW line \in Lines
      PROVE  Heap(<<line>>) = heap_cost(line)
  <2>1. ASSUME NEW q \in Seq(Lines), Len(q) = 1, q[1] = line
        PROVE  Heap(q) = heap_cost(line)
    <3>1. costs(q) \in [1..1 -> Nat] /\ \A i \in 1..1 : costs(q)[i] = heap_cost(line)
      BY <1>1, <2>1, SMTT(30)
    <3>2. Total(costs(q)) = heap_cost(line)
      BY <3>1, ItemFacts, TotalSingle
    <3> QED
      BY <1>1, <2>1, <3>2
  <2>2. <<line>> \in Seq(Lines) /\ Len(<<line>>) = 1 /\ <<line>>[1] = line
    OBVIOUS
  <2> QED
    BY <2>1, <2>2
<1> QED
  BY <1>2, <1>3, <1>4

LEMMA ToldFacts ==
    ASSUME NEW s \in Seq(Items)
    PROVE  /\ Told(s) \in Nat /\ Told(<<>>) = 0
           /\ \A t \in Seq(Items) : Told(s \o t) = Told(s) + Told(t)
           /\ \A item \in Items : Told(<<item>>) = Tells(item)
           /\ s \in Seq(Lines) => Told(s) = Len(s)
<1> DEFINE tells(q) == [i \in 1..Len(q) |-> Tells(q[i])]
<1>1. ASSUME NEW q \in Seq(Items)
      PROVE  /\ Len(q) \in Nat /\ tells(q) \in [1..Len(q) -> Nat]
             /\ \A i \in 1..Len(q) : tells(q)[i] = Tells(q[i])
             /\ Told(q) = Total(tells(q))
  <2>1. Len(q) \in Nat /\ \A i \in 1..Len(q) : q[i] \in Items
    BY ElementsIn
  <2>2. \A i \in 1..Len(q) : Tells(q[i]) \in Nat
    BY <2>1, ItemFacts
  <2> QED
    BY <2>1, <2>2 DEF Told
<1> HIDE DEF tells
<1>2. ASSUME NEW q \in Seq(Items)
      PROVE  Told(q) \in Nat
  <2>1. IsFiniteSet(1..Len(q))
    BY <1>1, FS_Interval
  <2> QED
    BY <1>1, <2>1, TotalFinite
<1>3. ASSUME NEW t \in Seq(Items)
      PROVE  Told(s \o t) = Told(s) + Told(t)
  <2>1. /\ s \o t \in Seq(Items) /\ Len(s \o t) = Len(s) + Len(t)
        /\ \A i \in 1..Len(s) : (s \o t)[i] = s[i] /\ i \in 1..Len(s \o t)
        /\ \A i \in 1..Len(t) : (s \o t)[Len(s) + i] = t[i] /\ Len(s) + i \in 1..Len(s \o t)
    BY JoinElements
  <2>2. /\ tells(s \o t) \in [1..(Len(s) + Len(t)) -> Nat]
        /\ \A i \in 1..Len(s) : tells(s \o t)[i] = tells(s)[i]
        /\ \A i \in 1..Len(t) : tells(s \o t)[Len(s) + i] = tells(t)[i]
    BY <1>1, <2>1, ZenonT(40)
  <2>3. Total(tells(s \o t)) = Total(tells(s)) + Total(tells(t))
    BY <1>1, <2>2, TotalSplit
  <2> QED
    BY <1>1, <2>1, <2>3
<1>4. ASSUME NEW item \in Items
      PROVE  Told(<<item>>) = Tells(item)
  <2>1. ASSUME NEW q \in Seq(Items), Len(q) = 1, q[1] = item
        PROVE  Told(q) = Tells(item)
    <3>1. tells(q) \in [1..1 -> Nat] /\ \A i \in 1..1 : tells(q)[i] = Tells(item)
      BY <1>1, <2>1
    <3>2. Total(tells(q)) = Tells(item)
      BY <3>1, ItemFacts, TotalSingle
    <3> QED
      BY <1>1, <2>1, <3>2
  <2>2. <<item>> \in Seq(Items) /\ Len(<<item>>) = 1 /\ <<item>>[1] = item
    OBVIOUS
  <2> QED
    BY <2>1, <2>2
<1>5. ASSUME s \in Seq(Lines)
      PROVE  Told(s) = Len(s)
  <2>1. \A i \in 1..Len(s) : s[i] \in Lines
    BY <1>5, ElementsIn
  <2>2. /\ tells(s) \in [1..Len(s) -> Nat] /\ Len(s) \in Nat
        /\ \A i \in 1..Len(s) : tells(s)[i] = 1
    BY <1>1, <2>1, ItemFacts
  <2>3. Total(tells(s)) = Len(s)
    BY <2>2, TotalAlike
  <2> QED
    BY <1>1, <2>2, <2>3
<1>6. Told(<<>>) = 0
  <2>1. <<>> \in Seq(Items) /\ Len(<<>>) = 0
    OBVIOUS
  <2>2. Told(<<>>) = Total(tells(<<>>)) /\ DOMAIN tells(<<>>) = 1..0
    BY <1>1, <2>1
  <2>3. 1..0 = {}
    OBVIOUS
  <2> QED
    BY <2>2, <2>3, TotalNone
<1> QED
  BY <1>2, <1>3, <1>4, <1>5, <1>6

----------------------------------------------------------------------------
(* Parts of sequences.                                                     *)

LEMMA TakenApart ==
    ASSUME NEW S, NEW s \in Seq(S), NEW n \in 0..Len(s)
    PROVE  /\ SubSeq(s, 1, n) \in Seq(S) /\ SubSeq(s, n + 1, Len(s)) \in Seq(S)
           /\ Len(SubSeq(s, 1, n)) = n /\ Len(SubSeq(s, n + 1, Len(s))) = Len(s) - n
           /\ SubSeq(s, 1, n) \o SubSeq(s, n + 1, Len(s)) = s
<1>1. /\ Len(s) \in Nat /\ n \in Int /\ 1 \in Int /\ n + 1 \in Int /\ n <= Len(s) /\ 0 <= n
      /\ \A i \in 1..n : s[i] \in S
      /\ \A i \in (n + 1)..Len(s) : s[i] \in S
  OBVIOUS
<1>2. SubSeq(s, 1, n) \in Seq(S) /\ Len(SubSeq(s, 1, n)) = n
  BY <1>1, SubSeqProperties
<1>3. SubSeq(s, n + 1, Len(s)) \in Seq(S) /\ Len(SubSeq(s, n + 1, Len(s))) = Len(s) - n
  BY <1>1, SubSeqProperties
<1>4. SubSeq(s, 1, n) \o SubSeq(s, n + 1, Len(s)) = SubSeq(s, 1, Len(s))
  <2>1. 1 \in 1..(Len(s) + 1) /\ n \in (1 - 1)..Len(s) /\ Len(s) \in n..Len(s)
    BY <1>1
  <2> QED
    BY <2>1, ConcatAdjacentSubSeq
<1> QED
  BY <1>2, <1>3, <1>4, SubSeqFull

LEMMA HeadApart ==
    ASSUME NEW S, NEW s \in Seq(S), s # <<>>
    PROVE  /\ Head(s) \in S /\ Tail(s) \in Seq(S) /\ <<Head(s)>> \in Seq(S)
           /\ Len(Tail(s)) = Len(s) - 1 /\ Len(s) \in Nat /\ Len(s) >= 1
           /\ s = <<Head(s)>> \o Tail(s)
<1>1. Head(s) \in S /\ Tail(s) \in Seq(S) /\ Len(Tail(s)) = Len(s) - 1 /\ Head(s) = s[1]
  BY HeadTailProperties
<1>2. Len(s) \in Nat /\ Len(s) >= 1 /\ 1 \in 1..Len(s) /\ Len(s) \in 1..Len(s)
  OBVIOUS
<1>3. SubSeq(s, 1, Len(s)) = <<s[1]>> \o SubSeq(s, 1 + 1, Len(s))
  BY <1>2, SubSeqRecursiveFirst
<1>4. SubSeq(s, 1, Len(s)) = s /\ Tail(s) = SubSeq(s, 2, Len(s)) /\ 1 + 1 = 2
  BY SubSeqFull, TailIsSubSeq
<1>5. <<Head(s)>> \in Seq(S)
  BY <1>1
<1> QED
  BY <1>1, <1>2, <1>3, <1>4, <1>5

LEMMA AppendedElements ==
    ASSUME NEW S, NEW s \in Seq(S), NEW x \in S
    PROVE  /\ Len(Append(s, x)) = Len(s) + 1
           /\ \A i \in 1..Len(s) : Append(s, x)[i] = s[i]
           /\ Append(s, x)[Len(s) + 1] = x
           /\ \A i \in 1..Len(Append(s, x)) : i \in 1..Len(s) \/ i = Len(s) + 1
  OBVIOUS

\* What is taken off the front of one sequence to the end of the one before it
\* stays where it was.
StaysPut(s, t, front, u) == (s \o (t \o front)) \o u = (s \o t) \o (front \o u)

LEMMA FrontMoves ==
    ASSUME NEW S, NEW s \in Seq(S), NEW t \in Seq(S), NEW front \in Seq(S), NEW u \in Seq(S)
    PROVE  StaysPut(s, t, front, u)
<1>1. s \o t \in Seq(S)
  BY JoinElements
<1>2. (s \o t) \o front = s \o (t \o front)
  BY ConcatAssociative, SMTT(40)
<1>3. ((s \o t) \o front) \o u = (s \o t) \o (front \o u)
  BY <1>1, ConcatAssociative, SMTT(40)
<1> QED
  BY <1>2, <1>3 DEF StaysPut

LEMMA AppendLast ==
    ASSUME NEW S, NEW s \in Seq(S), NEW t \in Seq(S), NEW x \in S
    PROVE  s \o Append(t, x) = Append(s \o t, x)
<1>1. s \o t \in Seq(S) /\ <<x>> \in Seq(S)
  BY JoinElements
<1>2. Append(t, x) = t \o <<x>> /\ Append(s \o t, x) = (s \o t) \o <<x>>
  BY <1>1, AppendIsConcat
<1> QED
  BY <1>1, <1>2, ConcatAssociative, SMTT(40)

\* Where in a sequence what is left of it was, when its middle is gone.
LEMMA WithoutMiddle ==
    ASSUME NEW S, NEW s \in Seq(S), NEW t \in Seq(S), NEW u \in Seq(S),
           NEW i \in 1..Len(s \o u)
    PROVE  LET at == IF i <= Len(s) THEN i ELSE i + Len(t)
           IN  at \in 1..Len((s \o t) \o u) /\ (s \o u)[i] = ((s \o t) \o u)[at]
<1>1. /\ s \o t \in Seq(S) /\ Len(s \o t) = Len(s) + Len(t)
      /\ Len(s) \in Nat /\ Len(t) \in Nat /\ Len(u) \in Nat
      /\ Len(s \o u) = Len(s) + Len(u) /\ Len((s \o t) \o u) = Len(s) + Len(t) + Len(u)
  BY JoinElements
<1>2. CASE i <= Len(s)
  <2>1. i \in 1..Len(s) /\ i \in 1..Len(s \o t)
    BY <1>1, <1>2
  <2>2. (s \o u)[i] = s[i] /\ (s \o t)[i] = s[i] /\ ((s \o t) \o u)[i] = (s \o t)[i]
    BY <1>1, <2>1, JoinElements
  <2> QED
    BY <1>1, <1>2, <2>1, <2>2
<1>3. CASE i > Len(s)
  <2> DEFINE k == i - Len(s)
  <2>1. k \in 1..Len(u) /\ i = Len(s) + k /\ i + Len(t) = Len(s \o t) + k
    BY <1>1, <1>3
  <2> HIDE DEF k
  <2>2. (s \o u)[Len(s) + k] = u[k] /\ ((s \o t) \o u)[Len(s \o t) + k] = u[k]
    BY <1>1, <2>1, JoinElements
  <2>3. i + Len(t) \in 1..Len((s \o t) \o u) /\ ~(i <= Len(s))
    BY <1>1, <1>3
  <2> QED
    BY <2>1, <2>2, <2>3
<1> QED
  BY <1>1, <1>2, <1>3

----------------------------------------------------------------------------
(* What the steps do to the backlog.                                       *)

\* It is left alone, gets a line that fits, or has lines taken from its front.
Pushed(t) ==
    /\ logging[t] # <<>> /\ t \notin refused /\ Fits(logging[t][1])
    /\ lines' = Append(lines, logging[t][1])
    /\ bytes' = bytes + heap_cost(logging[t][1])
    /\ UNCHANGED <<dropped, logged, refused, agentVars>>
    /\ logging' = [logging EXCEPT ![t] = <<>>]

Taken(front) ==
    /\ front \in Seq(Lines) /\ lines' \in Seq(Lines) /\ lines = front \o lines'
    /\ batch' = batch \o front
    /\ bytes' = bytes - Heap(front)
    /\ UNCHANGED <<dropped, loggerVars, attached, sent, unsent, losses>>
    /\ drain' \in {"note", "send"}

LEMMA DrainTakes ==
    ASSUME LogBufferInv, take_stamped \/ (pop /\ lines # <<>>)
    PROVE  \E front \in Seq(Lines) : Taken(front)
<1>0. lines \in Seq(Lines) /\ batch \in Seq(Items) /\ (drain = "idle" => batch = <<>>)
  BY DEF LogBufferInv, LogBufferTypeOK, HandInv
<1>1. CASE take_stamped
  <2>1. PICK n \in 0..Len(lines) : Takes(n)
    BY <1>1 DEF take_stamped
  <2> DEFINE front == SubSeq(lines, 1, n)
  <2>2. /\ front \in Seq(Lines) /\ SubSeq(lines, n + 1, Len(lines)) \in Seq(Lines)
        /\ front \o SubSeq(lines, n + 1, Len(lines)) = lines
    BY <1>0, TakenApart
  <2>3. batch' = front /\ lines' = SubSeq(lines, n + 1, Len(lines)) /\ bytes' = bytes - Heap(front)
        /\ drain' \in {"note", "send"}
    BY <2>1 DEF Takes, AfterTaking
  <2>4. <<>> \o front = front
    BY <2>2, ConcatEmptySeq
  <2>5. batch = <<>> /\ UNCHANGED <<dropped, loggerVars, attached, sent, unsent, losses>>
    BY <1>0, <1>1 DEF take_stamped
  <2> HIDE DEF front
  <2>6. Taken(front)
    BY <2>2, <2>3, <2>4, <2>5 DEF Taken
  <2> QED
    BY <2>2, <2>6
<1>2. CASE pop /\ lines # <<>>
  <2>1. /\ batch' = Append(batch, Head(lines)) /\ lines' = Tail(lines)
        /\ bytes' = bytes - heap_cost(Head(lines))
        /\ drain' = (IF batch' = <<>> THEN "idle" ELSE "send")
        /\ UNCHANGED <<dropped, loggerVars, attached, sent, unsent, losses>>
    BY <1>2 DEF pop
  <2>2. /\ Head(lines) \in Lines /\ Tail(lines) \in Seq(Lines) /\ <<Head(lines)>> \in Seq(Lines)
        /\ lines = <<Head(lines)>> \o Tail(lines)
    BY <1>0, <1>2, HeadApart
  <2>3. Heap(<<Head(lines)>>) = heap_cost(Head(lines))
    BY <1>0, <2>2, HeapFacts
  <2>4. batch' = batch \o <<Head(lines)>> /\ batch' # <<>>
    BY <1>0, <2>1, <2>2, ItemFacts, AppendIsConcat, AppendProperties, SMTT(30)
  <2>5. Taken(<<Head(lines)>>)
    BY <2>1, <2>2, <2>3, <2>4 DEF Taken
  <2> QED
    BY <2>2, <2>5
<1> QED
  BY <1>1, <1>2

LEMMA BacklogMoves ==
    ASSUME LogBufferInv, Next
    PROVE  \/ UNCHANGED <<lines, bytes>>
           \/ \E t \in Threads : Pushed(t)
           \/ \E front \in Seq(Lines) : Taken(front)
<1>1. ASSUME NEW t \in Threads, push(t)
      PROVE  UNCHANGED <<lines, bytes>> \/ Pushed(t)
  BY <1>1 DEF push, Pushed
<1>2. CASE pop /\ lines = <<>>
  BY <1>2 DEF pop
<1>3. ASSUME NEW t \in Threads, CountRefused(t) \/ \E size \in Sizes : AskRoom(t, size)
      PROVE  UNCHANGED <<lines, bytes>>
  BY <1>3 DEF CountRefused, AskRoom, queueVars
<1>4. CASE Attach \/ Detach \/ Send \/ SendFails
  BY <1>4 DEF Attach, Detach, Send, SendFails, queueVars
<1> QED
  BY <1>1, <1>2, <1>3, <1>4, DrainTakes DEF Next, Logger, AgentDrains

\* What a thread has in hand is a line of its own.
LEMMA LineInHand ==
    ASSUME LogBufferInv, NEW t \in Threads, logging[t] # <<>>
    PROVE  /\ logging[t][1] \in Lines /\ logging[t][1].thread = t
           /\ logging[t][1].n = logged[t] /\ logged[t] \in Nat
<1>1. PICK size \in Nat : logging[t] = <<Line(t, logged[t], size)>>
  BY DEF LogBufferInv, HandInv
<1>2. logged[t] \in Nat
  BY DEF LogBufferInv, LogBufferTypeOK
<1>3. logging[t][1] = Line(t, logged[t], size)
  BY <1>1
<1>4. ASSUME NEW n \in Nat
      PROVE  LET line == Line(t, n, size)
             IN  line \in Lines /\ line.thread = t /\ line.n = n
  BY ItemFacts
<1> QED
  BY <1>2, <1>3, <1>4

\* It stays a queue of lines within both limits, and exactly weighed.
LEMMA LimitsStep ==
    ASSUME LogBufferInv, Next
    PROVE  lines' \in Seq(Lines) /\ bytes' \in Nat /\ WithinLimits'
<1>0. /\ lines \in Seq(Lines) /\ bytes \in Nat /\ WithinLimits /\ Len(lines) \in Nat
      /\ capacity \in Nat /\ max_bytes \in Nat
  BY LimitsAssumption DEF LogBufferInv, LogBufferTypeOK
<1>1. CASE UNCHANGED <<lines, bytes>>
  BY <1>0, <1>1 DEF WithinLimits
<1>2. ASSUME NEW t \in Threads, Pushed(t)
      PROVE  lines' \in Seq(Lines) /\ bytes' \in Nat /\ WithinLimits'
  <2> DEFINE line == logging[t][1]
  <2>1. line \in Lines
    BY <1>2, LineInHand DEF Pushed
  <2>2. heap_cost(line) \in Nat
    BY <2>1, ItemFacts
  <2>3. /\ lines' = Append(lines, line) /\ bytes' = bytes + heap_cost(line)
        /\ Len(lines) < capacity /\ bytes + heap_cost(line) <= max_bytes
    BY <1>2 DEF Pushed, Fits
  <2> HIDE DEF line
  <2>4. lines' \in Seq(Lines) /\ Len(lines') = Len(lines) + 1 /\ lines' = lines \o <<line>>
    BY <1>0, <2>1, <2>3, AppendProperties, AppendIsConcat
  <2>5. <<line>> \in Seq(Lines)
    BY <2>1
  <2>6. Heap(lines') = Heap(lines) + heap_cost(line) /\ Heap(lines) \in Nat
    BY <1>0, <2>1, <2>4, <2>5, HeapFacts
  <2> QED
    BY <1>0, <2>2, <2>3, <2>4, <2>6, SMTT(30) DEF WithinLimits
<1>3. ASSUME NEW front \in Seq(Lines), Taken(front)
      PROVE  lines' \in Seq(Lines) /\ bytes' \in Nat /\ WithinLimits'
  <2>1. lines' \in Seq(Lines) /\ lines = front \o lines' /\ bytes' = bytes - Heap(front)
    BY <1>3 DEF Taken
  <2>2. Heap(lines) = Heap(front) + Heap(lines') /\ Heap(front) \in Nat /\ Heap(lines') \in Nat
    <3>1. Heap(front \o lines') = Heap(front) + Heap(lines') /\ Heap(front) \in Nat /\ Heap(lines') \in Nat
      BY <2>1, HeapFacts
    <3> QED
      BY <2>1, <3>1, Zenon
  <2>3. Len(lines) = Len(front) + Len(lines') /\ Len(front) \in Nat /\ Len(lines') \in Nat
    BY <2>1, JoinElements
  <2>4. bytes = Heap(lines) /\ bytes <= max_bytes /\ Len(lines) <= capacity
    BY <1>0 DEF WithinLimits
  <2>5. bytes' = Heap(lines') /\ bytes' <= bytes
    BY <1>0, <2>1, <2>2, <2>4
  <2>6. Len(lines') <= Len(lines)
    BY <2>3
  <2>7. bytes' \in Nat
    BY <2>2, <2>5
  <2>8. Len(lines') <= capacity /\ bytes' <= max_bytes
    BY <1>0, <2>3, <2>4, <2>5, <2>6, <2>7
  <2> QED
    BY <2>1, <2>5, <2>7, <2>8 DEF WithinLimits
<1> QED
  BY <1>1, <1>2, <1>3, BacklogMoves

LEMMA TypeStep ==
    ASSUME LogBufferInv, Next
    PROVE  LogBufferTypeOK'
<1>0. LogBufferTypeOK /\ lines' \in Seq(Lines) /\ bytes' \in Nat
      /\ <<>> \in Seq(Lines) /\ <<>> \in Seq(Items) /\ Lines \subseteq Items
  BY LimitsStep, ItemFacts DEF LogBufferInv
<1>1. ASSUME NEW t \in Threads, NEW size \in Sizes, AskRoom(t, size)
      PROVE  LogBufferTypeOK'
  <2>1. logged[t] + 1 \in Nat /\ size \in Nat
    BY <1>0, SizesAssumption DEF LogBufferTypeOK
  <2>2. <<Line(t, logged[t] + 1, size)>> \in Seq(Lines)
    <3>1. Line(t, logged[t] + 1, size) \in Lines
      BY <2>1, ItemFacts
    <3> QED
      BY <3>1
  <2>3. logging' \in [Threads -> Seq(Lines)]
    BY <1>0, <1>1, <2>2 DEF AskRoom, LogBufferTypeOK
  <2>4. logged' \in [Threads -> Nat]
    BY <1>0, <1>1, <2>1 DEF AskRoom, LogBufferTypeOK
  <2>5. refused' \subseteq Threads
    BY <1>0, <1>1 DEF AskRoom, LogBufferTypeOK
  <2> QED
    BY <1>0, <1>1, <2>3, <2>4, <2>5 DEF AskRoom, LogBufferTypeOK, queueVars, agentVars
<1>2. ASSUME NEW t \in Threads, CountRefused(t) \/ push(t)
      PROVE  LogBufferTypeOK'
  <2>1. /\ logging' = [logging EXCEPT ![t] = <<>>] /\ refused' \subseteq refused
        /\ dropped' \in {dropped, dropped + 1}
        /\ UNCHANGED <<logged, attached, batch, drain, sent, unsent, losses>>
    BY <1>2 DEF CountRefused, push, agentVars
  <2>2. logging' \in [Threads -> Seq(Lines)] /\ dropped' \in Nat
    BY <1>0, <2>1 DEF LogBufferTypeOK
  <2> QED
    BY <1>0, <2>1, <2>2 DEF LogBufferTypeOK
<1>3. CASE Attach \/ Detach
  BY <1>0, <1>3 DEF Attach, Detach, LogBufferTypeOK, queueVars, loggerVars
<1>4. CASE take_stamped
  <2>1. PICK n \in 0..Len(lines) : Takes(n)
    BY <1>4 DEF take_stamped
  <2>2. SubSeq(lines, 1, n) \in Seq(Lines)
    BY <1>0, TakenApart DEF LogBufferTypeOK
  <2>3. batch' \in Seq(Items) /\ drain' \in {"note", "send"}
    BY <1>0, <2>1, <2>2 DEF Takes, AfterTaking
  <2> QED
    BY <1>0, <1>4, <2>3 DEF take_stamped, LogBufferTypeOK, loggerVars
<1>5. CASE pop
  <2>1. batch' \in Seq(Items) /\ dropped' \in Nat
    <3>1. CASE lines # <<>>
      <4>1. Head(lines) \in Items
        BY <1>0, <3>1, HeadApart DEF LogBufferTypeOK
      <4>2. batch' = Append(batch, Head(lines)) /\ dropped' = dropped
        BY <1>5, <3>1 DEF pop
      <4> QED
        BY <1>0, <4>1, <4>2, AppendProperties DEF LogBufferTypeOK
    <3>2. CASE lines = <<>>
      <4>1. Note(dropped) \in Items
        BY <1>0, ItemFacts DEF LogBufferTypeOK
      <4>2. batch' = (IF dropped = 0 THEN batch ELSE Append(batch, Note(dropped))) /\ dropped' = 0
        BY <1>5, <3>2 DEF pop
      <4> QED
        BY <1>0, <4>1, <4>2, AppendProperties DEF LogBufferTypeOK
    <3> QED
      BY <3>1, <3>2
  <2>2. drain' \in {"idle", "send"} /\ UNCHANGED <<loggerVars, attached, sent, unsent, losses>>
    BY <1>5 DEF pop
  <2> QED
    BY <1>0, <2>1, <2>2 DEF LogBufferTypeOK, loggerVars
<1>6. CASE Send
  <2>1. sent' \in Seq(Items)
    BY <1>0, <1>6, JoinElements DEF Send, LogBufferTypeOK
  <2> QED
    BY <1>0, <1>6, <2>1 DEF Send, LogBufferTypeOK, queueVars, loggerVars
<1>7. CASE SendFails
  <2>1. Told(batch) \in Nat
    BY <1>0, ToldFacts DEF LogBufferTypeOK
  <2> QED
    BY <1>0, <1>7, <2>1 DEF SendFails, LogBufferTypeOK, queueVars, loggerVars
<1> QED
  BY <1>1, <1>2, <1>3, <1>4, <1>5, <1>6, <1>7 DEF Next, Logger, AgentDrains

LEMMA HandStep ==
    ASSUME LogBufferInv, Next
    PROVE  HandInv'
<1>0. /\ HandInv /\ logging \in [Threads -> Seq(Lines)] /\ logged \in [Threads -> Nat]
      /\ refused \subseteq Threads /\ batch \in Seq(Items)
  BY DEF LogBufferInv, LogBufferTypeOK
<1>1. ASSUME NEW t \in Threads, NEW size \in Sizes, AskRoom(t, size)
      PROVE  HandInv'
  <2>1. /\ logging' = [logging EXCEPT ![t] = <<Line(t, logged[t] + 1, size)>>]
        /\ logged' = [logged EXCEPT ![t] = @ + 1]
        /\ refused' \subseteq refused \cup {t} /\ UNCHANGED <<batch, drain>> /\ size \in Nat
    BY <1>1, SizesAssumption DEF AskRoom, agentVars
  <2>2. ASSUME NEW u \in Threads, logging'[u] # <<>>
        PROVE  \E s \in Nat : logging'[u] = <<Line(u, logged'[u], s)>>
    <3>1. CASE u = t
      <4>1. logging'[t] = <<Line(t, logged'[t], size)>>
        BY <1>0, <2>1
      <4> QED
        BY <2>1, <3>1, <4>1
    <3>2. CASE u # t
      <4>1. logging'[u] = logging[u] /\ logged'[u] = logged[u]
        BY <1>0, <2>1, <3>2
      <4> QED
        BY <1>0, <2>2, <4>1 DEF HandInv
    <3> QED
      BY <3>1, <3>2
  <2>3. ASSUME NEW u \in refused'
        PROVE  logging'[u] # <<>>
    <3>1. CASE u = t
      BY <1>0, <2>1, <3>1
    <3>2. CASE u # t
      BY <1>0, <2>1, <2>3, <3>2 DEF HandInv
    <3> QED
      BY <3>1, <3>2
  <2> QED
    BY <1>0, <2>1, <2>2, <2>3 DEF HandInv
<1>2. ASSUME NEW t \in Threads, CountRefused(t) \/ push(t)
      PROVE  HandInv'
  <2>1. /\ logging' = [logging EXCEPT ![t] = <<>>] /\ refused' = refused \ {t}
        /\ UNCHANGED <<logged, batch, drain>>
    BY <1>0, <1>2 DEF CountRefused, push, agentVars
  <2>2. ASSUME NEW u \in Threads, logging'[u] # <<>>
        PROVE  \E s \in Nat : logging'[u] = <<Line(u, logged'[u], s)>>
    <3>1. u # t /\ logging'[u] = logging[u]
      BY <1>0, <2>1, <2>2
    <3> QED
      BY <1>0, <2>1, <2>2, <3>1 DEF HandInv
  <2>3. ASSUME NEW u \in refused'
        PROVE  logging'[u] # <<>>
    BY <1>0, <2>1, <2>3 DEF HandInv
  <2> QED
    BY <1>0, <2>1, <2>2, <2>3 DEF HandInv
<1>3. CASE Attach \/ Detach \/ AgentDrains \/ SendFails
  <2>1. UNCHANGED <<logging, logged, refused>>
    BY <1>3 DEF Attach, Detach, AgentDrains, take_stamped, pop, Send, SendFails, loggerVars
  <2>2. drain' = "idle" => batch' = <<>>
    BY <1>0, <1>3 DEF Attach, Detach, AgentDrains, take_stamped, Takes, AfterTaking, pop, Send,
                      SendFails, HandInv
  <2> QED
    BY <1>0, <2>1, <2>2 DEF HandInv
<1> QED
  BY <1>1, <1>2, <1>3 DEF Next, Logger

\* Every line is somewhere, and only once.
LEMMA AccountedStep ==
    ASSUME LogBufferInv, Next
    PROVE  Accounted'
<1>0. /\ LogBufferTypeOK /\ HandInv /\ IsFiniteSet(Threads)
      /\ lines \in Seq(Lines) /\ batch \in Seq(Items) /\ sent \in Seq(Items)
      /\ dropped \in Nat /\ unsent \in Nat /\ Len(lines) \in Nat
      /\ logging \in [Threads -> Seq(Lines)] /\ logged \in [Threads -> Nat]
  BY ThreadsAssumption DEF LogBufferInv, LogBufferTypeOK
<1>1. Total(logged) = Cardinality(Busy) + Len(lines) + Told(batch) + Told(sent) + dropped + unsent
  BY DEF LogBufferInv, Accounted
<1>2. IsFiniteSet(Busy) /\ Cardinality(Busy) \in Nat /\ Total(logged) \in Nat
  <2>1. Busy \subseteq Threads
    BY DEF Busy
  <2> QED
    BY <1>0, <2>1, FS_Subset, FS_CardinalityType, TotalFinite
<1>3. Told(batch) \in Nat /\ Told(sent) \in Nat /\ Told(<<>>) = 0
  BY <1>0, ToldFacts
<1>4. /\ Cardinality(Busy) \in Int /\ Len(lines) \in Int /\ dropped \in Int /\ unsent \in Int
       /\ Told(batch) \in Int /\ Told(sent) \in Int /\ Told(<<>>) = 0
  BY <1>0, <1>2, <1>3
<1>5. ASSUME NEW t \in Threads, NEW size \in Sizes, AskRoom(t, size)
      PROVE  Accounted'
  <2>1. /\ logging[t] = <<>> /\ logged' = [logged EXCEPT ![t] = logged[t] + 1]
        /\ logging' = [logging EXCEPT ![t] = <<Line(t, logged[t] + 1, size)>>]
        /\ UNCHANGED <<lines, dropped, batch, sent, unsent>>
    BY <1>5 DEF AskRoom, queueVars, agentVars
  <2>2. Busy' = Busy \cup {t} /\ t \notin Busy
    BY <1>0, <2>1 DEF Busy
  <2>3. Cardinality(Busy') = Cardinality(Busy) + 1
    BY <1>2, <2>2, FS_AddElement
  <2>4. Total(logged') = Total(logged) + 1
    BY <1>0, <2>1, TotalOneMore
  <2> QED
    <3>1. /\ Len(lines') = Len(lines) /\ Told(batch') = Told(batch) /\ Told(sent') = Told(sent)
          /\ dropped' = dropped /\ unsent' = unsent /\ Total(logged') = Total(logged) + 1
      BY <2>1, <2>4
    <3>2. Total(logged) + 1 = (Cardinality(Busy) + 1) + Len(lines) + Told(batch) + Told(sent) + dropped + unsent
      BY <1>1, <1>4
    <3> QED
      BY <2>3, <3>1, <3>2 DEF Accounted
<1>6. ASSUME NEW t \in Threads, CountRefused(t) \/ push(t)
      PROVE  Accounted'
  <2>1. /\ logging[t] # <<>> /\ logging' = [logging EXCEPT ![t] = <<>>]
        /\ UNCHANGED <<logged, batch, sent, unsent>>
        /\ \/ lines' = lines /\ dropped' = dropped + 1
           \/ lines' = Append(lines, logging[t][1]) /\ dropped' = dropped
    BY <1>0, <1>6 DEF CountRefused, push, HandInv, agentVars
  <2>2. Busy' = Busy \ {t} /\ t \in Busy
    BY <1>0, <2>1 DEF Busy
  <2>3. Cardinality(Busy') = Cardinality(Busy) - 1
    BY <1>2, <2>2, FS_RemoveElement
  <2>4. Len(lines') + dropped' = Len(lines) + dropped + 1
    <3>1. logging[t][1] \in Lines
      BY <2>1, LineInHand
    <3>2. Len(Append(lines, logging[t][1])) = Len(lines) + 1
      BY <1>0, <3>1, AppendProperties
    <3> QED
      BY <1>0, <2>1, <3>2
  <2>5. Len(lines') \in Nat /\ dropped' \in Nat
    BY LimitsStep, TypeStep DEF LogBufferTypeOK
  <2>6. /\ Total(logged') = Total(logged) /\ Told(batch') = Told(batch)
        /\ Told(sent') = Told(sent) /\ unsent' = unsent
    BY <2>1
  <2>7. Cardinality(Busy') + Len(lines') + dropped' = Cardinality(Busy) + Len(lines) + dropped
    <3>1. Cardinality(Busy) \in Int /\ Len(lines) \in Int /\ dropped \in Int
          /\ Len(lines') \in Int /\ dropped' \in Int
      BY <1>0, <1>2, <2>5
    <3>2. Cardinality(Busy') \in Int
      BY <2>3, <3>1
    <3>3. Cardinality(Busy') + Len(lines') + dropped' = Cardinality(Busy') + (Len(lines') + dropped')
      BY <3>1, <3>2
    <3>4. Cardinality(Busy') + (Len(lines') + dropped')
            = (Cardinality(Busy) - 1) + (Len(lines) + dropped + 1)
      BY <2>3, <2>4, Zenon
    <3>5. (Cardinality(Busy) - 1) + (Len(lines) + dropped + 1) = Cardinality(Busy) + Len(lines) + dropped
      BY <3>1
    <3> QED
      BY <3>3, <3>4, <3>5
  <2>8. Cardinality(Busy') \in Int
    BY <1>2, <2>3
  <2>9. Total(logged') = Cardinality(Busy') + Len(lines') + Told(batch') + Told(sent') + dropped' + unsent'
    <3>1. Total(logged) = (Cardinality(Busy) + Len(lines) + dropped) + Told(batch) + Told(sent) + unsent
      BY <1>0, <1>1, <1>2, <1>3, SMTT(30)
    <3>2. Total(logged) = (Cardinality(Busy') + Len(lines') + dropped') + Told(batch) + Told(sent) + unsent
      BY <2>7, <3>1
    <3>3. Total(logged) = Cardinality(Busy') + Len(lines') + Told(batch) + Told(sent) + dropped' + unsent
      BY <1>0, <1>3, <2>5, <2>8, <3>2, SMTT(30)
    <3> QED
      BY <2>6, <3>3
  <2> QED
    BY <2>9 DEF Accounted
<1>7. CASE Attach \/ Detach
  <2>1. UNCHANGED <<logging, logged, lines, dropped, batch, sent, unsent>>
    BY <1>7 DEF Attach, Detach, queueVars, loggerVars
  <2> QED
    BY <1>1, <2>1 DEF Accounted, Busy
<1>8. ASSUME NEW front \in Seq(Lines), Taken(front)
      PROVE  Accounted'
  <2>1. /\ lines' \in Seq(Lines) /\ lines = front \o lines' /\ batch' = batch \o front
        /\ UNCHANGED <<logging, logged, dropped, sent, unsent>>
    BY <1>8 DEF Taken, loggerVars
  <2>2. front \in Seq(Items)
    BY ItemFacts
  <2>3. Told(batch') = Told(batch) + Told(front) /\ Told(front) = Len(front)
    BY <1>0, <2>1, <2>2, ToldFacts
  <2>4. Len(lines) = Len(front) + Len(lines') /\ Len(front) \in Nat /\ Len(lines') \in Nat
    BY <2>1, JoinElements
  <2>5. Busy' = Busy
    BY <2>1 DEF Busy
  <2> QED
    <3>1. Total(logged) = Cardinality(Busy) + Len(lines') + (Told(batch) + Told(front)) + Told(sent) + dropped + unsent
      BY <1>1, <1>4, <2>3, <2>4
    <3> QED
      BY <2>1, <2>3, <2>5, <3>1 DEF Accounted
<1>9. CASE drain = "note" /\ lines = <<>> /\ pop
  <2>1. /\ batch' = (IF dropped = 0 THEN batch ELSE Append(batch, Note(dropped))) /\ dropped' = 0
        /\ UNCHANGED <<logging, logged, lines, sent, unsent>>
    BY <1>9 DEF pop, loggerVars
  <2>2. Told(batch') = Told(batch) + dropped
    <3>1. Note(dropped) \in Items /\ Tells(Note(dropped)) = dropped
      BY <1>0, ItemFacts
    <3>2. <<Note(dropped)>> \in Seq(Items) /\ Append(batch, Note(dropped)) = batch \o <<Note(dropped)>>
      BY <1>0, <3>1, AppendIsConcat
    <3>3. Told(Append(batch, Note(dropped))) = Told(batch) + dropped
      BY <1>0, <3>1, <3>2, ToldFacts
    <3> QED
      BY <1>0, <1>3, <2>1, <3>3
  <2>3. Busy' = Busy
    BY <2>1 DEF Busy
  <2> QED
    <3>1. Total(logged) = Cardinality(Busy) + Len(lines) + (Told(batch) + dropped) + Told(sent) + 0 + unsent
      BY <1>1, <1>4
    <3> QED
      BY <2>1, <2>2, <2>3, <3>1 DEF Accounted
<1>10. CASE Send
  <2>1. /\ sent' = sent \o batch /\ batch' = <<>>
        /\ UNCHANGED <<logging, logged, lines, dropped, unsent>>
    BY <1>10 DEF Send, queueVars, loggerVars
  <2>2. Told(sent') = Told(sent) + Told(batch)
    BY <1>0, <2>1, ToldFacts
  <2>3. Busy' = Busy
    BY <2>1 DEF Busy
  <2> QED
    <3>1. Total(logged) = Cardinality(Busy) + Len(lines) + Told(<<>>) + (Told(sent) + Told(batch)) + dropped + unsent
      BY <1>1, <1>4
    <3> QED
      BY <2>1, <2>2, <2>3, <3>1 DEF Accounted
<1>11. CASE SendFails
  <2>1. /\ unsent' = unsent + Told(batch) /\ batch' = <<>>
        /\ UNCHANGED <<logging, logged, lines, dropped, sent>>
    BY <1>11 DEF SendFails, queueVars, loggerVars
  <2>2. Busy' = Busy
    BY <2>1 DEF Busy
  <2> QED
    <3>1. Total(logged) = Cardinality(Busy) + Len(lines) + Told(<<>>) + Told(sent) + dropped + (unsent + Told(batch))
      BY <1>1, <1>4
    <3> QED
      BY <2>1, <2>2, <3>1 DEF Accounted
<1>12. take_stamped \/ (pop /\ lines # <<>>) => \E front \in Seq(Lines) : Taken(front)
  BY DrainTakes
<1> QED
  BY <1>5, <1>6, <1>7, <1>8, <1>9, <1>10, <1>11, <1>12 DEF Next, Logger, AgentDrains, pop

\* The path gets one more, or loses the batch out of its middle, or is as it was.
LEMMA PathMoves ==
    ASSUME LogBufferInv, Next
    PROVE  \/ \E t \in Threads :
                 /\ logging[t] # <<>> /\ Path' = Append(Path, logging[t][1])
                 /\ logging' = [logging EXCEPT ![t] = <<>>] /\ logged' = logged
           \/ \E n \in Nat : Path' = Append(Path, Note(n)) /\ UNCHANGED <<logging, logged>>
           \/ Path' = sent \o lines /\ UNCHANGED <<logging, logged>>
           \/ Path' = Path /\ UNCHANGED <<logging, logged>>
           \/ \E t \in Threads :
                 /\ logging[t] = <<>> /\ Path' = Path
                 /\ logged' = [logged EXCEPT ![t] = logged[t] + 1]
                 /\ \A u \in Threads : u # t => logging'[u] = logging[u]
           \/ \E t \in Threads :
                 Path' = Path /\ logging' = [logging EXCEPT ![t] = <<>>] /\ logged' = logged
<1>0. /\ lines \in Seq(Lines) /\ lines \in Seq(Items) /\ batch \in Seq(Items) /\ sent \in Seq(Items)
      /\ Lines \subseteq Items /\ dropped \in Nat /\ logging \in [Threads -> Seq(Lines)]
      /\ <<>> \in Seq(Items) /\ (drain = "idle" => batch = <<>>)
  BY ItemFacts DEF LogBufferInv, LogBufferTypeOK, HandInv
<1>1. sent \o batch \in Seq(Items) /\ Path = (sent \o batch) \o lines /\ Path \in Seq(Items)
  BY <1>0, JoinElements DEF Path
<1>2. ASSUME NEW t \in Threads, push(t)
      PROVE  /\ logging[t] # <<>> /\ (Path' = Append(Path, logging[t][1]) \/ Path' = Path)
             /\ logging' = [logging EXCEPT ![t] = <<>>] /\ logged' = logged
  <2>1. /\ logging[t] # <<>> /\ logging' = [logging EXCEPT ![t] = <<>>]
        /\ UNCHANGED <<logged, sent, batch>>
        /\ lines' = lines \/ lines' = Append(lines, logging[t][1])
    BY <1>2 DEF push, agentVars
  <2>2. logging[t][1] \in Items
    BY <1>0, <2>1, LineInHand
  <2>3. (sent \o batch) \o Append(lines, logging[t][1]) = Append((sent \o batch) \o lines, logging[t][1])
    BY <1>0, <1>1, <2>2, AppendLast
  <2> QED
    BY <2>1, <2>3 DEF Path
<1>3. ASSUME NEW front \in Seq(Lines), Taken(front)
      PROVE  Path' = Path /\ UNCHANGED <<logging, logged>>
  <2>1. /\ lines' \in Seq(Lines) /\ lines = front \o lines' /\ batch' = batch \o front
        /\ UNCHANGED <<logging, logged, sent>>
    BY <1>3 DEF Taken, loggerVars
  <2>2. /\ front \in Seq(Items) /\ lines' \in Seq(Items)
        /\ sent \in Seq(Items) /\ batch \in Seq(Items)
    BY <1>0, <2>1
  <2>3. StaysPut(sent, batch, front, lines')
    BY <2>2, FrontMoves
  <2>4. (sent \o (batch \o front)) \o lines' = (sent \o batch) \o (front \o lines')
    BY <2>3 DEF StaysPut
  <2> QED
    BY <2>1, <2>4 DEF Path
<1>4. CASE lines = <<>> /\ pop
  <2>1. /\ batch' = (IF dropped = 0 THEN batch ELSE Append(batch, Note(dropped)))
        /\ UNCHANGED <<logging, logged, lines, sent>>
    BY <1>4 DEF pop, loggerVars
  <2>2. Note(dropped) \in Items
    BY <1>0, ItemFacts
  <2>3. /\ sent \o Append(batch, Note(dropped)) = Append(sent \o batch, Note(dropped))
        /\ Append(sent \o batch, Note(dropped)) \in Seq(Items)
    BY <1>0, <1>1, <2>2, AppendLast, AppendProperties
  <2>4. /\ (sent \o batch) \o <<>> = sent \o batch
        /\ Append(sent \o batch, Note(dropped)) \o <<>> = Append(sent \o batch, Note(dropped))
    BY <1>1, <2>3, ConcatEmptySeq
  <2>5. Path' = Path \/ Path' = Append(Path, Note(dropped))
    BY <1>4, <2>1, <2>3, <2>4 DEF Path
  <2> QED
    BY <1>0, <2>1, <2>5
<1>5. CASE Send
  <2>1. sent' = sent \o batch /\ batch' = <<>> /\ UNCHANGED <<logging, logged, lines>>
    BY <1>5 DEF Send, queueVars, loggerVars
  <2>2. (sent \o batch) \o <<>> = sent \o batch
    BY <1>1, ConcatEmptySeq
  <2> QED
    BY <2>1, <2>2 DEF Path
<1>6. CASE SendFails
  <2>1. batch' = <<>> /\ UNCHANGED <<logging, logged, lines, sent>>
    BY <1>6 DEF SendFails, queueVars, loggerVars
  <2>2. sent \o <<>> = sent
    BY <1>0, ConcatEmptySeq
  <2> QED
    BY <2>1, <2>2 DEF Path
<1>7. CASE Attach \/ Detach
  BY <1>7 DEF Attach, Detach, Path, queueVars, loggerVars
<1>8. ASSUME NEW t \in Threads, NEW size \in Sizes, AskRoom(t, size)
      PROVE  /\ logging[t] = <<>> /\ Path' = Path
             /\ logged' = [logged EXCEPT ![t] = logged[t] + 1]
             /\ \A u \in Threads : u # t => logging'[u] = logging[u]
  BY <1>0, <1>8 DEF AskRoom, Path, queueVars, agentVars
<1>9. ASSUME NEW t \in Threads, CountRefused(t)
      PROVE  Path' = Path /\ logging' = [logging EXCEPT ![t] = <<>>] /\ logged' = logged
  BY <1>9 DEF CountRefused, Path, agentVars
<1> QED
  BY <1>2, <1>3, <1>4, <1>5, <1>6, <1>7, <1>8, <1>9, DrainTakes
  DEF Next, Logger, AgentDrains

\* Each thread's lines stay in order, behind the one it has in hand.
LEMMA PathStep ==
    ASSUME LogBufferInv, Next
    PROVE  OlderInv' /\ InOrder'
<1>0. /\ OlderInv /\ InOrder /\ logging \in [Threads -> Seq(Lines)] /\ logged \in [Threads -> Nat]
      /\ sent \in Seq(Items) /\ batch \in Seq(Items) /\ lines \in Seq(Items)
  BY ItemFacts DEF LogBufferInv, LogBufferTypeOK
<1>1. Path \in Seq(Items) /\ Len(Path) \in Nat /\ \A i \in 1..Len(Path) : Path[i] \in Items
  <2>1. Path \in Seq(Items)
    BY <1>0, JoinElements DEF Path
  <2> QED
    BY <2>1, ElementsIn
<1>2. \A i \in 1..Len(Path) :
          Path[i].kind = "line" => Path[i].thread \in Threads /\ Path[i].n \in Nat
  BY <1>1, ItemFacts
<1>3. CASE Path' = Path /\ UNCHANGED <<logging, logged>>
  BY <1>0, <1>3 DEF OlderInv, InOrder
<1>4. ASSUME NEW t \in Threads, Path' = Path, logging' = [logging EXCEPT ![t] = <<>>], logged' = logged
      PROVE  OlderInv' /\ InOrder'
  <2>1. \A u \in Threads : logging'[u] # <<>> => logging[u] # <<>>
    BY <1>0, <1>4
  <2> QED
    BY <1>0, <1>2, <1>4, <2>1 DEF OlderInv, InOrder
<1>5. ASSUME NEW t \in Threads, logging[t] = <<>>, Path' = Path,
             logged' = [logged EXCEPT ![t] = logged[t] + 1],
             \A u \in Threads : u # t => logging'[u] = logging[u]
      PROVE  OlderInv' /\ InOrder'
  <2>1. ASSUME NEW u \in Threads, NEW n \in Nat, n <= logged[u], logging[u] # <<>> => n < logged[u]
        PROVE  n <= logged'[u] /\ (logging'[u] # <<>> => n < logged'[u])
    <3>1. CASE u = t
      <4>1. logged'[t] = logged[t] + 1 /\ logged[t] \in Nat
        BY <1>0, <1>5
      <4> QED
        BY <2>1, <3>1, <4>1
    <3>2. CASE u # t
      <4>1. logged'[u] = logged[u] /\ logging'[u] = logging[u]
        BY <1>0, <1>5, <3>2
      <4> QED
        BY <2>1, <4>1
    <3> QED
      BY <3>1, <3>2
  <2>2. OlderInv'
    BY <1>0, <1>2, <1>5, <2>1 DEF OlderInv
  <2>3. InOrder'
    BY <1>0, <1>5 DEF InOrder
  <2> QED
    BY <2>2, <2>3
<1>6. ASSUME NEW n \in Nat, Path' = Append(Path, Note(n)), UNCHANGED <<logging, logged>>
      PROVE  OlderInv' /\ InOrder'
  <2>1. Note(n) \in Items /\ Note(n).kind = "note"
    BY ItemFacts
  <2>2. /\ Len(Path') = Len(Path) + 1 /\ \A i \in 1..Len(Path) : Path'[i] = Path[i]
        /\ Path'[Len(Path) + 1] = Note(n)
        /\ \A i \in 1..Len(Path') : i \in 1..Len(Path) \/ i = Len(Path) + 1
    BY <1>1, <1>6, <2>1, AppendedElements
  <2>3. \A i \in 1..Len(Path') : Path'[i].kind = "line" => i \in 1..Len(Path) /\ Path'[i] = Path[i]
    BY <2>1, <2>2
  <2> QED
    BY <1>0, <1>6, <2>3 DEF OlderInv, InOrder
<1>7. ASSUME NEW t \in Threads, logging[t] # <<>>, Path' = Append(Path, logging[t][1]),
             logging' = [logging EXCEPT ![t] = <<>>], logged' = logged
      PROVE  OlderInv' /\ InOrder'
  <2> DEFINE line == logging[t][1]
  <2>1. /\ line \in Items /\ line.thread = t /\ line.n = logged[t] /\ logged[t] \in Nat
    BY <1>7, LineInHand, ItemFacts
  <2>2. /\ Path' = Append(Path, line) /\ logging'[t] = <<>>
        /\ \A u \in Threads : logging'[u] # <<>> => logging[u] # <<>>
    BY <1>0, <1>7
  <2> HIDE DEF line
  <2>3. /\ Len(Path') = Len(Path) + 1 /\ \A i \in 1..Len(Path) : Path'[i] = Path[i]
        /\ Path'[Len(Path) + 1] = line
        /\ \A i \in 1..Len(Path') : i \in 1..Len(Path) \/ i = Len(Path) + 1
    BY <1>1, <2>1, <2>2, AppendedElements
  <2>4. ASSUME NEW i \in 1..Len(Path'), Path'[i].kind = "line"
        PROVE  /\ Path'[i].n <= logged'[Path'[i].thread]
               /\ logging'[Path'[i].thread] # <<>> => Path'[i].n < logged'[Path'[i].thread]
    <3>1. CASE i \in 1..Len(Path)
      BY <1>0, <1>2, <1>7, <2>2, <2>3, <2>4, <3>1 DEF OlderInv
    <3>2. CASE i = Len(Path) + 1
      BY <1>7, <2>1, <2>2, <2>3, <3>2
    <3> QED
      BY <2>3, <3>1, <3>2
  <2>5. ASSUME NEW i \in 1..Len(Path'), NEW j \in 1..Len(Path'), i < j,
               Path'[i].kind = "line", Path'[j].kind = "line", Path'[i].thread = Path'[j].thread
        PROVE  Path'[i].n < Path'[j].n
    <3>1. i \in 1..Len(Path) /\ Path'[i] = Path[i]
      BY <1>1, <2>3, <2>5
    <3>2. CASE j \in 1..Len(Path)
      BY <1>0, <2>3, <2>5, <3>1, <3>2 DEF InOrder
    <3>3. CASE j = Len(Path) + 1
      <4>1. Path[i].kind = "line" /\ Path[i].thread = t /\ Path'[j].n = logged[t]
        BY <2>1, <2>3, <2>5, <3>1, <3>3
      <4>2. Path[i].n < logged[t]
        BY <1>0, <1>7, <3>1, <4>1 DEF OlderInv
      <4> QED
        BY <3>1, <4>1, <4>2
    <3> QED
      BY <2>3, <3>2, <3>3
  <2> QED
    BY <2>4, <2>5 DEF OlderInv, InOrder
<1>8. CASE Path' = sent \o lines /\ UNCHANGED <<logging, logged>>
  <2> DEFINE at(i) == IF i <= Len(sent) THEN i ELSE i + Len(batch)
  <2>1. \A i \in 1..Len(Path') : at(i) \in 1..Len(Path) /\ Path'[i] = Path[at(i)]
    BY <1>0, <1>8, WithoutMiddle, SMTT(30) DEF Path
  <2>2. \A i, j \in 1..Len(Path') : i < j => at(i) < at(j)
    <3>1. Len(sent) \in Nat /\ Len(batch) \in Nat
      BY <1>0, ElementsIn
    <3> QED
      BY <3>1
  <2> HIDE DEF at
  <2>3. OlderInv'
    BY <1>0, <1>8, <2>1, ZenonT(40) DEF OlderInv
  <2>4. InOrder'
    BY <1>0, <2>1, <2>2 DEF InOrder
  <2> QED
    BY <2>3, <2>4
<1> QED
  BY <1>3, <1>4, <1>5, <1>6, <1>7, <1>8, PathMoves

----------------------------------------------------------------------------
(* Theorems.                                                               *)

LEMMA StartsRight ==
    ASSUME Init
    PROVE  LogBufferInv
<1>1. /\ lines = <<>> /\ bytes = 0 /\ dropped = 0 /\ batch = <<>> /\ sent = <<>> /\ unsent = 0
      /\ logging = [t \in Threads |-> <<>>] /\ refused = {} /\ logged = [t \in Threads |-> 0]
      /\ attached = "no" /\ drain = "idle" /\ losses = 0
      /\ <<>> \in Seq(Lines) /\ <<>> \in Seq(Items) /\ Len(lines) = 0
  BY DEF Init
<1>2. LogBufferTypeOK
  BY <1>1 DEF LogBufferTypeOK
<1>3. HandInv
  BY <1>1 DEF HandInv
<1>4. Path = <<>> /\ Len(Path) = 0
  BY <1>1 DEF Path
<1>5. OlderInv /\ InOrder
  BY <1>4 DEF OlderInv, InOrder
<1>6. WithinLimits
  <2>1. Heap(lines) = 0
    <3>1. DOMAIN [i \in 1..Len(lines) |-> heap_cost(lines[i])] = {}
      BY <1>1
    <3> QED
      BY <3>1, TotalNone DEF Heap
  <2> QED
    BY <1>1, <2>1, LimitsAssumption DEF WithinLimits
<1>7. Accounted
  <2>1. Told(batch) = 0 /\ Told(sent) = 0
    BY <1>1, ToldFacts
  <2>2. Busy = {}
    BY <1>1 DEF Busy
  <2>3. Total(logged) = 0
    <3>1. logged \in [Threads -> Nat] /\ \A t \in Threads : logged[t] = 0
      BY <1>1
    <3>2. Cells(logged) = {}
      <4>1. SUFFICES ASSUME NEW c \in Cells(logged)
                     PROVE  FALSE
        OBVIOUS
      <4>2. c[1] \in Threads /\ c[2] \in 1..logged[c[1]]
        BY <3>1, CellFacts
      <4> QED
        BY <3>1, <4>2
    <3> QED
      BY <3>2, FS_EmptySet DEF Total, Cells
  <2>4. Cardinality(Busy) = 0
    BY <2>2, FS_EmptySet
  <2> QED
    BY <1>1, <2>1, <2>3, <2>4 DEF Accounted
<1> QED
  BY <1>2, <1>3, <1>5, <1>6, <1>7 DEF LogBufferInv

\* Everything the backlog is relied on for holds in every state it can be in.
THEOREM LogBufferInvariant == Spec => []LogBufferInv
<1>1. Init => LogBufferInv
  BY StartsRight
<1>2. LogBufferInv /\ [Next]_vars => LogBufferInv'
  <2>1. ASSUME LogBufferInv, Next
        PROVE  LogBufferInv'
    BY <2>1, TypeStep, HandStep, LimitsStep, AccountedStep, PathStep DEF LogBufferInv
  <2>2. ASSUME LogBufferInv, UNCHANGED vars
        PROVE  LogBufferInv'
    <3>1. /\ UNCHANGED <<lines, bytes, dropped, logging, refused, logged>>
          /\ UNCHANGED <<attached, batch, drain, sent, unsent, losses>>
      BY <2>2 DEF vars, queueVars, loggerVars, agentVars
    <3>2. LogBufferTypeOK' /\ HandInv' /\ WithinLimits'
      BY <2>2, <3>1 DEF LogBufferInv, LogBufferTypeOK, HandInv, WithinLimits
    <3>3. Busy' = Busy /\ Path' = Path
      BY <3>1 DEF Busy, Path
    <3>4. Accounted'
      BY <2>2, <3>1, <3>3 DEF LogBufferInv, Accounted
    <3>5. OlderInv' /\ InOrder'
      BY <2>2, <3>1, <3>3 DEF LogBufferInv, OlderInv, InOrder
    <3> QED
      BY <3>2, <3>4, <3>5 DEF LogBufferInv
  <2> QED
    BY <2>1, <2>2
<1> QED
  BY <1>1, <1>2, PTL DEF Spec

\* The backlog is inside both limits, with exactly the heap its lines take
\* accounted to it, however threads come between has_room and push.
THEOREM LimitsAreKept == Spec => []WithinLimits
<1>1. LogBufferInv => WithinLimits
  BY DEF LogBufferInv
<1> QED
  BY <1>1, LogBufferInvariant, PTL

\* Every line logged is in one place, or told of as dropped, once.
THEOREM EveryLineIsAccountedFor == Spec => []Accounted
<1>1. LogBufferInv => Accounted
  BY DEF LogBufferInv
<1> QED
  BY <1>1, LogBufferInvariant, PTL

\* A thread's lines go out in the order it logged them, and none twice.
THEOREM LinesKeepTheirOrder == Spec => []InOrder
<1>1. LogBufferInv => InOrder
  BY DEF LogBufferInv
<1> QED
  BY <1>1, LogBufferInvariant, PTL

\* has_room turns a line away before its size is known only when push would have.
THEOREM RefusalsAreRight == Spec => NeverRefusesWhatFits
<1> DEFINE Right == \A t \in Threads : t \in refused' \ refused => ~Fits(logging'[t][1])
<1>1. ASSUME LogBufferInv, Next, NEW t \in Threads, t \in refused', t \notin refused
      PROVE  ~Fits(logging'[t][1])
  <2>1. PICK size \in Sizes : AskRoom(t, size)
    BY <1>1 DEF Next, Logger, CountRefused, push, Attach, Detach, AgentDrains, take_stamped,
        pop, Send, SendFails, queueVars, loggerVars, agentVars, AskRoom
  <2>2. ~has_room /\ logging' = [logging EXCEPT ![t] = <<Line(t, logged[t] + 1, size)>>]
    BY <1>1, <2>1 DEF AskRoom
  <2>3. logging \in [Threads -> Seq(Lines)] /\ Len(lines) \in Nat /\ bytes \in Nat /\ size \in Nat
    BY <1>1, SizesAssumption DEF LogBufferInv, LogBufferTypeOK
  <2>4. logging'[t][1] = Line(t, logged[t] + 1, size)
    BY <2>2, <2>3
  <2>5. heap_cost(logging'[t][1]) = LineSize + size
    BY <2>4 DEF heap_cost, Line
  <2> QED
    BY <2>2, <2>3, <2>5, LimitsAssumption, SizesAssumption DEF Fits, has_room
<1>2. LogBufferInv /\ [Next]_vars => [Right]_vars
  BY <1>1
<1> QED
  BY <1>2, LogBufferInvariant, PTL DEF Spec, NeverRefusesWhatFits

----------------------------------------------------------------------------
(* The buffer and its drain implement LossyQueue.                          *)

\* What is sent is sent in a session (take_stamped, Detach).
SendingInv == drain # "idle" => attached # "no"

LEMMA SendingStep == SendingInv /\ [Next]_vars => SendingInv'
<1> SUFFICES ASSUME SendingInv, [Next]_vars
             PROVE  SendingInv'
  OBVIOUS
<1>1. CASE UNCHANGED <<drain, attached>>
  BY <1>1 DEF SendingInv
<1>2. CASE AgentDrains \/ Detach \/ SendFails
  BY <1>2 DEF AgentDrains, take_stamped, pop, Send, Detach, SendFails, SendingInv
<1>3. CASE Attach
  BY <1>3 DEF Attach, SendingInv
<1> QED
  BY <1>1, <1>2, <1>3 DEF Next, Logger, AskRoom, CountRefused, push, vars, agentVars

\* What a batch is to the queue that it is the front of.
LEMMA FrontApart ==
    ASSUME NEW S, NEW s \in Seq(S), NEW t \in Seq(S)
    PROVE  /\ Len(s) \in 0..Len(s \o t) /\ (s # <<>> => Len(s) \in 1..Len(s \o t))
           /\ SubSeq(s \o t, 1, Len(s)) = s
           /\ SubSeq(s \o t, Len(s) + 1, Len(s \o t)) = t
           /\ SubSeq(s \o t, 0 + 1, Len(s \o t)) = s \o t
<1>1. s \o t \in Seq(S) /\ Len(s \o t) = Len(s) + Len(t) /\ Len(s) \in Nat /\ Len(t) \in Nat
  BY ConcatProperties
<1>2. SubSeq(s \o t, 1, Len(s)) = s
  <2>1. SubSeq(s \o t, 1, Len(s)) = SubSeq(s, 1, Len(s))
    BY <1>1, SubSeqOfConcat1
  <2> QED
    BY <2>1, SubSeqFull
<1>3. SubSeq(s \o t, Len(s) + 1, Len(s \o t)) = t
  <2>1. SubSeq(s \o t, Len(s) + 1, Len(s \o t)) = SubSeq(t, (Len(s) + 1) - Len(s), Len(s \o t) - Len(s))
    BY <1>1, SubSeqOfConcat2
  <2>2. (Len(s) + 1) - Len(s) = 1 /\ Len(s \o t) - Len(s) = Len(t)
    BY <1>1
  <2> QED
    BY <2>1, <2>2, SubSeqFull
<1>4. SubSeq(s \o t, 0 + 1, Len(s \o t)) = s \o t
  <2>1. 0 + 1 = 1
    OBVIOUS
  <2> QED
    BY <1>1, <2>1, SubSeqFull
<1>5. s # <<>> => Len(s) >= 1
  BY <1>1
<1> QED
  BY <1>1, <1>2, <1>3, <1>4, <1>5

\* A thread's steps are those of a call.
LEMMA CallsAre ==
    ASSUME LogBufferInv, NEW t \in Threads, NEW size \in Sizes, AskRoom(t, size)
    PROVE  Q!Calls(t)
<1> DEFINE line == Line(t, logged[t] + 1, size)
<1>1. logging[t] = <<>> /\ logging' = [logging EXCEPT ![t] = <<line>>]
      /\ UNCHANGED <<queueVars, agentVars>> /\ logged[t] < MaxLogged
  BY DEF AskRoom
<1>2. logged[t] + 1 \in 1..MaxLogged
  BY <1>1, LimitsAssumption DEF LogBufferInv, LogBufferTypeOK
<1>3. line \in [kind : {"line"}, thread : Threads, n : 1..MaxLogged, size : Sizes] /\ line.thread = t
  BY <1>2 DEF Line
<1> HIDE DEF line
<1> QED
  BY <1>1, <1>3 DEF Q!Calls, queueVars, agentVars

LEMMA KeptOrLost ==
    ASSUME LogBufferInv, NEW t \in Threads, Logger(t)
    PROVE  Q!Keeps(t) \/ Q!Loses(t)
<1>0. lines \in Seq(Items) /\ batch \in Seq(Items)
  <2>1. lines \in Seq(Lines) /\ batch \in Seq(Items)
    BY DEF LogBufferInv, LogBufferTypeOK
  <2> QED
    BY <2>1, ElementsIn DEF Items
<1>1. CASE CountRefused(t)
  BY <1>1 DEF CountRefused, Q!Loses, LogBufferInv, HandInv, agentVars
<1>2. CASE push(t)
  <2> DEFINE line == logging[t][1]
  <2>1. logging[t] # <<>> /\ line \in Items
    BY <1>2, LineInHand DEF push, Items
  <2>2. CASE Fits(line)
    <3>1. batch \o Append(lines, line) = Append(batch \o lines, line)
      BY <1>0, <2>1, AppendLast
    <3>2. /\ lines' = Append(lines, line) /\ logging' = [logging EXCEPT ![t] = <<>>]
          /\ UNCHANGED <<batch, dropped, attached, sent>>
      BY <1>2, <2>2 DEF push, agentVars
    <3> HIDE DEF line
    <3>3. batch' \o lines' = Append(batch \o lines, line)
      BY <3>1, <3>2
    <3> QED
      BY <2>1, <3>2, <3>3 DEF Q!Keeps, line
  <2>3. CASE ~Fits(line)
    BY <1>2, <2>1, <2>3 DEF push, agentVars, Q!Loses
  <2> QED
    BY <2>2, <2>3
<1> QED
  BY <1>1, <1>2 DEF Logger

\* Taking lines moves nothing in the queue; what is done with a batch does.
LEMMA DrainAs ==
    ASSUME LogBufferInv, SendingInv, AgentDrains \/ SendFails \/ Attach \/ Detach
    PROVE  Q!Tells \/ Q!Delivers \/ Q!Opens \/ Q!Closes \/ UNCHANGED Q!vars
<1>0. lines \in Seq(Items) /\ batch \in Seq(Items) /\ dropped \in Nat
      /\ lines \in Seq(Lines) /\ (drain = "idle" => batch = <<>>)
  <2>1. lines \in Seq(Lines) /\ batch \in Seq(Items) /\ dropped \in Nat
        /\ (drain = "idle" => batch = <<>>)
    BY DEF LogBufferInv, LogBufferTypeOK, HandInv
  <2> QED
    BY <2>1, ElementsIn DEF Items
<1>a. /\ Len(batch) \in 0..Len(batch \o lines)
      /\ batch # <<>> => Len(batch) \in 1..Len(batch \o lines)
      /\ SubSeq(batch \o lines, 1, Len(batch)) = batch
      /\ SubSeq(batch \o lines, Len(batch) + 1, Len(batch \o lines)) = lines
      /\ SubSeq(batch \o lines, 0 + 1, Len(batch \o lines)) = batch \o lines
  <2>1. batch \in Seq(Items) /\ lines \in Seq(Items)
    BY <1>0
  <2>2. \A s, t \in Seq(Items) :
           /\ Len(s) \in 0..Len(s \o t) /\ (s # <<>> => Len(s) \in 1..Len(s \o t))
           /\ SubSeq(s \o t, 1, Len(s)) = s
           /\ SubSeq(s \o t, Len(s) + 1, Len(s \o t)) = t
           /\ SubSeq(s \o t, 0 + 1, Len(s \o t)) = s \o t
    BY FrontApart
  <2> QED
    BY <2>1, <2>2, Zenon
<1>1. CASE take_stamped \/ (pop /\ lines # <<>>)
  <2>1. PICK front \in Seq(Lines) : Taken(front)
    BY <1>1, DrainTakes
  <2>2. /\ batch' = batch \o front /\ lines = front \o lines' /\ lines' \in Seq(Lines)
        /\ UNCHANGED <<dropped, logging, attached, sent>>
    BY <2>1 DEF Taken, loggerVars
  <2>3. front \in Seq(Items) /\ lines' \in Seq(Items)
    BY <2>1, <2>2, ElementsIn DEF Items
  <2>4. (batch \o front) \o lines' = batch \o (front \o lines')
    BY <1>0, <2>3, ConcatAssociative, SMTT(40)
  <2>5. batch' \o lines' = batch \o lines
    BY <2>2, <2>4
  <2> QED
    BY <2>2, <2>5 DEF Q!vars
<1>2. CASE pop /\ lines = <<>>
  <2>1. /\ batch' = IF dropped = 0 THEN batch ELSE Append(batch, Note(dropped))
        /\ dropped' = 0 /\ lines' = <<>> /\ lines = <<>>
        /\ UNCHANGED <<logging, attached, sent>> /\ attached # "no"
    BY <1>2 DEF pop, loggerVars, SendingInv
  <2>2. CASE dropped = 0
    BY <2>1, <2>2 DEF Q!vars
  <2>3. CASE dropped # 0
    <3>1. Note(dropped) \in Items /\ dropped > 0
      BY <1>0, <2>3 DEF Note, Items
    <3>2. /\ batch \o <<>> = batch
          /\ Append(batch, Note(dropped)) \o <<>> = Append(batch, Note(dropped))
      <4>1. Append(batch, Note(dropped)) \in Seq(Items)
        BY <1>0, <3>1
      <4> QED
        BY <1>0, <4>1, ConcatEmptySeq
    <3>3. batch' \o lines' = Append(batch \o lines, Note(dropped))
      BY <2>1, <2>3, <3>2
    <3> QED
      BY <2>1, <3>1, <3>3 DEF Q!Tells, Note
  <2> QED
    BY <2>2, <2>3
<1>3. CASE Send \/ SendFails
  <2>1. /\ attached # "no" /\ batch' = <<>> /\ UNCHANGED <<lines, dropped, logging>>
    BY <1>3 DEF Send, SendFails, queueVars, loggerVars, SendingInv
  <2>2. batch' \o lines' = lines
    BY <1>0, <2>1, ConcatEmptySeq
  <2>3. CASE Send
    <3>1. sent' = sent \o batch /\ attached' = attached
      BY <2>3 DEF Send
    <3>2. CASE batch = <<>>
      <4>1. sent \o <<>> = sent
        <5>1. sent \in Seq(Items)
          BY DEF LogBufferInv, LogBufferTypeOK
        <5> QED
          BY <5>1, ConcatEmptySeq
      <4> QED
        BY <2>1, <3>1, <3>2, <4>1 DEF Q!vars
    <3>3. CASE batch # <<>>
      <4>1. /\ Len(batch) \in 1..Len(batch \o lines)
            /\ sent' = sent \o SubSeq(batch \o lines, 1, Len(batch))
            /\ batch' \o lines' = SubSeq(batch \o lines, Len(batch) + 1, Len(batch \o lines))
        BY <1>a, <2>2, <3>1, <3>3, Zenon
      <4> QED
        BY <2>1, <3>1, <4>1 DEF Q!Delivers
    <3> QED
      BY <3>2, <3>3
  <2>4. CASE SendFails
    <3>1. sent' = sent /\ attached' = "no"
      BY <2>4 DEF SendFails
    <3>2. /\ Len(batch) \in 0..Len(batch \o lines)
          /\ batch' \o lines' = SubSeq(batch \o lines, Len(batch) + 1, Len(batch \o lines))
      BY <1>a, <2>2, Zenon
    <3> QED
      BY <2>1, <3>1, <3>2 DEF Q!Closes
  <2> QED
    BY <1>3, <2>3, <2>4
<1>4. CASE Attach
  BY <1>4 DEF Attach, Q!Opens, queueVars, loggerVars
<1>5. CASE Detach
  <2>1. 0 \in 0..Len(batch \o lines)
    <3>1. Len(batch \o lines) \in Nat
      BY <1>0, ConcatProperties
    <3> QED
      BY <3>1
  <2>2. /\ attached # "no" /\ attached' = "no"
        /\ UNCHANGED <<batch, lines, dropped, logging, sent>>
    BY <1>5 DEF Detach, queueVars, loggerVars
  <2>3. batch' \o lines' = SubSeq(batch \o lines, 0 + 1, Len(batch \o lines))
    BY <1>a, <2>2, Zenon
  <2> QED
    BY <2>1, <2>2, <2>3 DEF Q!Closes
<1> QED
  BY <1>1, <1>2, <1>3, <1>4, <1>5 DEF AgentDrains

\* The log is one queue, whoever logs and whatever comes between asking for
\* room and pushing, and between the two holds of a drain.
THEOREM LogIsALossyQueue == Spec => ImplementsLossyQueue
<1>1. Init => Q!Init
  BY ConcatEmptySeq DEF Init, Q!Init
<1>2. LogBufferInv /\ SendingInv /\ [Next]_vars => [Q!Next]_(Q!vars)
  <2> SUFFICES ASSUME LogBufferInv, SendingInv, [Next]_vars
               PROVE  Q!Next \/ UNCHANGED Q!vars
    OBVIOUS
  <2>1. ASSUME NEW t \in Threads, NEW size \in Sizes, AskRoom(t, size)
        PROVE  Q!Next
    BY <2>1, CallsAre DEF Q!Next
  <2>2. ASSUME NEW t \in Threads, Logger(t)
        PROVE  Q!Next
    BY <2>2, KeptOrLost DEF Q!Next
  <2>3. CASE AgentDrains \/ SendFails \/ Attach \/ Detach
    BY <2>3, DrainAs DEF Q!Next
  <2>4. CASE UNCHANGED vars
    BY <2>4 DEF vars, queueVars, loggerVars, agentVars, Q!vars
  <2> QED
    BY <2>1, <2>2, <2>3, <2>4 DEF Next
<1>3. Init => SendingInv
  BY DEF Init, SendingInv
<1> QED
  BY <1>1, <1>2, <1>3, LogBufferInvariant, SendingStep, PTL
  DEF Spec, ImplementsLossyQueue, Q!Spec

============================================================================
