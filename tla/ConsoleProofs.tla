--------------------------- MODULE ConsoleProofs ---------------------------
(***************************************************************************)
(* Theorems about Console, for any characters, vocabulary and limits: what *)
(* is missing from a command's output is marked, the terminal shows a      *)
(* prompt and the line that Enter would submit, and the lines that run are *)
(* those of the keys as one text, however they were cut into chunks.       *)
(*                                                                         *)
(* All three are about what the code accumulates character by character,   *)
(* so this begins with induction, over sets of numbers.                    *)
(***************************************************************************)
EXTENDS Console, FiniteSetTheorems, SequenceTheorems, TLAPS

----------------------------------------------------------------------------
(* Induction, and what runs along a sequence.                              *)

\* A set that has 0, and with each number the next, has all of them.
LEMMA Counting ==
    ASSUME NEW S, 0 \in S, \A n \in Nat : n \in S => n + 1 \in S
    PROVE  Nat \subseteq S
<1> DEFINE R == OpToRel(<, Nat)
           T == Nat \ S
<1>1. SUFFICES ASSUME T # {}
               PROVE  FALSE
  OBVIOUS
<1>2. IsWellFoundedOn(R, Nat)
  BY NatLessThanWellFounded
<1>3. \A x, y \in Nat : <<y, x>> \in R <=> y < x
  BY DEF OpToRel
<1> HIDE DEF R
<1>4. PICK x \in T : \A y \in T : ~(<<y, x>> \in R)
  <2>1. T \subseteq Nat
    OBVIOUS
  <2> QED
    BY <1>1, <1>2, <2>1, WFMin
<1>5. x \in Nat /\ x # 0 /\ x \notin S
  BY <1>4
<1>6. x - 1 \in Nat /\ x - 1 < x /\ (x - 1) + 1 = x
  BY <1>5
<1>7. x - 1 \in S
  BY <1>3, <1>4, <1>5, <1>6
<1> QED
  BY <1>5, <1>6, <1>7

\* The same up to a length.
LEMMA CountingTo ==
    ASSUME NEW L \in Nat, NEW S, 0 \in S, \A n \in 1..L : n - 1 \in S => n \in S
    PROVE  0..L \subseteq S
<1> DEFINE U == {n \in Nat : n > L \/ n \in S}
<1>1. 0 \in U
  OBVIOUS
<1>2. ASSUME NEW n \in Nat, n \in U
      PROVE  n + 1 \in U
  <2>1. CASE n + 1 > L
    BY <2>1
  <2>2. CASE ~(n + 1 > L)
    <3>1. n + 1 \in 1..L /\ (n + 1) - 1 = n /\ n \in S
      BY <1>2, <2>2
    <3> QED
      BY <3>1
  <2> QED
    BY <2>1, <2>2
<1> HIDE DEF U
<1>3. Nat \subseteq U
  BY <1>1, <1>2, Counting
<1> QED
  BY <1>3 DEF U

\* A run of a step function along a sequence, and two that start and go on alike.
Runs(run, S, step, base, seq) ==
    /\ run \in [0..Len(seq) -> S] /\ run[0] = base
    /\ \A n \in 1..Len(seq) : run[n] = step[<<run[n - 1], seq[n]>>]

GoAlike(L, f, g) ==
    f[0] = g[0] /\ \A n \in 1..L : f[n - 1] = g[n - 1] => f[n] = g[n]

Alike(L, f, g) == \A n \in 0..L : f[n] = g[n]

\* A step function can be run along any sequence.
LEMMA RunExists ==
    ASSUME NEW S, NEW T, NEW step \in [S \X T -> S], NEW base \in S, NEW seq \in Seq(T)
    PROVE  \E run : Runs(run, S, step, base, seq)
<1> DEFINE Upto(k) == {run \in [0..k -> S] :
              run[0] = base /\ \A n \in 1..k : run[n] = step[<<run[n - 1], seq[n]>>]}
           Good == {k \in 0..Len(seq) : Upto(k) # {}}
<1>1. Len(seq) \in Nat /\ \A n \in 1..Len(seq) : seq[n] \in T
  OBVIOUS
<1>2. 0 \in Good
  <2>1. [n \in 0..0 |-> base] \in Upto(0)
    OBVIOUS
  <2> QED
    BY <1>1, <2>1
<1>3. ASSUME NEW m \in 1..Len(seq), m - 1 \in Good
      PROVE  m \in Good
  <2> DEFINE k == m - 1
  <2>1. k \in Nat /\ k + 1 = m /\ m \in 0..Len(seq)
    BY <1>1
  <2>2. PICK run \in Upto(k) : TRUE
    BY <1>3
  <2> HIDE DEF k
  <2> DEFINE next == [n \in 0..(k + 1) |-> IF n = k + 1 THEN step[<<run[k], seq[k + 1]>>] ELSE run[n]]
  <2>3. /\ run \in [0..k -> S] /\ run[0] = base
        /\ \A n \in 1..k : run[n] = step[<<run[n - 1], seq[n]>>]
    BY <2>2
  <2>4. run[k] \in S /\ seq[k + 1] \in T
    BY <1>1, <2>1, <2>3
  <2>5. step[<<run[k], seq[k + 1]>>] \in S
    BY <2>4
  <2>6. /\ next \in [0..(k + 1) -> S] /\ next[k + 1] = step[<<run[k], seq[k + 1]>>]
        /\ \A n \in 0..k : next[n] = run[n]
    BY <2>1, <2>3, <2>5
  <2> HIDE DEF next
  <2>7. \A n \in 1..(k + 1) : next[n] = step[<<next[n - 1], seq[n]>>]
    <3>1. ASSUME NEW n \in 1..(k + 1)
          PROVE  next[n] = step[<<next[n - 1], seq[n]>>]
      <4>1. CASE n = k + 1
        <5>1. next[n - 1] = run[k] /\ n - 1 = k
          BY <2>1, <2>6, <4>1
        <5> QED
          BY <2>6, <4>1, <5>1
      <4>2. CASE n # k + 1
        <5>1. n \in 1..k /\ n \in 0..k /\ n - 1 \in 0..k
          BY <2>1, <4>2
        <5>2. next[n] = run[n] /\ next[n - 1] = run[n - 1]
          BY <2>6, <5>1
        <5> QED
          BY <2>3, <5>1, <5>2
      <4> QED
        BY <4>1, <4>2
    <3> QED
      BY <3>1
  <2>8. next[0] = base
    BY <2>1, <2>3, <2>6
  <2>9. next \in Upto(k + 1)
    BY <2>6, <2>7, <2>8
  <2> QED
    BY <2>1, <2>9
<1> HIDE DEF Good
<1>4. 0..Len(seq) \subseteq Good
  BY <1>1, <1>2, <1>3, CountingTo
<1>5. Len(seq) \in Good
  BY <1>1, <1>4
<1> QED
  BY <1>5 DEF Good, Runs

\* Two runs that start alike and do alike are alike.
LEMMA SameRun ==
    ASSUME NEW L \in Nat, NEW f, NEW g, GoAlike(L, f, g)
    PROVE  Alike(L, f, g)
<1> DEFINE S == {n \in 0..L : f[n] = g[n]}
<1>1. 0 \in S
  BY DEF GoAlike
<1>2. \A n \in 1..L : n - 1 \in S => n \in S
  BY DEF GoAlike
<1> HIDE DEF S
<1>3. 0..L \subseteq S
  BY <1>1, <1>2, CountingTo
<1> QED
  BY <1>3 DEF S, Alike

----------------------------------------------------------------------------
(* Output.                                                                 *)

LEMMA BytesRun ==
    ASSUME NEW widths \in Seq(Nat)
    PROVE  \E sum \in [0..Len(widths) -> Nat] :
              /\ sum[0] = 0 /\ \A n \in 1..Len(widths) : sum[n] = sum[n - 1] + widths[n]
              /\ Bytes(widths) = sum[Len(widths)]
<1> DEFINE step == [p \in Nat \X Nat |-> p[1] + p[2]]
           Run(g) == g = [n \in 0..Len(widths) |-> IF n = 0 THEN 0 ELSE g[n - 1] + widths[n]]
           sum == CHOOSE g : Run(g)
<1>1. step \in [Nat \X Nat -> Nat] /\ \A s, t \in Nat : step[<<s, t>>] = s + t
  OBVIOUS
<1> HIDE DEF step
<1>2. PICK f : Runs(f, Nat, step, 0, widths)
  BY <1>1, RunExists
<1>3. Len(widths) \in Nat /\ \A n \in 1..Len(widths) : widths[n] \in Nat /\ n - 1 \in 0..Len(widths)
  OBVIOUS
<1>4. /\ f \in [0..Len(widths) -> Nat] /\ f[0] = 0
      /\ \A n \in 1..Len(widths) : f[n] = f[n - 1] + widths[n]
  BY <1>1, <1>2, <1>3 DEF Runs
<1>5. Run(f)
  BY <1>3, <1>4
<1>6. Run(sum)
  BY <1>5, Zenon
<1>7. Bytes(widths) = sum[Len(widths)]
  BY DEF Bytes
<1> HIDE DEF sum
<1>8. /\ DOMAIN sum = 0..Len(widths) /\ sum[0] = 0
      /\ \A n \in 1..Len(widths) : sum[n] = sum[n - 1] + widths[n]
  BY <1>3, <1>6
<1>9. Alike(Len(widths), sum, f)
  <2>1. GoAlike(Len(widths), sum, f)
    BY <1>4, <1>8 DEF GoAlike
  <2> QED
    BY <1>3, <2>1, SameRun
<1>10. Bytes(widths) = f[Len(widths)]
  BY <1>3, <1>7, <1>9 DEF Alike
<1> QED
  BY <1>4, <1>10

\* A text is as long as its two parts.
LEMMA BytesConcat ==
    ASSUME NEW a \in Seq(Nat), NEW b \in Seq(Nat)
    PROVE  Bytes(a \o b) = Bytes(a) + Bytes(b) /\ Bytes(a) \in Nat /\ Bytes(b) \in Nat
<1>1. PICK f \in [0..Len(a) -> Nat] :
              /\ f[0] = 0 /\ \A n \in 1..Len(a) : f[n] = f[n - 1] + a[n]
              /\ Bytes(a) = f[Len(a)]
  BY BytesRun
<1>2. PICK g \in [0..Len(b) -> Nat] :
              /\ g[0] = 0 /\ \A n \in 1..Len(b) : g[n] = g[n - 1] + b[n]
              /\ Bytes(b) = g[Len(b)]
  BY BytesRun
<1>3. /\ a \o b \in Seq(Nat) /\ Len(a \o b) = Len(a) + Len(b) /\ Len(a) \in Nat /\ Len(b) \in Nat
      /\ \A n \in 1..Len(a) : (a \o b)[n] = a[n] /\ a[n] \in Nat
      /\ \A n \in 1..Len(b) : (a \o b)[Len(a) + n] = b[n] /\ b[n] \in Nat
  BY ConcatProperties
<1>4. PICK h \in [0..(Len(a) + Len(b)) -> Nat] :
              /\ h[0] = 0 /\ \A n \in 1..(Len(a) + Len(b)) : h[n] = h[n - 1] + (a \o b)[n]
              /\ Bytes(a \o b) = h[Len(a) + Len(b)]
  BY <1>3, BytesRun
<1>5. Alike(Len(a), h, f)
  <2>1. GoAlike(Len(a), h, f)
    BY <1>1, <1>3, <1>4 DEF GoAlike
  <2> QED
    BY <1>3, <2>1, SameRun
<1> DEFINE S == {n \in 0..Len(b) : h[Len(a) + n] = f[Len(a)] + g[n]}
<1>10. f[Len(a)] \in Nat /\ g[Len(b)] \in Nat
  <2>1. Len(a) \in 0..Len(a) /\ Len(b) \in 0..Len(b)
    BY <1>3
  <2> QED
    BY <2>1
<1>6. 0 \in S
  <2>1. Len(a) + 0 = Len(a) /\ Len(a) \in 0..Len(a) /\ f[Len(a)] \in Nat /\ 0 \in 0..Len(b)
    BY <1>1, <1>3
  <2>2. h[Len(a) + 0] = f[Len(a)] + g[0]
    BY <1>2, <1>5, <2>1 DEF Alike
  <2> QED
    BY <2>1, <2>2
<1>7. \A n \in 1..Len(b) : n - 1 \in S => n \in S
  <2>1. ASSUME NEW n \in 1..Len(b), n - 1 \in S
        PROVE  n \in S
    <3>1. /\ Len(a) + n \in 1..(Len(a) + Len(b)) /\ (Len(a) + n) - 1 = Len(a) + (n - 1)
          /\ n \in 0..Len(b) /\ n - 1 \in 0..Len(b)
      BY <1>3
    <3>5. f[Len(a)] \in Nat /\ b[n] \in Nat
      BY <1>3, <1>10
    <3>2. h[Len(a) + n] = h[Len(a) + (n - 1)] + b[n] /\ g[n] = g[n - 1] + b[n] /\ g[n - 1] \in Nat
      BY <1>2, <1>3, <1>4, <3>1
    <3>3. h[Len(a) + (n - 1)] = f[Len(a)] + g[n - 1]
      BY <2>1
    <3>4. h[Len(a) + n] = f[Len(a)] + g[n]
      BY <3>2, <3>3, <3>5
    <3> QED
      BY <3>1, <3>4
  <2> QED
    BY <2>1
<1> HIDE DEF S
<1>8. 0..Len(b) \subseteq S
  BY <1>3, <1>6, <1>7, CountingTo
<1>9. h[Len(a) + Len(b)] = f[Len(a)] + g[Len(b)]
  <2>1. Len(b) \in 0..Len(b)
    BY <1>3
  <2>2. Len(b) \in S
    BY <1>8, <2>1
  <2> QED
    BY <2>2 DEF S
<1>11. Bytes(a \o b) = h[Len(a) + Len(b)]
  BY <1>4
<1>12. Bytes(a) = f[Len(a)] /\ Bytes(b) = g[Len(b)]
  BY <1>1, <1>2
<1> QED
  BY <1>9, <1>10, <1>11, <1>12

LEMMA BytesOfOne ==
    ASSUME NEW s, s = <<>>
    PROVE  s \in Seq(Nat) /\ Bytes(s) = 0
<1>1. s \in Seq(Nat) /\ Len(s) = 0
  OBVIOUS
<1>2. PICK f : f[0] = 0 /\ Bytes(s) = f[Len(s)]
  BY <1>1, BytesRun
<1> QED
  BY <1>1, <1>2

\* Among numbers up to a limit, of which 0 is one, there is a greatest.
LEMMA Greatest ==
    ASSUME NEW L \in Nat, NEW F, F \subseteq 0..L, 0 \in F
    PROVE  \E n \in F : \A k \in F : k <= n
<1> DEFINE S == {m \in 0..L : \E n \in F : n <= m /\ \A k \in F : k <= m => k <= n}
<1>1. 0 \in S
  <2>1. 0 <= 0 /\ \A k \in F : k <= 0 => k <= 0
    OBVIOUS
  <2> QED
    BY <2>1
<1>2. \A m \in 1..L : m - 1 \in S => m \in S
  <2>1. ASSUME NEW m \in 1..L, m - 1 \in S
        PROVE  m \in S
    <3>1. CASE m \in F
      BY <3>1
    <3>2. CASE m \notin F
      <4>1. PICK n \in F : n <= m - 1 /\ \A k \in F : k <= m - 1 => k <= n
        BY <2>1
      <4>2. \A k \in F : k <= m => k <= m - 1
        BY <3>2
      <4> QED
        BY <4>1, <4>2
    <3> QED
      BY <3>1, <3>2
  <2> QED
    BY <2>1
<1> HIDE DEF S
<1>3. 0..L \subseteq S
  BY <1>1, <1>2, CountingTo
<1>4. L \in S
  BY <1>3
<1> QED
  BY <1>4 DEF S

\* What a cut leaves fits, and would not with the next character.
LEMMA CutFacts ==
    ASSUME NEW s \in Seq(1..4), NEW room \in Nat
    PROVE  /\ Cut(s, room) \in Seq(1..4) /\ Bytes(Cut(s, room)) \in Nat
           /\ Bytes(Cut(s, room)) <= room
           /\ Bytes(s) <= room => Cut(s, room) = s
           /\ Bytes(s) > room => room - Bytes(Cut(s, room)) < 4
<1>1. s \in Seq(Nat) /\ Len(s) \in Nat /\ \A n \in 1..Len(s) : s[n] \in 1..4
  <2>1. Seq(1..4) \subseteq Seq(Nat)
    OBVIOUS
  <2> QED
    BY <2>1
<1>2. PICK f : /\ f \in [0..Len(s) -> Nat]
               /\ f[0] = 0 /\ \A n \in 1..Len(s) : f[n] = f[n - 1] + s[n]
               /\ Bytes(s) = f[Len(s)]
  BY <1>1, BytesRun
<1>3. ASSUME NEW n \in 0..Len(s)
      PROVE  SubSeq(s, 1, n) \in Seq(1..4) /\ Bytes(SubSeq(s, 1, n)) = f[n]
  <2> DEFINE p == SubSeq(s, 1, n)
  <2>1. /\ p \in Seq(1..4) /\ p \in Seq(Nat) /\ Len(p) = n /\ n \in Nat
        /\ \A m \in 1..n : p[m] = s[m] /\ m \in 1..Len(s)
    <3>1. CASE n = 0
      BY <1>1, <3>1
    <3>2. CASE n # 0
      BY <1>1, <3>2
    <3> QED
      BY <3>1, <3>2
  <2> HIDE DEF p
  <2>2. PICK g : /\ g[0] = 0 /\ \A m \in 1..Len(p) : g[m] = g[m - 1] + p[m]
                 /\ Bytes(p) = g[Len(p)]
    BY <2>1, BytesRun
  <2>3. GoAlike(n, g, f)
    BY <1>2, <2>1, <2>2 DEF GoAlike
  <2>4. Alike(n, g, f)
    BY <2>1, <2>3, SameRun
  <2> QED
    BY <2>1, <2>2, <2>4 DEF Alike, p
<1> DEFINE fits == {n \in 0..Len(s) : Bytes(SubSeq(s, 1, n)) <= room}
           best == CHOOSE n \in fits : \A k \in fits : k <= n
<1>4. \A n \in 0..Len(s) : f[n] \in Nat /\ (n \in fits <=> f[n] <= room)
  BY <1>2, <1>3
<1>5. 0 \in fits
  BY <1>1, <1>2, <1>4
<1>6. fits \subseteq 0..Len(s)
  OBVIOUS
<1>7. Cut(s, room) = SubSeq(s, 1, best)
  BY DEF Cut
<1> HIDE DEF fits
<1>8. best \in fits /\ \A k \in fits : k <= best
  <2>1. \E n \in fits : \A k \in fits : k <= n
    BY <1>1, <1>5, <1>6, Greatest
  <2> QED
    BY <2>1
<1> HIDE DEF best
<1>9. best \in 0..Len(s) /\ Cut(s, room) \in Seq(1..4) /\ Bytes(Cut(s, room)) = f[best]
  BY <1>3, <1>6, <1>7, <1>8
<1>10. f[best] \in Nat /\ f[best] <= room
  BY <1>4, <1>8, <1>9
<1>11. ASSUME Bytes(s) <= room
       PROVE  Cut(s, room) = s
  <2>1. Len(s) \in fits
    BY <1>1, <1>2, <1>4, <1>11
  <2>2. best = Len(s)
    BY <1>1, <1>8, <1>9, <2>1
  <2>3. SubSeq(s, 1, Len(s)) = s
    BY SubSeqFull
  <2> QED
    BY <1>7, <2>2, <2>3
<1>12. ASSUME Bytes(s) > room
       PROVE  room - f[best] < 4
  <2>1. best # Len(s)
    BY <1>2, <1>10, <1>12
  <2>2. best + 1 \in 1..Len(s) /\ best + 1 \in 0..Len(s) /\ (best + 1) - 1 = best /\ ~(best + 1 <= best)
    BY <1>1, <1>9, <2>1
  <2>3. f[best + 1] \in Nat /\ ~(f[best + 1] <= room)
    BY <1>4, <1>8, <2>2
  <2>4. f[best + 1] = f[best] + s[best + 1] /\ s[best + 1] \in 1..4
    BY <1>1, <1>2, <2>2
  <2> QED
    BY <1>10, <2>3, <2>4
<1> QED
  BY <1>9, <1>10, <1>11, <1>12

Outputs == [text : Seq(1..4), truncated : BOOLEAN]

\* OutputMarked of any output and what was written to it.
Marked(o, written) ==
    /\ Bytes(o.text) <= MAX_OUTPUT
    /\ o.text # written => o.truncated
    /\ o.truncated => MAX_OUTPUT - Bytes(o.text) < 4

LEMMA WriteStr ==
    ASSUME NEW o \in Outputs, NEW written \in Seq(1..4), NEW s \in Seq(1..4), Marked(o, written)
    PROVE  write_str(o, s) \in Outputs /\ Marked(write_str(o, s), written \o s)
<1> DEFINE room == MAX_OUTPUT - Bytes(o.text)
           cut == Cut(s, room)
           p == write_str(o, s)
<1>1. /\ o.text \in Seq(1..4) /\ o.truncated \in BOOLEAN /\ MAX_OUTPUT \in Nat
      /\ o = [text |-> o.text, truncated |-> o.truncated]
  BY CharactersAssumption DEF Outputs
<1>2. Bytes(o.text) \in Nat /\ Bytes(s) \in Nat
  <2>1. Seq(1..4) \subseteq Seq(Nat)
    OBVIOUS
  <2> QED
    BY <1>1, <2>1, BytesConcat
<1>3. room \in Nat
  BY <1>1, <1>2 DEF Marked
<1>4. CASE room = 0
  <2>1. p = [o EXCEPT !.truncated = TRUE]
    BY <1>4 DEF write_str
  <2>2. p = [text |-> o.text, truncated |-> TRUE]
    BY <1>1, <2>1
  <2>3. p.text = o.text /\ p.truncated = TRUE /\ p \in Outputs
    BY <1>1, <2>2 DEF Outputs
  <2> HIDE DEF p
  <2>4. MAX_OUTPUT - Bytes(p.text) < 4
    BY <1>4, <2>3
  <2> QED
    BY <2>3, <2>4 DEF Marked, p
<1>5. CASE room # 0
  <2>1. p = [text |-> o.text \o cut, truncated |-> o.truncated \/ Bytes(s) > room]
    BY <1>5 DEF write_str
  <2>2. /\ cut \in Seq(1..4) /\ Bytes(cut) \in Nat /\ Bytes(cut) <= room
        /\ Bytes(s) <= room => cut = s
        /\ Bytes(s) > room => room - Bytes(cut) < 4
    BY <1>3, CutFacts
  <2>3. Bytes(o.text \o cut) = Bytes(o.text) + Bytes(cut)
    <3>1. o.text \in Seq(Nat) /\ cut \in Seq(Nat)
      <4>1. Seq(1..4) \subseteq Seq(Nat)
        OBVIOUS
      <4> QED
        BY <1>1, <2>2, <4>1
    <3> QED
      BY <3>1, BytesConcat
  <2>4. /\ p.text = o.text \o cut /\ p.truncated = (o.truncated \/ Bytes(s) > room)
        /\ p \in Outputs
    <3>1. o.text \o cut \in Seq(1..4)
      BY <1>1, <2>2
    <3> QED
      BY <1>1, <2>1, <3>1 DEF Outputs
  <2>5. Bytes(p.text) = Bytes(o.text) + Bytes(cut)
    BY <2>3, <2>4
  <2> HIDE DEF p, cut
  <2>6. Bytes(p.text) <= MAX_OUTPUT
    BY <1>1, <1>2, <2>2, <2>5
  <2>7. ASSUME ~p.truncated
        PROVE  p.text = written \o s
    <3>1. ~o.truncated /\ ~(Bytes(s) > room)
      BY <2>4, <2>7
    <3>2. Bytes(s) <= room
      BY <1>2, <1>3, <3>1
    <3> QED
      BY <2>2, <2>4, <3>1, <3>2 DEF Marked
  <2>8. ASSUME p.truncated
        PROVE  MAX_OUTPUT - Bytes(p.text) < 4
    <3>1. o.truncated => room < 4
      BY DEF Marked
    <3> QED
      BY <1>1, <1>2, <2>2, <2>4, <2>5, <2>8, <3>1
  <2> QED
    BY <2>4, <2>6, <2>7, <2>8 DEF Marked, p
<1> QED
  BY <1>4, <1>5

----------------------------------------------------------------------------
(* One key, and a chunk of them.                                           *)

Text == Seq(Printable)
Tokens == Printable \cup Marks
Readers == [line : Text, escape : {"No", "Started", "Csi"}, pending_newline : BOOLEAN]
Feeds == [reader : Readers, echo : Seq(Tokens), lines : Seq(Text)]
Screens == [prompt : BOOLEAN, text : Text]

\* What a key does to what feed has so far: g from f.
LeavesLines(f, g) == g.echo = f.echo /\ g.lines = f.lines

InSequence(f, key, g) ==
    /\ f.reader.escape # "No"
    /\ g.reader.escape =
          (IF f.reader.escape = "Started"
           THEN (IF key = "[" THEN "Csi" ELSE "No")
           ELSE (IF key \in Finals THEN "No" ELSE "Csi"))
    /\ g.reader.line = f.reader.line /\ g.reader.pending_newline = f.reader.pending_newline
    /\ LeavesLines(f, g)

BeginsSequence(f, key, g) ==
    /\ f.reader.escape = "No" /\ key = "ESC"
    /\ g.reader = [line |-> f.reader.line, escape |-> "Started", pending_newline |-> FALSE]
    /\ LeavesLines(f, g)

EndsLine(f, key, g) ==
    /\ f.reader.escape = "No"
    /\ key = "CR" \/ (key = "LF" /\ ~f.reader.pending_newline)
    /\ g.reader = [line |-> <<>>, escape |-> "No", pending_newline |-> (key = "CR")]
    /\ g.echo = Append(f.echo, "NEWLINE") /\ g.lines = Append(f.lines, f.reader.line)

EditsLine(f, key, g) ==
    /\ f.reader.escape = "No" /\ key # "ESC" /\ key # "CR"
    /\ key = "LF" => f.reader.pending_newline
    /\ g.reader = [line |-> Edit(f.reader.line, key), escape |-> "No", pending_newline |-> FALSE]
    /\ g.lines = f.lines
    /\ \/ g.reader.line = f.reader.line /\ g.echo = f.echo
       \/ /\ f.reader.line # <<>> /\ g.reader.line = WithoutLast(f.reader.line)
          /\ g.echo = Append(f.echo, "ERASE")
       \/ /\ key \in Printable /\ g.reader.line = Append(f.reader.line, key)
          /\ g.echo = Append(f.echo, key)

LEMMA WithoutLastFacts ==
    ASSUME NEW s \in Text, s # <<>>
    PROVE  WithoutLast(s) \in Text
<1>1. Len(s) \in Nat /\ Len(s) # 0
  BY DEF Text
<1>2. 1 \in 1..Len(s) /\ Len(s) - 1 \in 0..Len(s)
  BY <1>1
<1> QED
  BY <1>1, <1>2 DEF WithoutLast, Text

LEMMA EditFacts ==
    ASSUME NEW s \in Text, NEW key
    PROVE  /\ Edit(s, key) \in Text
           /\ key = "BS" /\ s # <<>> => Edit(s, key) = WithoutLast(s)
           /\ key \in Printable /\ LineBytes(s) < LineLimit => Edit(s, key) = Append(s, key)
           /\ ~(key = "BS" /\ s # <<>>) /\ ~(key \in Printable /\ LineBytes(s) < LineLimit)
                => Edit(s, key) = s
<1>1. "BS" \notin Printable
  BY CharactersAssumption DEF Controls
<1>2. CASE key = "BS" /\ s # <<>>
  BY <1>1, <1>2, WithoutLastFacts DEF Edit
<1>3. CASE key \in Printable /\ LineBytes(s) < LineLimit
  <2>1. Append(s, key) \in Text
    BY <1>3 DEF Text
  <2> QED
    BY <1>1, <1>3, <2>1 DEF Edit
<1>4. CASE ~(key = "BS" /\ s # <<>>) /\ ~(key \in Printable /\ LineBytes(s) < LineLimit)
  BY <1>4 DEF Edit
<1> QED
  BY <1>2, <1>3, <1>4

LEMMA KeyCases ==
    ASSUME NEW f \in Feeds, NEW key \in Keys
    PROVE  LET g == FeedKey(f, key)
           IN  /\ g \in Feeds
               /\ \/ InSequence(f, key, g) \/ BeginsSequence(f, key, g)
                  \/ EndsLine(f, key, g) \/ EditsLine(f, key, g)
<1> DEFINE g == FeedKey(f, key)
           r == f.reader
<1>1. /\ r \in Readers /\ f.echo \in Seq(Tokens) /\ f.lines \in Seq(Text)
      /\ f = [reader |-> r, echo |-> f.echo, lines |-> f.lines]
  BY DEF Feeds
<1>2. /\ r.line \in Text /\ r.escape \in {"No", "Started", "Csi"} /\ r.pending_newline \in BOOLEAN
      /\ r = [line |-> r.line, escape |-> r.escape, pending_newline |-> r.pending_newline]
  BY <1>1 DEF Readers
<1>3. Printable \cap Controls = {} /\ key \in Printable \cup Controls
  BY CharactersAssumption DEF Keys
<1>4. CASE r.escape # "No"
  <2> DEFINE escape == IF r.escape = "Started"
                       THEN (IF key = "[" THEN "Csi" ELSE "No")
                       ELSE (IF key \in Finals THEN "No" ELSE "Csi")
  <2>1. g.reader = [line |-> r.line, escape |-> escape, pending_newline |-> r.pending_newline]
        /\ g = [reader |-> g.reader, echo |-> f.echo, lines |-> f.lines]
    <3>1. CASE r.escape = "Started"
      <4>1. g = [f EXCEPT !.reader.escape = IF key = "[" THEN "Csi" ELSE "No"]
        BY <3>1 DEF FeedKey
      <4> QED
        BY <1>1, <1>2, <3>1, <4>1
    <3>2. CASE r.escape = "Csi" /\ key \in Finals
      <4>1. g = [f EXCEPT !.reader.escape = "No"]
        BY <3>2 DEF FeedKey
      <4> QED
        BY <1>1, <1>2, <3>2, <4>1
    <3>3. CASE r.escape = "Csi" /\ key \notin Finals
      <4>1. g = f
        BY <3>3 DEF FeedKey
      <4> QED
        BY <1>1, <1>2, <3>3, <4>1
    <3> QED
      BY <1>2, <1>4, <3>1, <3>2, <3>3
  <2> HIDE DEF g
  <2>2. g.reader.line = r.line /\ g.reader.escape = escape
        /\ g.reader.pending_newline = r.pending_newline /\ g.echo = f.echo /\ g.lines = f.lines
    BY <2>1
  <2>3. g.reader \in Readers /\ g \in Feeds
    BY <1>1, <1>2, <2>1 DEF Readers, Feeds
  <2>4. InSequence(f, key, g)
    BY <1>4, <2>2 DEF InSequence, LeavesLines
  <2> QED
    BY <2>3, <2>4 DEF g
<1>5. CASE r.escape = "No"
  <2>1. g = TakeKey(f, key)
    BY <1>5 DEF FeedKey
  <2>2. \A escape \in {"No", "Started"} : Keeps(f, escape) \in Feeds
    BY <1>1, <1>2 DEF Keeps, Readers, Feeds
  <2>3. CASE key = "ESC"
    <3>1. g = Keeps(f, "Started")
      <4>1. key # "CR" /\ key # "LF" /\ key # "BS" /\ key \notin Printable
        BY <1>3, <2>3 DEF Controls
      <4> QED
        BY <2>1, <2>3, <4>1 DEF TakeKey
    <3> HIDE DEF g
    <3>2. BeginsSequence(f, key, g)
      BY <1>5, <2>3, <3>1 DEF BeginsSequence, LeavesLines, Keeps
    <3> QED
      BY <2>2, <3>1, <3>2 DEF g
  <2>4. CASE key = "CR" \/ (key = "LF" /\ ~r.pending_newline)
    <3>1. g = Ends(f, key)
      <4>1. key # "ESC" /\ key # "BS" /\ key \notin Printable
        BY <1>3, <2>4 DEF Controls
      <4> QED
        BY <2>1, <2>4, <4>1 DEF TakeKey
    <3>2. Ends(f, key) \in Feeds
      <4>1. "NEWLINE" \in Tokens /\ <<>> \in Text
        BY DEF Tokens, Marks, Text
      <4>2. Append(f.echo, "NEWLINE") \in Seq(Tokens) /\ Append(f.lines, r.line) \in Seq(Text)
        BY <1>1, <1>2, <4>1
      <4> QED
        BY <4>1, <4>2 DEF Readers, Feeds, Ends
    <3> HIDE DEF g
    <3>3. EndsLine(f, key, g)
      BY <1>5, <2>4, <3>1 DEF EndsLine, Ends
    <3> QED
      BY <3>1, <3>2, <3>3 DEF g
  <2>5. CASE key # "ESC" /\ key # "CR" /\ (key = "LF" => r.pending_newline)
    <3> DEFINE line == Edit(r.line, key)
    <3>1. \/ line = r.line /\ g = Keeps(f, "No")
          \/ r.line # <<>> /\ line = WithoutLast(r.line) /\ g = Edits(f, line, "ERASE")
          \/ key \in Printable /\ line = Append(r.line, key) /\ g = Edits(f, line, key)
      <4>1. CASE key = "LF"
        <5>1. key # "BS" /\ key \notin Printable
          BY <1>3, <4>1 DEF Controls
        <5>2. g = Keeps(f, "No")
          BY <2>1, <2>5, <4>1, <5>1 DEF TakeKey
        <5>3. line = r.line
          BY <1>2, <5>1, EditFacts
        <5> QED
          BY <5>2, <5>3
      <4>2. CASE key = "BS" /\ r.line # <<>>
        <5>1. g = Edits(f, WithoutLast(r.line), "ERASE")
          <6>1. key # "ESC" /\ key # "CR" /\ key # "LF" /\ key \notin Printable
            BY <1>3, <4>2 DEF Controls
          <6> QED
            BY <2>1, <4>2, <6>1 DEF TakeKey
        <5>2. line = WithoutLast(r.line)
          BY <1>2, <4>2, EditFacts
        <5> QED
          BY <4>2, <5>1, <5>2
      <4>3. CASE key \in Printable /\ LineBytes(r.line) < LineLimit
        <5>1. key # "LF" /\ key # "BS"
          BY <1>3, <4>3 DEF Controls
        <5>2. g = Edits(f, Append(r.line, key), key)
          BY <2>1, <2>5, <4>3, <5>1 DEF TakeKey
        <5>3. line = Append(r.line, key)
          BY <1>2, <4>3, EditFacts
        <5> QED
          BY <4>3, <5>2, <5>3
      <4>4. CASE key # "LF" /\ ~(key = "BS" /\ r.line # <<>>)
                 /\ ~(key \in Printable /\ LineBytes(r.line) < LineLimit)
        <5>1. g = Keeps(f, "No")
          BY <2>1, <2>5, <4>4 DEF TakeKey
        <5>2. line = r.line
          BY <1>2, <4>4, EditFacts
        <5> QED
          BY <5>1, <5>2
      <4> QED
        BY <4>1, <4>2, <4>3, <4>4
    <3> HIDE DEF g
    <3>2. line \in Text
      BY <1>2, EditFacts
    <3> HIDE DEF line
    <3>3. CASE line = r.line /\ g = Keeps(f, "No")
      <4>1. EditsLine(f, key, g)
        BY <1>5, <2>5, <3>3 DEF EditsLine, Keeps, line
      <4> QED
        BY <2>2, <3>3, <4>1 DEF g
    <3>4. ASSUME NEW token \in Tokens, g = Edits(f, line, token),
                 \/ r.line # <<>> /\ line = WithoutLast(r.line) /\ token = "ERASE"
                 \/ key \in Printable /\ line = Append(r.line, key) /\ token = key
          PROVE  g \in Feeds /\ EditsLine(f, key, g)
      <4>1. Append(f.echo, token) \in Seq(Tokens)
        BY <1>1
      <4>2. Edits(f, line, token) \in Feeds
        BY <1>1, <3>2, <4>1 DEF Readers, Feeds, Edits
      <4>3. g.reader = [line |-> line, escape |-> "No", pending_newline |-> FALSE]
            /\ g.reader.line = line /\ g.lines = f.lines /\ g.echo = Append(f.echo, token)
        BY <3>4 DEF Edits
      <4>4. EditsLine(f, key, g)
        BY <1>5, <2>5, <3>4, <4>3 DEF EditsLine, line
      <4> QED
        BY <3>4, <4>2, <4>4
    <3>5. "ERASE" \in Tokens /\ (key \in Printable => key \in Tokens)
      BY DEF Tokens, Marks
    <3> QED
      BY <3>1, <3>3, <3>4, <3>5 DEF g
  <2> QED
    BY <2>3, <2>4, <2>5
<1> QED
  BY <1>2, <1>4, <1>5

\* The states feed goes through, and those of the terminal.
Feeding(fed, f, chunk) ==
    /\ fed \in [0..Len(chunk) -> Feeds] /\ fed[0] = f
    /\ \A n \in 1..Len(chunk) : fed[n] = FeedKey(fed[n - 1], chunk[n])

Showing(shown, s, tokens) ==
    /\ shown \in [0..Len(tokens) -> Screens] /\ shown[0] = s
    /\ \A n \in 1..Len(tokens) : shown[n] = Show(shown[n - 1], tokens[n])

LEMMA FeedRun ==
    ASSUME NEW f \in Feeds, NEW chunk \in Seq(Keys)
    PROVE  \E fed : Feeding(fed, f, chunk) /\ FeedKeys(f, chunk) = fed[Len(chunk)]
<1> DEFINE step == [p \in Feeds \X Keys |-> FeedKey(p[1], p[2])]
           Run(g) == g = [n \in 0..Len(chunk) |-> IF n = 0 THEN f ELSE FeedKey(g[n - 1], chunk[n])]
           fed == CHOOSE g : Run(g)
<1>1. step \in [Feeds \X Keys -> Feeds] /\ \A g \in Feeds, key \in Keys : step[<<g, key>>] = FeedKey(g, key)
  <2>1. \A g \in Feeds, key \in Keys : FeedKey(g, key) \in Feeds
    BY KeyCases
  <2> QED
    BY <2>1
<1> HIDE DEF step
<1>2. PICK run : Runs(run, Feeds, step, f, chunk)
  BY <1>1, RunExists
<1>3. Len(chunk) \in Nat /\ \A n \in 1..Len(chunk) : chunk[n] \in Keys /\ n - 1 \in 0..Len(chunk)
  OBVIOUS
<1>4. /\ run \in [0..Len(chunk) -> Feeds] /\ run[0] = f
      /\ \A n \in 1..Len(chunk) : run[n] = FeedKey(run[n - 1], chunk[n])
  BY <1>1, <1>2, <1>3 DEF Runs
<1>5. Run(run)
  BY <1>3, <1>4
<1>6. Run(fed)
  BY <1>5, Zenon
<1>7. FeedKeys(f, chunk) = fed[Len(chunk)]
  BY DEF FeedKeys
<1> HIDE DEF fed
<1>8. /\ DOMAIN fed = 0..Len(chunk) /\ fed[0] = f
      /\ \A n \in 1..Len(chunk) : fed[n] = FeedKey(fed[n - 1], chunk[n])
  BY <1>3, <1>6
<1>9. Alike(Len(chunk), fed, run)
  <2>1. GoAlike(Len(chunk), fed, run)
    BY <1>4, <1>8 DEF GoAlike
  <2> QED
    BY <1>3, <2>1, SameRun
<1>10. FeedKeys(f, chunk) = run[Len(chunk)]
  BY <1>3, <1>7, <1>9 DEF Alike
<1> QED
  BY <1>4, <1>10 DEF Feeding

LEMMA ShowType ==
    ASSUME NEW s \in Screens, NEW token \in Tokens
    PROVE  /\ Show(s, token) \in Screens
           /\ token = "PROMPT" => Show(s, token) = [prompt |-> TRUE, text |-> <<>>]
           /\ token = "ERASE" /\ s.text # <<>>
                => Show(s, token) = [prompt |-> s.prompt, text |-> WithoutLast(s.text)]
           /\ token \in Printable
                => Show(s, token) = [prompt |-> s.prompt, text |-> Append(s.text, token)]
<1>1. s.prompt \in BOOLEAN /\ s.text \in Text /\ s = [prompt |-> s.prompt, text |-> s.text]
  BY DEF Screens
<1>2. token \in Printable \cup Marks /\ Printable \cap Marks = {} /\ <<>> \in Text
  BY CharactersAssumption DEF Tokens, Text
<1>3. CASE token \in {"NEWLINE", "OUTPUT"} \/ (token = "ERASE" /\ s.text = <<>>)
  <2>1. token # "PROMPT" /\ token \notin Printable
    BY <1>2, <1>3 DEF Marks
  <2>2. Show(s, token) = [prompt |-> FALSE, text |-> <<>>]
    BY <1>3, <2>1 DEF Show
  <2> QED
    BY <1>2, <1>3, <2>1, <2>2 DEF Screens
<1>4. CASE token = "PROMPT"
  <2>1. token \notin Printable
    BY <1>2, <1>4 DEF Marks
  <2>2. Show(s, token) = [prompt |-> TRUE, text |-> <<>>]
    BY <1>4, <2>1 DEF Show
  <2>3. [prompt |-> TRUE, text |-> <<>>] \in Screens
    BY <1>2 DEF Screens
  <2>4. Show(s, token) \in Screens
    BY <2>2, <2>3
  <2>5. token # "ERASE"
    BY <1>4
  <2> QED
    BY <2>1, <2>2, <2>4, <2>5
<1>5. CASE token = "ERASE" /\ s.text # <<>>
  <2>1. token \notin Printable
    BY <1>2, <1>5 DEF Marks
  <2>2. Show(s, token) = [s EXCEPT !.text = WithoutLast(@)]
    BY <1>5, <2>1 DEF Show
  <2>3. Show(s, token) = [prompt |-> s.prompt, text |-> WithoutLast(s.text)]
    BY <1>1, <2>2
  <2>4. WithoutLast(s.text) \in Text
    BY <1>1, <1>5, WithoutLastFacts
  <2> QED
    BY <1>1, <1>5, <2>1, <2>3, <2>4 DEF Screens
<1>6. CASE token \in Printable
  <2>1. token \notin Marks
    BY <1>2, <1>6
  <2>2. Show(s, token) = [s EXCEPT !.text = Append(@, token)]
    BY <2>1 DEF Show, Marks
  <2>3. Show(s, token) = [prompt |-> s.prompt, text |-> Append(s.text, token)]
    BY <1>1, <2>2
  <2>4. Append(s.text, token) \in Text
    BY <1>1, <1>6 DEF Text
  <2> QED
    BY <1>1, <1>6, <2>1, <2>3, <2>4 DEF Screens, Marks
<1> QED
  BY <1>2, <1>3, <1>4, <1>5, <1>6 DEF Marks

LEMMA ShowRun ==
    ASSUME NEW here \in Screens, NEW tokens \in Seq(Tokens)
    PROVE  \E shown : Showing(shown, here, tokens) /\ Shown(here, tokens) = shown[Len(tokens)]
<1> DEFINE step == [p \in Screens \X Tokens |-> Show(p[1], p[2])]
           Run(g) == g = [n \in 0..Len(tokens) |-> IF n = 0 THEN here ELSE Show(g[n - 1], tokens[n])]
           shown == CHOOSE g : Run(g)
<1>1. step \in [Screens \X Tokens -> Screens]
      /\ \A s \in Screens, token \in Tokens : step[<<s, token>>] = Show(s, token)
  <2>1. \A s \in Screens, token \in Tokens : Show(s, token) \in Screens
    BY ShowType
  <2> QED
    BY <2>1
<1> HIDE DEF step
<1>2. PICK run : Runs(run, Screens, step, here, tokens)
  BY <1>1, RunExists
<1>3. Len(tokens) \in Nat /\ \A n \in 1..Len(tokens) : tokens[n] \in Tokens /\ n - 1 \in 0..Len(tokens)
  OBVIOUS
<1>4. /\ run \in [0..Len(tokens) -> Screens] /\ run[0] = here
      /\ \A n \in 1..Len(tokens) : run[n] = Show(run[n - 1], tokens[n])
  BY <1>1, <1>2, <1>3 DEF Runs
<1>5. Run(run)
  BY <1>3, <1>4
<1>6. Run(shown)
  BY <1>5, Zenon
<1>7. Shown(here, tokens) = shown[Len(tokens)]
  BY DEF Shown
<1> HIDE DEF shown
<1>8. /\ DOMAIN shown = 0..Len(tokens) /\ shown[0] = here
      /\ \A n \in 1..Len(tokens) : shown[n] = Show(shown[n - 1], tokens[n])
  BY <1>3, <1>6
<1>9. Alike(Len(tokens), shown, run)
  <2>1. GoAlike(Len(tokens), shown, run)
    BY <1>4, <1>8 DEF GoAlike
  <2> QED
    BY <1>3, <2>1, SameRun
<1>10. Shown(here, tokens) = run[Len(tokens)]
  BY <1>3, <1>7, <1>9 DEF Alike
<1> QED
  BY <1>4, <1>10 DEF Showing

LEMMA ShownType ==
    ASSUME NEW here \in Screens, NEW tokens \in Seq(Tokens)
    PROVE  Shown(here, tokens) \in Screens
<1>1. PICK f : Showing(f, here, tokens) /\ Shown(here, tokens) = f[Len(tokens)]
  BY ShowRun
<1>2. Len(tokens) \in 0..Len(tokens)
  OBVIOUS
<1> QED
  BY <1>1, <1>2 DEF Showing

\* The tokens one after another.
LEMMA ShownAppend ==
    ASSUME NEW here \in Screens, NEW tokens \in Seq(Tokens), NEW token \in Tokens
    PROVE  /\ Shown(here, tokens) \in Screens
           /\ Shown(here, Append(tokens, token)) = Show(Shown(here, tokens), token)
<1> DEFINE more == Append(tokens, token)
<1>1. /\ more \in Seq(Tokens) /\ Len(more) = Len(tokens) + 1 /\ Len(tokens) \in Nat
      /\ more[Len(tokens) + 1] = token /\ \A n \in 1..Len(tokens) : more[n] = tokens[n]
  OBVIOUS
<1> HIDE DEF more
<1>2. PICK f : Showing(f, here, tokens) /\ Shown(here, tokens) = f[Len(tokens)]
  BY ShowRun
<1>3. PICK g : Showing(g, here, more) /\ Shown(here, more) = g[Len(more)]
  BY <1>1, ShowRun
<1>4. /\ f \in [0..Len(tokens) -> Screens] /\ f[0] = here /\ g[0] = here
      /\ \A n \in 1..Len(tokens) : f[n] = Show(f[n - 1], tokens[n])
      /\ \A n \in 1..Len(more) : g[n] = Show(g[n - 1], more[n])
  BY <1>2, <1>3 DEF Showing
<1>5. Alike(Len(tokens), g, f)
  <2>1. GoAlike(Len(tokens), g, f)
    <3>1. \A n \in 1..Len(tokens) : n \in 1..Len(more)
      BY <1>1
    <3> QED
      BY <1>1, <1>4, <3>1 DEF GoAlike
  <2> QED
    BY <1>1, <2>1, SameRun
<1>6. g[Len(tokens)] = f[Len(tokens)] /\ f[Len(tokens)] \in Screens
  <2>1. Len(tokens) \in 0..Len(tokens)
    BY <1>1
  <2> QED
    BY <1>4, <1>5, <2>1 DEF Alike
<1>7. g[Len(tokens) + 1] = Show(g[Len(tokens)], token)
  <2>1. Len(tokens) + 1 \in 1..Len(more) /\ (Len(tokens) + 1) - 1 = Len(tokens)
    BY <1>1
  <2> QED
    BY <1>1, <1>4, <2>1
<1> QED
  BY <1>1, <1>2, <1>3, <1>6, <1>7 DEF more

LEMMA ShownNothing ==
    ASSUME NEW here \in Screens
    PROVE  Shown(here, <<>>) = here
<1> DEFINE none == <<>>
<1>1. none \in Seq(Tokens) /\ Len(none) = 0
  OBVIOUS
<1> HIDE DEF none
<1>2. PICK f : Showing(f, here, none) /\ Shown(here, none) = f[Len(none)]
  BY <1>1, ShowRun
<1> QED
  BY <1>1, <1>2 DEF Showing, none

\* Whatever went before it, a prompt is all that is on its line.
LEMMA ShownPrompt ==
    ASSUME NEW here \in Screens, NEW tokens \in Seq(Tokens)
    PROVE  Shown(here, tokens \o <<"PROMPT">>) = [prompt |-> TRUE, text |-> <<>>]
<1>1. "PROMPT" \in Tokens
  BY DEF Tokens, Marks
<1>2. tokens \o <<"PROMPT">> = Append(tokens, "PROMPT")
  BY AppendIsConcat
<1> QED
  BY <1>1, <1>2, ShownAppend, ShowType

\* Every state of the reader's run is one of feed's.
LEMMA FeedType ==
    ASSUME NEW f \in Feeds, NEW chunk \in Seq(Keys)
    PROVE  FeedKeys(f, chunk) \in Feeds
<1>1. PICK fed : Feeding(fed, f, chunk) /\ FeedKeys(f, chunk) = fed[Len(chunk)]
  BY FeedRun
<1>2. Len(chunk) \in 0..Len(chunk)
  OBVIOUS
<1> QED
  BY <1>1, <1>2 DEF Feeding

LEMMA FromHereType ==
    ASSUME NEW r \in Readers
    PROVE  /\ FromHere(r) \in Feeds /\ FromHere(r).reader = r
           /\ FromHere(r).lines = <<>> /\ FromHere(r).echo = <<>>
<1>1. <<>> \in Seq(Tokens) /\ <<>> \in Seq(Text)
  OBVIOUS
<1> QED
  BY <1>1 DEF FromHere, Feeds

\* What one key does depends on the reader alone.
LEMMA KeyAlike ==
    ASSUME NEW f \in Feeds, NEW h \in Feeds, f.reader = h.reader, NEW key \in Keys
    PROVE  /\ FeedKey(f, key).reader = FeedKey(h, key).reader
           /\ \E more \in Seq(Text) : /\ FeedKey(f, key).lines = f.lines \o more
                                      /\ FeedKey(h, key).lines = h.lines \o more
<1> DEFINE g == FeedKey(f, key)
           k == FeedKey(h, key)
<1>1. /\ g \in Feeds /\ k \in Feeds
      /\ InSequence(f, key, g) \/ BeginsSequence(f, key, g) \/ EndsLine(f, key, g) \/ EditsLine(f, key, g)
      /\ InSequence(h, key, k) \/ BeginsSequence(h, key, k) \/ EndsLine(h, key, k) \/ EditsLine(h, key, k)
  BY KeyCases
<1>2. /\ f.lines \in Seq(Text) /\ h.lines \in Seq(Text) /\ f.reader.line \in Text
      /\ g.reader = [line |-> g.reader.line, escape |-> g.reader.escape,
                     pending_newline |-> g.reader.pending_newline]
      /\ k.reader = [line |-> k.reader.line, escape |-> k.reader.escape,
                     pending_newline |-> k.reader.pending_newline]
  BY <1>1 DEF Feeds, Readers
<1> HIDE DEF g, k
<1>3. f.lines \o <<>> = f.lines /\ h.lines \o <<>> = h.lines /\ <<>> \in Seq(Text)
  BY <1>2, ConcatEmptySeq
<1>4. ASSUME g.lines = f.lines, k.lines = h.lines
      PROVE  \E more \in Seq(Text) : g.lines = f.lines \o more /\ k.lines = h.lines \o more
  BY <1>3, <1>4
<1>5. CASE InSequence(f, key, g)
  <2>1. InSequence(h, key, k)
    BY <1>1, <1>5 DEF InSequence, BeginsSequence, EndsLine, EditsLine
  <2>2. g.reader.line = k.reader.line /\ g.reader.escape = k.reader.escape
        /\ g.reader.pending_newline = k.reader.pending_newline
    BY <1>5, <2>1 DEF InSequence
  <2>3. g.reader = k.reader
    BY <1>2, <2>2
  <2> QED
    BY <1>4, <1>5, <2>1, <2>3 DEF InSequence, LeavesLines, g, k
<1>6. CASE BeginsSequence(f, key, g)
  <2>1. BeginsSequence(h, key, k)
    BY <1>1, <1>6 DEF InSequence, BeginsSequence, EndsLine, EditsLine
  <2>2. g.reader = k.reader
    BY <1>6, <2>1 DEF BeginsSequence
  <2> QED
    BY <1>4, <1>6, <2>1, <2>2 DEF BeginsSequence, LeavesLines, g, k
<1>7. CASE EndsLine(f, key, g)
  <2>1. EndsLine(h, key, k)
    BY <1>1, <1>7 DEF InSequence, BeginsSequence, EndsLine, EditsLine
  <2>2. g.reader = k.reader
    BY <1>7, <2>1 DEF EndsLine
  <2> DEFINE line == f.reader.line
  <2>3. g.lines = Append(f.lines, line) /\ k.lines = Append(h.lines, line)
    BY <1>7, <2>1 DEF EndsLine
  <2> HIDE DEF line
  <2>4. g.lines = f.lines \o <<line>> /\ k.lines = h.lines \o <<line>> /\ <<line>> \in Seq(Text)
    BY <1>2, <2>3, AppendIsConcat DEF line
  <2> QED
    BY <2>2, <2>4 DEF g, k
<1>8. CASE EditsLine(f, key, g)
  <2>1. EditsLine(h, key, k)
    BY <1>1, <1>8 DEF InSequence, BeginsSequence, EndsLine, EditsLine
  <2>2. g.reader = k.reader
    BY <1>8, <2>1 DEF EditsLine
  <2> QED
    BY <1>4, <1>8, <2>1, <2>2 DEF EditsLine, g, k
<1> QED
  BY <1>1, <1>5, <1>6, <1>7, <1>8 DEF g, k

LEMMA LinesAssociate ==
    ASSUME NEW a \in Seq(Text), NEW b \in Seq(Text), NEW c \in Seq(Text)
    PROVE  (a \o b) \o c = a \o (b \o c)
BY ConcatAssociative

\* Nor does what a chunk does depend on more.
LEMMA FeedAlike ==
    ASSUME NEW f \in Feeds, NEW h \in Feeds, f.reader = h.reader, NEW chunk \in Seq(Keys)
    PROVE  /\ FeedKeys(f, chunk).reader = FeedKeys(h, chunk).reader
           /\ \E more \in Seq(Text) : /\ FeedKeys(f, chunk).lines = f.lines \o more
                                      /\ FeedKeys(h, chunk).lines = h.lines \o more
<1> DEFINE Same(p, q) == /\ p.reader = q.reader
                         /\ \E more \in Seq(Text) : p.lines = f.lines \o more /\ q.lines = h.lines \o more
<1>1. PICK a : Feeding(a, f, chunk) /\ FeedKeys(f, chunk) = a[Len(chunk)]
  BY FeedRun
<1>2. PICK b : Feeding(b, h, chunk) /\ FeedKeys(h, chunk) = b[Len(chunk)]
  BY FeedRun
<1> DEFINE S == {n \in 0..Len(chunk) : Same(a[n], b[n])}
<1>3. 0 \in S
  <2>1. f.lines \o <<>> = f.lines /\ h.lines \o <<>> = h.lines /\ <<>> \in Seq(Text)
    BY ConcatEmptySeq DEF Feeds
  <2>2. Same(f, h)
    BY <2>1
  <2>3. a[0] = f /\ b[0] = h /\ 0 \in 0..Len(chunk)
    BY <1>1, <1>2 DEF Feeding
  <2> HIDE DEF Same
  <2> QED
    BY <2>2, <2>3
<1>4. ASSUME NEW n \in 1..Len(chunk), n - 1 \in S
      PROVE  n \in S
  <2>1. /\ n \in 0..Len(chunk) /\ n - 1 \in 0..Len(chunk) /\ chunk[n] \in Keys
    OBVIOUS
  <2> DEFINE p == a[n - 1]
             q == b[n - 1]
  <2>2. p \in Feeds /\ q \in Feeds /\ a[n] = FeedKey(p, chunk[n]) /\ b[n] = FeedKey(q, chunk[n])
    BY <1>1, <1>2, <2>1 DEF Feeding
  <2>3. Same(p, q)
    BY <1>4
  <2> HIDE DEF p, q
  <2>4. PICK more \in Seq(Text) : p.lines = f.lines \o more /\ q.lines = h.lines \o more
    BY <2>3
  <2>11. p.reader = q.reader
    BY <2>3
  <2>12. /\ FeedKey(p, chunk[n]).reader = FeedKey(q, chunk[n]).reader
         /\ \E more1 \in Seq(Text) : /\ FeedKey(p, chunk[n]).lines = p.lines \o more1
                                     /\ FeedKey(q, chunk[n]).lines = q.lines \o more1
    <3> HIDE DEF Same
    <3> QED
      BY <2>1, <2>2, <2>11, KeyAlike
  <2>5. a[n].reader = b[n].reader
    BY <2>2, <2>12
  <2>6. PICK last \in Seq(Text) : a[n].lines = p.lines \o last /\ b[n].lines = q.lines \o last
    BY <2>2, <2>12
  <2>7. f.lines \in Seq(Text) /\ h.lines \in Seq(Text)
    BY DEF Feeds
  <2>8. /\ (f.lines \o more) \o last = f.lines \o (more \o last)
        /\ (h.lines \o more) \o last = h.lines \o (more \o last)
        /\ more \o last \in Seq(Text)
    <3>1. more \o last \in Seq(Text)
      BY ConcatProperties
    <3>2. (f.lines \o more) \o last = f.lines \o (more \o last)
      BY <2>7, LinesAssociate
    <3>3. (h.lines \o more) \o last = h.lines \o (more \o last)
      BY <2>7, LinesAssociate
    <3> QED
      BY <3>1, <3>2, <3>3
  <2>9. a[n].lines = f.lines \o (more \o last) /\ b[n].lines = h.lines \o (more \o last)
    BY <2>4, <2>6, <2>8
  <2>10. Same(a[n], b[n])
    BY <2>5, <2>8, <2>9
  <2> HIDE DEF Same
  <2> QED
    BY <2>1, <2>10
<1> HIDE DEF S
<1>5. 0..Len(chunk) \subseteq S
  <2>1. Len(chunk) \in Nat
    OBVIOUS
  <2> QED
    BY <1>3, <1>4, <2>1, CountingTo
<1>6. Same(a[Len(chunk)], b[Len(chunk)])
  <2>1. Len(chunk) \in 0..Len(chunk)
    OBVIOUS
  <2> QED
    BY <1>5, <2>1 DEF S
<1> QED
  BY <1>1, <1>2, <1>6

\* Two chunks, one after the other.
LEMMA FeedConcat ==
    ASSUME NEW f \in Feeds, NEW x \in Seq(Keys), NEW y \in Seq(Keys)
    PROVE  FeedKeys(f, x \o y) = FeedKeys(FeedKeys(f, x), y)
<1> DEFINE xy == x \o y
           h == FeedKeys(f, x)
<1>1. h \in Feeds
  BY FeedType
<1>2. /\ xy \in Seq(Keys) /\ Len(xy) = Len(x) + Len(y) /\ Len(x) \in Nat /\ Len(y) \in Nat
      /\ \A n \in 1..Len(x) : xy[n] = x[n]
      /\ \A n \in 1..Len(y) : xy[Len(x) + n] = y[n]
  BY ConcatProperties
<1> HIDE DEF xy
<1>3. PICK a : Feeding(a, f, x) /\ FeedKeys(f, x) = a[Len(x)]
  BY FeedRun
<1> HIDE DEF h
<1>4. PICK b : Feeding(b, h, y) /\ FeedKeys(h, y) = b[Len(y)]
  BY <1>1, FeedRun
<1>5. PICK c : Feeding(c, f, xy) /\ FeedKeys(f, xy) = c[Len(xy)]
  BY <1>2, FeedRun
<1>6. /\ a[0] = f /\ b[0] = h /\ c[0] = f
      /\ \A n \in 1..Len(x) : a[n] = FeedKey(a[n - 1], x[n])
      /\ \A n \in 1..Len(y) : b[n] = FeedKey(b[n - 1], y[n])
      /\ \A n \in 1..(Len(x) + Len(y)) : c[n] = FeedKey(c[n - 1], xy[n])
  BY <1>2, <1>3, <1>4, <1>5 DEF Feeding
<1>7. c[Len(x)] = h
  <2>1. \A n \in 1..Len(x) : n \in 1..(Len(x) + Len(y))
    BY <1>2
  <2>2. GoAlike(Len(x), c, a)
    BY <1>2, <1>6, <2>1 DEF GoAlike
  <2>3. Alike(Len(x), c, a) /\ Len(x) \in 0..Len(x)
    BY <1>2, <2>2, SameRun
  <2> QED
    BY <1>3, <2>3 DEF Alike, h
<1> DEFINE S == {n \in 0..Len(y) : c[Len(x) + n] = b[n]}
<1>8. 0 \in S
  BY <1>2, <1>6, <1>7
<1>9. ASSUME NEW n \in 1..Len(y), n - 1 \in S
      PROVE  n \in S
  <2>1. /\ Len(x) + n \in 1..(Len(x) + Len(y)) /\ (Len(x) + n) - 1 = Len(x) + (n - 1)
        /\ n \in 0..Len(y)
    BY <1>2
  <2>2. c[Len(x) + n] = FeedKey(c[Len(x) + (n - 1)], xy[Len(x) + n])
    BY <1>6, <2>1
  <2>3. c[Len(x) + (n - 1)] = b[n - 1]
    BY <1>9
  <2>4. c[Len(x) + n] = b[n]
    BY <1>2, <1>6, <2>2, <2>3
  <2> QED
    BY <2>1, <2>4
<1> HIDE DEF S
<1>10. 0..Len(y) \subseteq S
  BY <1>2, <1>8, <1>9, CountingTo
<1>11. c[Len(x) + Len(y)] = b[Len(y)]
  <2>1. Len(y) \in 0..Len(y)
    BY <1>2
  <2> QED
    BY <1>10, <2>1 DEF S
<1>12. FeedKeys(f, xy) = FeedKeys(h, y)
  BY <1>2, <1>4, <1>5, <1>11
<1> QED
  BY <1>12 DEF xy, h

Prompted(line) == [prompt |-> TRUE, text |-> line]

LEMMA PromptedShows ==
    ASSUME NEW line \in Text
    PROVE  /\ Prompted(line) \in Screens
           /\ line # <<>> => Show(Prompted(line), "ERASE") = Prompted(WithoutLast(line))
           /\ \A key \in Printable : Show(Prompted(line), key) = Prompted(Append(line, key))
<1> DEFINE s == Prompted(line)
<1>1. s \in Screens
  BY DEF Screens, Prompted
<1>2. s.prompt = TRUE /\ s.text = line
  BY DEF Prompted
<1> HIDE DEF s
<1>3. "ERASE" \in Tokens /\ Printable \subseteq Tokens
  BY DEF Tokens, Marks
<1>4. ASSUME line # <<>>
      PROVE  Show(s, "ERASE") = Prompted(WithoutLast(line))
  BY <1>1, <1>2, <1>3, <1>4, ShowType DEF Prompted
<1>5. ASSUME NEW key \in Printable
      PROVE  Show(s, key) = Prompted(Append(line, key))
  <2>1. key \in Tokens
    BY <1>3
  <2>2. Show(s, key) = [prompt |-> s.prompt, text |-> Append(s.text, key)]
    BY <1>1, <2>1, ShowType
  <2> QED
    BY <1>2, <2>2 DEF Prompted
<1> QED
  BY <1>1, <1>4, <1>5 DEF s

\* While a chunk ends no line, its echo brings the terminal's line along.
LEMMA EchoShows ==
    ASSUME NEW here \in Screens, NEW r \in Readers, NEW chunk \in Seq(Keys),
           here = Prompted(r.line), feed(r, chunk).lines = <<>>
    PROVE  Shown(here, feed(r, chunk).echo) = Prompted(feed(r, chunk).reader.line)
<1> DEFINE f == FromHere(r)
<1>1. f \in Feeds /\ f.reader = r /\ f.lines = <<>> /\ f.echo = <<>>
  BY FromHereType
<1> HIDE DEF f
<1>2. PICK fed : Feeding(fed, f, chunk) /\ FeedKeys(f, chunk) = fed[Len(chunk)]
  BY <1>1, FeedRun
<1> DEFINE S == {n \in 0..Len(chunk) :
                    fed[n].lines = <<>> => Shown(here, fed[n].echo) = Prompted(fed[n].reader.line)}
<1>3. 0 \in S
  <2>1. fed[0] = f /\ 0 \in 0..Len(chunk)
    BY <1>2 DEF Feeding
  <2> QED
    BY <1>1, <2>1, ShownNothing
<1>4. ASSUME NEW n \in 1..Len(chunk), n - 1 \in S
      PROVE  n \in S
  <2> DEFINE p == fed[n - 1]
             q == fed[n]
  <2>1. n \in 0..Len(chunk) /\ n - 1 \in 0..Len(chunk) /\ chunk[n] \in Keys
    OBVIOUS
  <2>2. p \in Feeds /\ q = FeedKey(p, chunk[n]) /\ (p.lines = <<>> => Shown(here, p.echo) = Prompted(p.reader.line))
    BY <1>2, <1>4, <2>1 DEF Feeding
  <2>3. \/ InSequence(p, chunk[n], q) \/ BeginsSequence(p, chunk[n], q)
        \/ EndsLine(p, chunk[n], q) \/ EditsLine(p, chunk[n], q)
    BY <2>1, <2>2, KeyCases
  <2>4. p.echo \in Seq(Tokens) /\ p.lines \in Seq(Text) /\ p.reader.line \in Text
    BY <2>2 DEF Feeds, Readers
  <2> HIDE DEF p, q
  <2>5. ASSUME q.lines = <<>>
        PROVE  Shown(here, q.echo) = Prompted(q.reader.line)
    <3>1. CASE InSequence(p, chunk[n], q) \/ BeginsSequence(p, chunk[n], q)
      <4>1. q.echo = p.echo /\ q.lines = p.lines /\ q.reader.line = p.reader.line
        BY <3>1 DEF InSequence, BeginsSequence, LeavesLines
      <4> QED
        BY <2>2, <2>5, <4>1
    <3>2. CASE EndsLine(p, chunk[n], q)
      <4>1. q.lines = Append(p.lines, p.reader.line)
        BY <3>2 DEF EndsLine
      <4> QED
        BY <2>4, <2>5, <4>1
    <3>3. CASE EditsLine(p, chunk[n], q)
      <4>1. p.lines = <<>>
        BY <2>5, <3>3 DEF EditsLine
      <4>2. Shown(here, p.echo) = Prompted(p.reader.line)
        BY <2>2, <4>1
      <4>4. CASE q.reader.line = p.reader.line /\ q.echo = p.echo
        BY <4>2, <4>4
      <4>5. CASE p.reader.line # <<>> /\ q.reader.line = WithoutLast(p.reader.line)
                  /\ q.echo = Append(p.echo, "ERASE")
        <5>1. "ERASE" \in Tokens
          BY DEF Tokens, Marks
        <5>2. Shown(here, q.echo) = Show(Shown(here, p.echo), "ERASE")
          BY <2>4, <4>5, <5>1, ShownAppend
        <5>3. Show(Shown(here, p.echo), "ERASE") = Prompted(WithoutLast(p.reader.line))
          BY <2>4, <4>2, <4>5, PromptedShows
        <5> QED
          BY <4>5, <5>2, <5>3
      <4>6. CASE chunk[n] \in Printable /\ q.reader.line = Append(p.reader.line, chunk[n])
                  /\ q.echo = Append(p.echo, chunk[n])
        <5>1. chunk[n] \in Tokens
          BY <4>6 DEF Tokens
        <5>2. Shown(here, q.echo) = Show(Shown(here, p.echo), chunk[n])
          BY <2>4, <4>6, <5>1, ShownAppend
        <5>3. Show(Shown(here, p.echo), chunk[n]) = Prompted(Append(p.reader.line, chunk[n]))
          BY <2>4, <4>2, <4>6, PromptedShows
        <5> QED
          BY <4>6, <5>2, <5>3
      <4> QED
        BY <3>3, <4>4, <4>5, <4>6 DEF EditsLine
    <3> QED
      BY <2>3, <3>1, <3>2, <3>3
  <2> QED
    BY <2>1, <2>5 DEF q
<1> HIDE DEF S
<1>5. 0..Len(chunk) \subseteq S
  <2>1. Len(chunk) \in Nat
    OBVIOUS
  <2> QED
    BY <1>3, <1>4, <2>1, CountingTo
<1>6. Len(chunk) \in S
  <2>1. Len(chunk) \in 0..Len(chunk)
    OBVIOUS
  <2> QED
    BY <1>5, <2>1
<1> QED
  BY <1>2, <1>6 DEF S, feed, f

----------------------------------------------------------------------------
(* The invariant.                                                          *)

Frames == [kind : {"reply", "dn", "restart", "file"}, keys : Seq(Keys)]

\* What each variable holds (the fields of LineReader and Output, the steps of
\* Agent's loop, and the channel's frames).
ConsoleTypeOK ==
    /\ pc \in {"off", "loop", "answering", "running", "rebooting"}
    /\ reader \in Readers /\ lines \in Seq(Text) /\ reply \in Seq(Tokens) /\ out \in Outputs
    /\ sock \in {"up", "lost"} /\ srv \in {"none", "joining", "open"}
    /\ inbox \in Seq(Frames) /\ screen \in Screens
    /\ typed \in Seq(Keys) /\ answered \in Seq(Text) /\ wrote \in Seq(1..4)

\* Where the loop is and what its session has: nothing is left to answer between
\* chunks, a session that has not joined has read nothing, and the channel has
\* been answered before its reply is read.
SessionOK ==
    /\ pc = "off" => ~joined
    /\ ~joined => srv = "none" /\ inbox = <<>> /\ ~greeted
    /\ (greeted \/ \E i \in 1..Len(inbox) : inbox[i].kind = "reply") => srv # "joining"
    /\ pc \in {"off", "loop", "rebooting"} => lines = <<>> /\ reply = <<>>
    /\ pc = "running" => lines # <<>>

\* The terminal shows what Enter would submit, or will with the answer due.
Live == sock = "up" /\ srv = "open" /\ greeted /\ ~askew

DisplayOK ==
    Live => /\ pc = "loop" => screen = Prompted(reader.line)
            /\ pc = "answering" /\ lines = <<>> => Shown(screen, reply) = Prompted(reader.line)
            /\ lines # <<>> => reader.line = <<>>

\* The reader is where the keys as one text would have brought it.
ReadingOK ==
    LET f == FeedKeys(FromHere(NewReader), typed)
    IN  f.reader = reader /\ f.lines = answered \o lines

ConsoleInv == ConsoleTypeOK /\ SessionOK /\ DisplayOK /\ ReadingOK /\ Marked(out, wrote)

LEMMA Beginnings ==
    /\ NewReader \in Readers /\ NewReader.line = <<>>
    /\ NoOutput \in Outputs /\ Marked(NoOutput, <<>>)
    /\ [prompt |-> FALSE, text |-> <<>>] \in Screens
    /\ FeedKeys(FromHere(NewReader), <<>>) = FromHere(NewReader)
    /\ FromHere(NewReader) \in Feeds
<1>1. NewReader \in Readers /\ NewReader.line = <<>>
  <2>1. <<>> \in Text
    BY DEF Text
  <2> QED
    BY <2>1 DEF NewReader, Readers
<1>2. NoOutput \in Outputs
  BY DEF NoOutput, Outputs
<1>3. Marked(NoOutput, <<>>)
  <2>1. NoOutput.text = <<>> /\ ~NoOutput.truncated
    BY DEF NoOutput
  <2>2. Bytes(NoOutput.text) = 0 /\ MAX_OUTPUT \in Nat
    BY <2>1, BytesOfOne, CharactersAssumption
  <2> QED
    BY <2>1, <2>2 DEF Marked
<1>4. [prompt |-> FALSE, text |-> <<>>] \in Screens
  <2>1. <<>> \in Text
    BY DEF Text
  <2> QED
    BY <2>1 DEF Screens
<1>5. FromHere(NewReader) \in Feeds
  BY <1>1, FromHereType
<1>6. FeedKeys(FromHere(NewReader), <<>>) = FromHere(NewReader)
  <2> DEFINE none == <<>>
  <2>1. none \in Seq(Keys) /\ Len(none) = 0
    OBVIOUS
  <2> HIDE DEF none
  <2>2. PICK fed : Feeding(fed, FromHere(NewReader), none)
                   /\ FeedKeys(FromHere(NewReader), none) = fed[Len(none)]
    BY <1>5, <2>1, FeedRun
  <2> QED
    BY <2>1, <2>2 DEF Feeding, none
<1> QED
  BY <1>1, <1>2, <1>3, <1>4, <1>5, <1>6

\* The first line to answer goes from those to come to those answered.
LEMMA LinesMove ==
    ASSUME NEW done \in Seq(Text), NEW left \in Seq(Text), left # <<>>
    PROVE  /\ Head(left) \in Text /\ Tail(left) \in Seq(Text)
           /\ Append(done, Head(left)) \in Seq(Text)
           /\ Append(done, Head(left)) \o Tail(left) = done \o left
<1>1. /\ Head(left) \in Text /\ Tail(left) \in Seq(Text) /\ Append(done, Head(left)) \in Seq(Text)
      /\ <<Head(left)>> \in Seq(Text)
  OBVIOUS
<1>2. Append(done, Head(left)) = done \o <<Head(left)>>
  BY <1>1, AppendIsConcat
<1>3. <<Head(left)>> \o Tail(left) = left
  OBVIOUS
<1>4. (done \o <<Head(left)>>) \o Tail(left) = done \o (<<Head(left)>> \o Tail(left))
  BY <1>1, LinesAssociate
<1> QED
  BY <1>1, <1>2, <1>3, <1>4

\* What a send leaves on the terminal.
LEMMA Sending ==
    ASSUME screen \in Screens, NEW tokens \in Seq(Tokens), SendsConsole(tokens)
    PROVE  screen' \in Screens
BY ShownType DEF SendsConsole

LEMMA ConsoleInit ==
    Init => ConsoleInv
<1> SUFFICES ASSUME Init
             PROVE  ConsoleInv
  OBVIOUS
<1>1. ConsoleTypeOK
  <2>1. <<>> \in Seq(Text) /\ <<>> \in Seq(Tokens) /\ <<>> \in Seq(Keys) /\ <<>> \in Seq(1..4)
        /\ <<>> \in Seq(Frames)
    OBVIOUS
  <2> QED
    BY <2>1, Beginnings DEF Init, ConsoleTypeOK
<1>2. SessionOK /\ DisplayOK
  <2>1. inbox = <<>> /\ Len(<<>>) = 0
    BY DEF Init
  <2> QED
    BY <2>1 DEF Init, SessionOK, DisplayOK, Live
<1>3. ReadingOK
  <2>1. <<>> \o <<>> = <<>>
    OBVIOUS
  <2>2. FromHere(NewReader).reader = NewReader /\ FromHere(NewReader).lines = <<>>
    BY DEF FromHere
  <2> QED
    BY <2>1, <2>2, Beginnings DEF Init, ReadingOK
<1>4. Marked(out, wrote)
  BY Beginnings DEF Init
<1> QED
  BY <1>1, <1>2, <1>3, <1>4 DEF ConsoleInv

\* The chunk that dn brings.
LEMMA Chunk ==
    ASSUME ConsoleTypeOK, inbox # <<>>
    PROVE  Head(inbox).keys \in Seq(Keys) /\ Tail(inbox) \in Seq(Frames)
<1>1. Head(inbox) \in Frames /\ Tail(inbox) \in Seq(Frames)
  BY DEF ConsoleTypeOK
<1> QED
  BY <1>1 DEF Frames

\* What the operator can type in one message.
LEMMA Typing ==
    ASSUME NEW n \in Nat, NEW keys \in [1..n -> Typeable]
    PROVE  keys \in Seq(Keys)
<1>1. Typeable \subseteq Keys
  BY CharactersAssumption
<1>2. keys \in [1..n -> Keys]
  BY <1>1
<1> QED
  BY <1>2, SeqDef

LEMMA Queueing ==
    ASSUME ConsoleTypeOK, NEW kind \in {"reply", "dn", "restart", "file"}, NEW keys \in Seq(Keys)
    PROVE  LET frame == [kind |-> kind, keys |-> keys]
           IN  /\ Append(inbox, frame) \in Seq(Frames)
               /\ \A i \in 1..Len(Append(inbox, frame)) : Append(inbox, frame)[i].kind = "reply" =>
                     kind = "reply" \/ \E j \in 1..Len(inbox) : inbox[j].kind = "reply"
<1> DEFINE frame == [kind |-> kind, keys |-> keys]
           more == Append(inbox, frame)
<1>1. frame \in Frames /\ frame.kind = kind
  BY DEF Frames
<1> HIDE DEF frame
<1>2. inbox \in Seq(Frames)
  BY DEF ConsoleTypeOK
<1>3. /\ more \in Seq(Frames) /\ Len(more) = Len(inbox) + 1 /\ Len(inbox) \in Nat
      /\ more[Len(inbox) + 1] = frame /\ \A i \in 1..Len(inbox) : more[i] = inbox[i]
  BY <1>1, <1>2
<1> HIDE DEF more
<1>4. ASSUME NEW i \in 1..Len(more), more[i].kind = "reply"
      PROVE  kind = "reply" \/ \E j \in 1..Len(inbox) : inbox[j].kind = "reply"
  <2>1. CASE i \in 1..Len(inbox)
    BY <1>3, <1>4, <2>1
  <2>2. CASE i = Len(inbox) + 1
    BY <1>1, <1>3, <1>4, <2>2
  <2> QED
    BY <1>3, <2>1, <2>2
<1> QED
  BY <1>3, <1>4 DEF more, frame

LEMMA TypeStep ==
    ASSUME ConsoleTypeOK, SessionOK, Marked(out, wrote), Next
    PROVE  ConsoleTypeOK'
<1> USE DEF ConsoleTypeOK
<1>1. <<>> \in Seq(Text) /\ <<>> \in Seq(Tokens) /\ <<>> \in Seq(Keys) /\ <<>> \in Seq(1..4)
      /\ <<>> \in Seq(Frames)
  OBVIOUS
<1>2. <<"PROMPT">> \in Seq(Tokens) /\ <<"NEWLINE", "PROMPT">> \in Seq(Tokens)
      /\ <<"NEWLINE", "OUTPUT">> \in Seq(Tokens) /\ <<"OUTPUT">> \in Seq(Tokens)
  <2>1. "PROMPT" \in Tokens /\ "NEWLINE" \in Tokens /\ "OUTPUT" \in Tokens
    BY DEF Tokens, Marks
  <2> QED
    BY <2>1
<1>3. ASSUME ConsoleFails
      PROVE  ConsoleTypeOK'
  <2>1. answered \o lines \in Seq(Text)
    OBVIOUS
  <2> QED
    BY <1>1, <1>3, <2>1, Beginnings DEF ConsoleFails
<1>4. ASSUME NEW output \in Seq(Tokens), Answers(output), lines # <<>>
      PROVE  /\ screen' \in Screens /\ reply' \in Seq(Tokens) /\ answered' \in Seq(Text)
             /\ lines' \in Seq(Text) /\ pc' = "answering"
  <2>1. reply \o output \o <<"PROMPT">> \in Seq(Tokens)
    BY <1>2
  <2>2. screen' \in Screens
    BY <1>4, <2>1, Sending DEF Answers
  <2> QED
    BY <1>1, <1>4, <2>2, LinesMove DEF Answers, Line
<1>5. ASSUME NEW kind \in {"reply", "dn", "restart", "file"}, NEW keys \in Seq(Keys),
             Queues([kind |-> kind, keys |-> keys]), srv' \in {"none", "joining", "open"}
      PROVE  ConsoleTypeOK'
  <2>1. inbox' \in Seq(Frames)
    BY <1>5, Queueing DEF Queues
  <2> QED
    BY <1>5, <2>1 DEF Queues, agentVars, history
<1>6. CASE Connects
  BY <1>6 DEF Connects, history
<1>7. CASE SendConsoleJoin
  BY <1>7 DEF SendConsoleJoin, history
<1>8. CASE QuietTurn
  BY <1>8 DEF QuietTurn, vars, agentVars, netVars, history
<1>9. CASE SessionEnds
  BY <1>3, <1>9 DEF SessionEnds
<1>10. CASE HandleJoinReply
  <2>1. screen' \in Screens
    BY <1>2, <1>10, Sending DEF HandleJoinReply
  <2>2. inbox' \in Seq(Frames)
    BY <1>10, Chunk DEF HandleJoinReply, Reads
  <2> QED
    BY <1>10, <2>1, <2>2 DEF HandleJoinReply, agentVars
<1>11. CASE HandleKeys
  <2> DEFINE f == feed(reader, Head(inbox).keys)
  <2>1. Head(inbox).keys \in Seq(Keys) /\ inbox' \in Seq(Frames)
    BY <1>11, Chunk DEF HandleKeys, Reads
  <2>2. f \in Feeds
    BY <2>1, FromHereType, FeedType DEF feed
  <2>3. /\ reader' = f.reader /\ lines' = f.lines /\ reply' = f.echo
        /\ typed' = typed \o Head(inbox).keys /\ pc' = "answering"
        /\ UNCHANGED <<out, joined, sock, srv, screen, spent, answered, greeted, wrote>>
    BY <1>11 DEF HandleKeys
  <2> HIDE DEF f
  <2>4. reader' \in Readers /\ lines' \in Seq(Text) /\ reply' \in Seq(Tokens)
    BY <2>2, <2>3 DEF Feeds
  <2>5. typed' \in Seq(Keys)
    BY <2>1, <2>3
  <2> QED
    BY <2>1, <2>3, <2>4, <2>5
<1>12. CASE HandleRestart
  <2>1. inbox' \in Seq(Frames)
    BY <1>12, Chunk DEF HandleRestart, Reads
  <2> QED
    BY <1>1, <1>2, <1>12, <2>1, Beginnings DEF HandleRestart
<1>13. CASE HandleFile
  <2>1. screen' \in Screens
    BY <1>2, <1>13, Sending DEF HandleFile
  <2>2. inbox' \in Seq(Frames)
    BY <1>13, Chunk DEF HandleFile, Reads
  <2> QED
    BY <1>13, <2>1, <2>2 DEF HandleFile, agentVars
<1>14. CASE AnswerEmpty
  <2>1. Answers(<<>>) /\ lines # <<>>
    BY <1>14 DEF AnswerEmpty, Answering
  <2> QED
    BY <1>1, <1>4, <1>14, <2>1 DEF AnswerEmpty
<1>15. CASE AnswerBuiltin
  <2>1. Answers(<<"OUTPUT">>) /\ lines # <<>>
    BY <1>15 DEF AnswerBuiltin, Answering
  <2> QED
    BY <1>2, <1>4, <1>15, <2>1 DEF AnswerBuiltin
<1>16. CASE AnswerReboot
  <2>1. reply \o <<"OUTPUT">> \in Seq(Tokens)
    BY <1>2
  <2>2. screen' \in Screens
    BY <1>16, <2>1, Sending DEF AnswerReboot
  <2>3. answered \o lines \in Seq(Text)
    OBVIOUS
  <2> QED
    BY <1>1, <1>16, <2>2, <2>3 DEF AnswerReboot
<1>17. CASE AnswersEnd
  <2>1. screen' \in Screens
    BY <1>17, Sending DEF AnswersEnd
  <2> QED
    BY <1>1, <1>17, <2>1 DEF AnswersEnd, history
<1>18. CASE RunCommand
  BY <1>18 DEF RunCommand, netVars, history
<1>19. CASE CommandWrites
  <2>1. PICK s \in Pieces : out' = write_str(out, s) /\ wrote' = wrote \o s
    BY <1>19 DEF CommandWrites
  <2>2. s \in Seq(1..4)
    BY CharactersAssumption
  <2>3. out' \in Outputs /\ wrote' \in Seq(1..4)
    BY <2>1, <2>2, WriteStr
  <2> QED
    BY <1>19, <2>3 DEF CommandWrites, netVars
<1>20. CASE CommandReturns
  <2>1. PICK output \in {<<>>, <<"OUTPUT">>} : Answers(output)
    BY <1>20 DEF CommandReturns
  <2>2. lines # <<>> /\ output \in Seq(Tokens)
    BY <1>1, <1>2, <1>20 DEF CommandReturns, SessionOK
  <2> QED
    BY <1>1, <1>4, <1>20, <2>1, <2>2, Beginnings DEF CommandReturns
<1>21. CASE CommandReturnFails
  BY <1>3, <1>21 DEF CommandReturnFails
<1>22. CASE Restarts
  BY <1>1, <1>22, Beginnings DEF Restarts
<1>23. CASE ServerReplies
  BY <1>1, <1>5, <1>23 DEF ServerReplies
<1>24. CASE OperatorTypes
  <2>1. PICK n \in 1..MaxChunk : \E keys \in [1..n -> Typeable] : Queues([kind |-> "dn", keys |-> keys])
    BY <1>24 DEF OperatorTypes
  <2>2. PICK keys \in [1..n -> Typeable] : Queues([kind |-> "dn", keys |-> keys])
    BY <2>1
  <2>3. keys \in Seq(Keys)
    <3>1. n \in Nat
      BY BoundsAssumption
    <3> QED
      BY <3>1, Typing
  <2>4. srv' = srv
    BY <1>24 DEF OperatorTypes
  <2> QED
    BY <1>5, <2>2, <2>3, <2>4
<1>25. CASE OperatorRestarts
  BY <1>1, <1>5, <1>25 DEF OperatorRestarts
<1>26. CASE OperatorUploads
  BY <1>1, <1>5, <1>26 DEF OperatorUploads
<1>27. CASE ConnectionLost
  BY <1>27 DEF ConnectionLost, agentVars, history
<1> QED
  BY <1>6, <1>7, <1>8, <1>9, <1>10, <1>11, <1>12, <1>13, <1>14, <1>15, <1>16, <1>17, <1>18,
     <1>19, <1>20, <1>21, <1>22, <1>23, <1>24, <1>25, <1>26, <1>27 DEF Next, AgentNext

LEMMA TailReplies ==
    ASSUME ConsoleTypeOK, inbox # <<>>,
           \E i \in 1..Len(Tail(inbox)) : Tail(inbox)[i].kind = "reply"
    PROVE  \E i \in 1..Len(inbox) : inbox[i].kind = "reply"
<1>1. inbox \in Seq(Frames)
  BY DEF ConsoleTypeOK
<1>2. PICK i \in 1..Len(Tail(inbox)) : Tail(inbox)[i].kind = "reply"
  OBVIOUS
<1>3. i + 1 \in 1..Len(inbox) /\ Tail(inbox)[i] = inbox[i + 1]
  BY <1>1
<1> QED
  BY <1>2, <1>3

LEMMA HeadReply ==
    ASSUME ConsoleTypeOK, inbox # <<>>, Head(inbox).kind = "reply"
    PROVE  \E i \in 1..Len(inbox) : inbox[i].kind = "reply"
<1>1. inbox \in Seq(Frames)
  BY DEF ConsoleTypeOK
<1>2. 1 \in 1..Len(inbox) /\ inbox[1] = Head(inbox)
  BY <1>1
<1> QED
  BY <1>2

LEMMA SessionStep ==
    ASSUME ConsoleTypeOK, SessionOK, Next
    PROVE  SessionOK'
<1> USE DEF SessionOK
<1> DEFINE Reply == \E i \in 1..Len(inbox) : inbox[i].kind = "reply"
<1>1. ASSUME ConsoleFails
      PROVE  SessionOK'
  <2>1. Len(inbox') = 0
    BY <1>1 DEF ConsoleFails
  <2> QED
    BY <1>1, <2>1 DEF ConsoleFails
<1>2. ASSUME NEW kind, Reads(kind)
      PROVE  joined /\ inbox' = Tail(inbox) /\ pc = "loop" /\ (Reply' => Reply)
             /\ (kind = "reply" => Reply) /\ lines = <<>> /\ reply = <<>>
  BY <1>2, TailReplies, HeadReply DEF Reads
<1>3. ASSUME NEW kind \in {"reply", "dn", "restart", "file"}, NEW keys \in Seq(Keys),
             Queues([kind |-> kind, keys |-> keys]), srv \in {"joining", "open"},
             kind = "reply" \/ srv = "open", srv' \in {"open", "none"}
      PROVE  SessionOK'
  <2>1. joined
    BY <1>3
  <2> QED
    BY <1>3, <2>1 DEF Queues, agentVars, history
<1>4. CASE Connects
  BY <1>4 DEF Connects, history
<1>5. CASE SendConsoleJoin
  <2>1. inbox' = <<>> /\ ~greeted' /\ Len(<<>>) = 0
    BY <1>5 DEF SendConsoleJoin, history
  <2> QED
    BY <1>5, <2>1 DEF SendConsoleJoin, history
<1>6. CASE QuietTurn
  BY <1>6 DEF QuietTurn, vars, agentVars, netVars, history
<1>7. CASE SessionEnds \/ CommandReturnFails
  BY <1>1, <1>7 DEF SessionEnds, CommandReturnFails
<1>8. CASE HandleJoinReply
  BY <1>2, <1>8 DEF HandleJoinReply, agentVars
<1>9. CASE HandleKeys
  <2>1. /\ Reads("dn") /\ pc' = "answering"
        /\ UNCHANGED <<out, joined, sock, srv, screen, spent, answered, greeted, wrote>>
    BY <1>9 DEF HandleKeys
  <2> QED
    BY <1>2, <2>1
<1>10. CASE HandleRestart
  BY <1>2, <1>10 DEF HandleRestart
<1>11. CASE HandleFile
  BY <1>2, <1>11 DEF HandleFile, agentVars
<1>12. CASE AnswerEmpty \/ AnswerBuiltin \/ CommandReturns
  <2>1. pc' = "answering" /\ UNCHANGED <<joined, srv, inbox, greeted>>
        /\ pc \in {"answering", "running"}
    BY <1>12 DEF AnswerEmpty, AnswerBuiltin, CommandReturns, Answers, Answering
  <2> QED
    BY <2>1
<1>13. CASE AnswerReboot
  BY <1>13 DEF AnswerReboot, Answering
<1>14. CASE AnswersEnd
  BY <1>14 DEF AnswersEnd, history
<1>15. CASE RunCommand
  BY <1>15 DEF RunCommand, Answering, netVars, history
<1>16. CASE CommandWrites
  BY <1>16 DEF CommandWrites, netVars
<1>17. CASE Restarts
  <2>1. Len(inbox') = 0
    BY <1>17 DEF Restarts
  <2> QED
    BY <1>17, <2>1 DEF Restarts
<1>18. <<>> \in Seq(Keys)
  OBVIOUS
<1>19. CASE ServerReplies
  BY <1>3, <1>18, <1>19 DEF ServerReplies
<1>20. CASE OperatorTypes
  <2>1. PICK n \in 1..MaxChunk : \E keys \in [1..n -> Typeable] : Queues([kind |-> "dn", keys |-> keys])
    BY <1>20 DEF OperatorTypes
  <2>2. PICK keys \in [1..n -> Typeable] : Queues([kind |-> "dn", keys |-> keys])
    BY <2>1
  <2>3. keys \in Seq(Keys)
    <3>1. n \in Nat
      BY BoundsAssumption
    <3> QED
      BY <3>1, Typing
  <2>4. srv = "open" /\ srv' = srv
    BY <1>20 DEF OperatorTypes
  <2> QED
    BY <1>3, <2>2, <2>3, <2>4
<1>21. CASE OperatorRestarts
  BY <1>3, <1>18, <1>21 DEF OperatorRestarts
<1>22. CASE OperatorUploads
  BY <1>3, <1>18, <1>22 DEF OperatorUploads
<1>23. CASE ConnectionLost
  BY <1>23 DEF ConnectionLost, agentVars, history
<1> QED
  BY <1>4, <1>5, <1>6, <1>7, <1>8, <1>9, <1>10, <1>11, <1>12, <1>13, <1>14, <1>15, <1>16,
     <1>17, <1>19, <1>20, <1>21, <1>22, <1>23 DEF Next, AgentNext

LEMMA DisplayStep ==
    ASSUME ConsoleTypeOK, SessionOK, DisplayOK, Next
    PROVE  DisplayOK'
<1>1. screen \in Screens /\ reply \in Seq(Tokens) /\ reader \in Readers
  BY DEF ConsoleTypeOK
<1>2. ASSUME ~greeted' \/ sock' = "lost" \/ askew'
      PROVE  DisplayOK'
  BY <1>2 DEF DisplayOK, Live
<1>3. ASSUME Live => Live', Live' => Live
      PROVE  Live' <=> Live
  BY <1>3
<1>4. <<"PROMPT">> \in Seq(Tokens) /\ <<"NEWLINE">> \in Seq(Tokens) /\ <<"OUTPUT">> \in Seq(Tokens)
      /\ <<>> \in Seq(Tokens)
  <2>1. "PROMPT" \in Tokens /\ "NEWLINE" \in Tokens /\ "OUTPUT" \in Tokens
    BY DEF Tokens, Marks
  <2> QED
    BY <2>1
<1>5. \A tokens \in Seq(Tokens) : Shown(screen, tokens \o <<"PROMPT">>) = Prompted(<<>>)
  BY <1>1, ShownPrompt DEF Prompted
<1>6. ASSUME NEW output \in Seq(Tokens), Answers(output), lines # <<>>,
             UNCHANGED <<reader, sock, srv, greeted, askew>>
      PROVE  DisplayOK'
  <2>1. SUFFICES ASSUME Live'
                 PROVE  DisplayOK'
    BY DEF DisplayOK
  <2>2. Live /\ sock = "up" /\ srv = "open"
    BY <1>6, <2>1 DEF Live
  <2>3. reader'.line = <<>>
    BY <1>6, <2>2 DEF DisplayOK
  <2>4. reply \o output \in Seq(Tokens)
    BY <1>1
  <2>5. screen' = Prompted(<<>>)
    BY <1>5, <1>6, <2>2, <2>4 DEF Answers, SendsConsole
  <2>6. screen' \in Screens
    <3>1. <<>> \in Text
      BY DEF Text
    <3> QED
      BY <2>5, <3>1, PromptedShows
  <2>7. Shown(screen', reply') = screen'
    BY <1>6, <2>6, ShownNothing DEF Answers
  <2> QED
    BY <2>3, <2>5, <2>7 DEF DisplayOK
<1>7. ASSUME UNCHANGED <<pc, reader, lines, reply, screen, srv, greeted, askew>>,
             sock' = sock \/ sock' = "lost"
      PROVE  DisplayOK'
  BY <1>7 DEF DisplayOK, Live
<1>8. CASE Connects \/ SendConsoleJoin
  <2>1. ~greeted'
    BY <1>8 DEF Connects, SendConsoleJoin, SessionOK, history
  <2> QED
    BY <1>2, <2>1
<1>9. CASE QuietTurn
  BY <1>7, <1>9 DEF QuietTurn, vars, agentVars, netVars, history
<1>10. CASE SessionEnds \/ CommandReturnFails \/ Restarts
  BY <1>2, <1>10 DEF SessionEnds, CommandReturnFails, ConsoleFails, Restarts
<1>11. CASE HandleJoinReply
  <2>1. SUFFICES ASSUME Live'
                 PROVE  DisplayOK'
    BY DEF DisplayOK
  <2>2. sock = "up" /\ srv = "open" /\ reader.line = <<>>
    BY <1>11, <2>1 DEF Live, HandleJoinReply
  <2>3. Shown(screen, <<"PROMPT">>) = Prompted(<<>>)
    <3>1. <<>> \o <<"PROMPT">> = <<"PROMPT">>
      OBVIOUS
    <3> QED
      BY <1>4, <1>5, <3>1
  <2>4. screen' = Prompted(<<>>)
    BY <1>11, <2>2, <2>3 DEF HandleJoinReply, SendsConsole
  <2>5. pc' = "loop" /\ lines' = <<>> /\ reader' = reader
    BY <1>11 DEF HandleJoinReply, Reads, agentVars, SessionOK
  <2> QED
    BY <2>2, <2>4, <2>5 DEF DisplayOK
<1>12. CASE HandleKeys
  <2> DEFINE chunk == Head(inbox).keys
             f == feed(reader, chunk)
  <2>1. chunk \in Seq(Keys)
    BY <1>12, Chunk DEF HandleKeys, Reads
  <2>2. /\ reader' = f.reader /\ lines' = f.lines /\ reply' = f.echo
        /\ askew' = IF f.lines = <<>> THEN askew ELSE f.reader.line # <<>>
        /\ pc = "loop" /\ pc' = "answering"
        /\ UNCHANGED <<out, joined, sock, srv, screen, spent, answered, greeted, wrote>>
    BY <1>12 DEF HandleKeys, Reads
  <2>3. CASE f.lines = <<>>
    <3>1. SUFFICES ASSUME Live'
                   PROVE  DisplayOK'
      BY DEF DisplayOK
    <3>2. Live
      BY <2>2, <2>3, <3>1 DEF Live
    <3>3. screen = Prompted(reader.line)
      BY <2>2, <3>2 DEF DisplayOK
    <3>4. Shown(screen, f.echo) = Prompted(f.reader.line)
      <4> HIDE DEF chunk
      <4> QED
        BY <1>1, <2>1, <2>3, <3>3, EchoShows
    <3> HIDE DEF f
    <3> QED
      BY <2>2, <2>3, <3>4 DEF DisplayOK
  <2>4. CASE f.lines # <<>>
    <3> HIDE DEF f
    <3> QED
      BY <2>2, <2>4 DEF DisplayOK, Live
  <2> QED
    BY <2>3, <2>4
<1>13. CASE HandleRestart
  <2>1. Shown(screen, <<"NEWLINE", "PROMPT">>) = Prompted(<<>>)
    <3> DEFINE a == <<"NEWLINE">>
               b == <<"PROMPT">>
               ab == <<"NEWLINE", "PROMPT">>
    <3>2. /\ Len(a) = 1 /\ Len(b) = 1 /\ Len(ab) = 2 /\ a[1] = "NEWLINE" /\ b[1] = "PROMPT"
          /\ ab[1] = "NEWLINE" /\ ab[2] = "PROMPT" /\ ab \in Seq(Tokens)
      <4>1. "NEWLINE" \in Tokens /\ "PROMPT" \in Tokens
        BY DEF Tokens, Marks
      <4> QED
        BY <4>1
    <3>3. a \in Seq(Tokens) /\ b \in Seq(Tokens)
      BY <1>4
    <3> HIDE DEF a, b, ab
    <3>4. /\ a \o b \in Seq(Tokens) /\ Len(a \o b) = 2 /\ (a \o b)[1] = "NEWLINE" /\ (a \o b)[2] = "PROMPT"
      BY <3>2, <3>3, ConcatProperties
    <3>5. \A i \in 1..2 : (a \o b)[i] = ab[i]
      BY <3>2, <3>4
    <3>6. a \o b = ab
      BY <3>2, <3>4, <3>5, SeqEqual
    <3>1. <<"NEWLINE">> \o <<"PROMPT">> = <<"NEWLINE", "PROMPT">>
      BY <3>6 DEF a, b, ab
    <3> QED
      BY <1>4, <1>5, <3>1
  <2>2. reply' = <<"NEWLINE", "PROMPT">> /\ screen' = screen /\ reader' = NewReader
        /\ pc' = "answering" /\ lines' = <<>>
    BY <1>13 DEF HandleRestart, Reads, SessionOK
  <2> QED
    BY <2>1, <2>2, Beginnings DEF DisplayOK
<1>14. CASE HandleFile
  BY <1>2, <1>14 DEF HandleFile
<1>15. CASE AnswerEmpty
  BY <1>4, <1>6, <1>15 DEF AnswerEmpty, Answering
<1>16. CASE AnswerBuiltin
  BY <1>4, <1>6, <1>16 DEF AnswerBuiltin, Answering
<1>17. CASE CommandReturns
  <2>1. PICK output \in {<<>>, <<"OUTPUT">>} : Answers(output)
    BY <1>17 DEF CommandReturns
  <2>2. lines # <<>> /\ output \in Seq(Tokens)
    BY <1>4, <1>17 DEF CommandReturns, SessionOK
  <2> QED
    BY <1>6, <1>17, <2>1, <2>2 DEF CommandReturns
<1>18. CASE AnswerReboot
  BY <1>18 DEF AnswerReboot, DisplayOK
<1>19. CASE AnswersEnd
  BY <1>19 DEF AnswersEnd, SendsConsole, DisplayOK, Live, history
<1>20. CASE RunCommand
  BY <1>20 DEF RunCommand, Answering, DisplayOK, Live, netVars, history
<1>21. CASE CommandWrites
  BY <1>7, <1>21 DEF CommandWrites, netVars
<1>22. CASE ServerReplies
  <2>1. ~greeted /\ greeted' = greeted
    BY <1>22 DEF ServerReplies, Queues, history, SessionOK
  <2> QED
    BY <1>2, <2>1
<1>23. CASE OperatorTypes
  <2>1. UNCHANGED <<agentVars, sock, screen, history>> /\ srv' = srv
    BY <1>23 DEF OperatorTypes, Queues
  <2> QED
    BY <1>7, <2>1 DEF agentVars, history
<1>24. CASE OperatorRestarts \/ OperatorUploads
  <2>1. UNCHANGED <<agentVars, sock, screen, history>> /\ srv' = srv
    BY <1>24 DEF OperatorRestarts, OperatorUploads, Queues
  <2> QED
    BY <1>7, <2>1 DEF agentVars, history
<1>25. CASE ConnectionLost
  BY <1>7, <1>25 DEF ConnectionLost, agentVars, history
<1> QED
  BY <1>8, <1>9, <1>10, <1>11, <1>12, <1>13, <1>14, <1>15, <1>16, <1>17, <1>18, <1>19, <1>20,
     <1>21, <1>22, <1>23, <1>24, <1>25 DEF Next, AgentNext

LEMMA ReadingStep ==
    ASSUME ConsoleTypeOK, SessionOK, ReadingOK, Next
    PROVE  ReadingOK'
<1> DEFINE f == FeedKeys(FromHere(NewReader), typed)
<1>1. /\ f.reader = reader /\ f.lines = answered \o lines /\ f \in Feeds
      /\ answered \in Seq(Text) /\ lines \in Seq(Text)
  BY Beginnings, FeedType DEF ReadingOK, ConsoleTypeOK
<1>2. ASSUME UNCHANGED <<typed, reader>>, answered' \o lines' = answered \o lines
      PROVE  ReadingOK'
  BY <1>2 DEF ReadingOK
<1>3. ASSUME ConsoleFails
      PROVE  ReadingOK'
  <2>1. (answered \o lines) \o <<>> = answered \o lines
    BY <1>1
  <2> QED
    BY <1>2, <1>3, <2>1 DEF ConsoleFails
<1>4. ASSUME NEW output, Answers(output), lines # <<>>, UNCHANGED <<typed, reader>>
      PROVE  ReadingOK'
  <2>1. answered' \o lines' = answered \o lines
    BY <1>1, <1>4, LinesMove DEF Answers, Line
  <2> QED
    BY <1>2, <1>4, <2>1
<1>5. ASSUME reader' = NewReader, typed' = <<>>, answered' = <<>>, lines' = <<>>
      PROVE  ReadingOK'
  <2>1. FromHere(NewReader).reader = NewReader /\ FromHere(NewReader).lines = <<>>
    BY DEF FromHere
  <2>2. <<>> \o <<>> = <<>>
    OBVIOUS
  <2> QED
    BY <1>5, <2>1, <2>2, Beginnings DEF ReadingOK
<1>6. CASE HandleKeys
  <2> DEFINE chunk == Head(inbox).keys
             g == feed(reader, chunk)
             h == FeedKeys(f, chunk)
  <2>1. chunk \in Seq(Keys)
    BY <1>6, Chunk DEF HandleKeys, Reads
  <2>2. reader' = g.reader /\ lines' = g.lines /\ typed' = typed \o chunk /\ answered' = answered
        /\ lines = <<>>
    BY <1>6 DEF HandleKeys, Reads, SessionOK
  <2> HIDE DEF chunk
  <2>3. FromHere(reader) \in Feeds /\ FromHere(reader).reader = reader /\ FromHere(reader).lines = <<>>
    BY FromHereType DEF ConsoleTypeOK
  <2>4. g = FeedKeys(FromHere(reader), chunk) /\ g \in Feeds
    BY <2>1, <2>3, FeedType DEF feed
  <2> HIDE DEF g, f
  <2>5. PICK more \in Seq(Text) :
            h.lines = f.lines \o more /\ g.lines = FromHere(reader).lines \o more
    BY <1>1, <2>1, <2>3, <2>4, FeedAlike
  <2>6. h.reader = g.reader
    BY <1>1, <2>1, <2>3, <2>4, FeedAlike
  <2>7. FeedKeys(FromHere(NewReader), typed \o chunk) = h
    BY <2>1, FeedConcat, Beginnings DEF f, ConsoleTypeOK
  <2>8. g.lines = more /\ f.lines = answered
    <3>1. <<>> \o more = more /\ answered \o <<>> = answered
      BY <1>1
    <3> QED
      BY <1>1, <2>2, <2>3, <2>5, <3>1
  <2>9. h.lines = answered' \o lines' /\ h.reader = reader'
    BY <2>2, <2>5, <2>6, <2>8
  <2> HIDE DEF h
  <2> QED
    BY <2>2, <2>7, <2>9 DEF ReadingOK
<1>7. CASE Connects \/ SendConsoleJoin \/ QuietTurn \/ RunCommand \/ CommandWrites \/ AnswersEnd
  <2>1. UNCHANGED <<typed, reader, answered, lines>>
    BY <1>7 DEF Connects, SendConsoleJoin, QuietTurn, RunCommand, CommandWrites, AnswersEnd,
                vars, agentVars, netVars, history
  <2> QED
    BY <1>2, <2>1
<1>8. CASE HandleJoinReply \/ HandleFile
  <2>1. UNCHANGED <<typed, reader, answered, lines>>
    BY <1>8 DEF HandleJoinReply, HandleFile, agentVars
  <2> QED
    BY <1>2, <2>1
<1>9. CASE SessionEnds \/ CommandReturnFails
  BY <1>3, <1>9 DEF SessionEnds, CommandReturnFails
<1>10. CASE HandleRestart
  BY <1>5, <1>10 DEF HandleRestart, Reads, SessionOK
<1>11. CASE AnswerEmpty
  BY <1>4, <1>11 DEF AnswerEmpty, Answering
<1>12. CASE AnswerBuiltin
  BY <1>4, <1>12 DEF AnswerBuiltin, Answering
<1>13. CASE CommandReturns
  <2>1. PICK output : Answers(output)
    BY <1>13 DEF CommandReturns
  <2>2. lines # <<>> /\ UNCHANGED <<typed, reader>>
    BY <1>13 DEF CommandReturns, SessionOK
  <2> QED
    BY <1>4, <2>1, <2>2
<1>14. CASE AnswerReboot
  <2>1. (answered \o lines) \o <<>> = answered \o lines
    BY <1>1
  <2> QED
    BY <1>2, <1>14, <2>1 DEF AnswerReboot
<1>15. CASE Restarts
  BY <1>5, <1>15 DEF Restarts, SessionOK
<1>16. CASE ServerReplies \/ OperatorTypes \/ OperatorRestarts \/ OperatorUploads \/ ConnectionLost
  <2>1. UNCHANGED <<agentVars, history>>
    BY <1>16 DEF ServerReplies, OperatorTypes, OperatorRestarts, OperatorUploads, ConnectionLost, Queues
  <2> QED
    BY <1>2, <2>1 DEF agentVars, history
<1> QED
  BY <1>6, <1>7, <1>8, <1>9, <1>10, <1>11, <1>12, <1>13, <1>14, <1>15, <1>16 DEF Next, AgentNext

LEMMA MarkedStep ==
    ASSUME ConsoleTypeOK, Marked(out, wrote), Next
    PROVE  Marked(out, wrote)'
<1>1. ASSUME UNCHANGED <<out, wrote>>
      PROVE  Marked(out, wrote)'
  BY <1>1
<1>2. ASSUME out' = NoOutput, wrote' = <<>>
      PROVE  Marked(out, wrote)'
  BY <1>2, Beginnings
<1>3. CASE CommandWrites
  <2>1. PICK s \in Pieces : out' = write_str(out, s) /\ wrote' = wrote \o s
    BY <1>3 DEF CommandWrites
  <2>2. s \in Seq(1..4)
    BY CharactersAssumption
  <2> QED
    BY <2>1, <2>2, WriteStr DEF ConsoleTypeOK
<1>4. CASE SessionEnds \/ CommandReturnFails \/ CommandReturns
  BY <1>2, <1>4 DEF SessionEnds, CommandReturnFails, ConsoleFails, CommandReturns
<1>5. CASE Connects \/ SendConsoleJoin \/ QuietTurn \/ RunCommand \/ AnswersEnd \/ Restarts
  BY <1>1, <1>5 DEF Connects, SendConsoleJoin, QuietTurn, RunCommand, AnswersEnd, Restarts,
                    vars, agentVars, netVars, history
<1>6. CASE HandleJoinReply \/ HandleFile \/ HandleRestart
  BY <1>1, <1>6 DEF HandleJoinReply, HandleFile, HandleRestart, agentVars
<1>7. CASE HandleKeys
  BY <1>1, <1>7 DEF HandleKeys
<1>8. CASE AnswerEmpty \/ AnswerBuiltin \/ AnswerReboot
  BY <1>1, <1>8 DEF AnswerEmpty, AnswerBuiltin, AnswerReboot
<1>9. CASE ServerReplies \/ OperatorTypes \/ OperatorRestarts \/ OperatorUploads \/ ConnectionLost
  <2>1. UNCHANGED <<agentVars, history>>
    BY <1>9 DEF ServerReplies, OperatorTypes, OperatorRestarts, OperatorUploads, ConnectionLost, Queues
  <2> QED
    BY <1>1, <2>1 DEF agentVars, history
<1> QED
  BY <1>3, <1>4, <1>5, <1>6, <1>7, <1>8, <1>9 DEF Next, AgentNext

\* The reader, the terminal and the session agree in every state.
THEOREM ConsoleInvariant == Spec => []ConsoleInv
<1>1. Init => ConsoleInv
  BY ConsoleInit
<1>2. ConsoleInv /\ [Next]_vars => ConsoleInv'
  <2> SUFFICES ASSUME ConsoleInv, [Next]_vars
               PROVE  ConsoleInv'
    OBVIOUS
  <2>1. CASE Next
    BY <2>1, TypeStep, SessionStep, DisplayStep, ReadingStep, MarkedStep DEF ConsoleInv
  <2>2. CASE UNCHANGED vars
    <3> USE DEF vars, agentVars, netVars, history
    <3>1. ConsoleTypeOK' /\ SessionOK'
      BY <2>2 DEF ConsoleInv, ConsoleTypeOK, SessionOK
    <3>2. DisplayOK' /\ ReadingOK' /\ Marked(out, wrote)'
      BY <2>2 DEF ConsoleInv, DisplayOK, Live, ReadingOK
    <3> QED
      BY <3>1, <3>2 DEF ConsoleInv
  <2> QED
    BY <2>1, <2>2
<1> QED
  BY <1>1, <1>2, PTL DEF Spec

\* Nothing is missing from a command's output unmarked (Output::write_str).
THEOREM OutputIsMarked == Spec => []OutputMarked
<1>1. ConsoleInv => OutputMarked
  BY DEF ConsoleInv, OutputMarked, Marked
<1> QED
  BY <1>1, ConsoleInvariant, PTL

\* A prompt, and the line that Enter would submit (the echo of feed and the
\* prompts of answer_console).
THEOREM PromptShowsTheLine == Spec => []PromptThenLine
<1>1. ConsoleInv => PromptThenLine
  BY DEF ConsoleInv, DisplayOK, Live, PromptThenLine, Prompted
<1> QED
  BY <1>1, ConsoleInvariant, PTL

----------------------------------------------------------------------------
(* What was typed.  st is a run of the reader over keys, from its beginning: *)
(* st[n] is what feed has after n of them.                                   *)

Reading(st, keys) == Feeding(st, FromHere(NewReader), keys)

Does(f, key, g) ==
    InSequence(f, key, g) \/ BeginsSequence(f, key, g) \/ EndsLine(f, key, g) \/ EditsLine(f, key, g)

LEMMA ReadingFacts ==
    ASSUME NEW keys \in Seq(Keys), NEW st, Reading(st, keys)
    PROVE  /\ Len(keys) \in Nat /\ DOMAIN keys = 1..Len(keys)
           /\ \A n \in 0..Len(keys) : st[n] \in Feeds /\ st[n].reader \in Readers
                                      /\ st[n].reader.escape \in {"No", "Started", "Csi"}
           /\ st[0] = FromHere(NewReader)
           /\ \A n \in 1..Len(keys) : /\ n \in Nat /\ n - 1 \in 0..Len(keys) /\ n \in 0..Len(keys)
                                      /\ keys[n] \in Keys /\ Does(st[n - 1], keys[n], st[n])
<1>1. Len(keys) \in Nat /\ DOMAIN keys = 1..Len(keys)
  OBVIOUS
<1>2. \A n \in 0..Len(keys) : st[n] \in Feeds
  BY DEF Reading, Feeding
<1>3. \A n \in 0..Len(keys) : st[n].reader \in Readers
  BY <1>2 DEF Feeds
<1>4. \A n \in 0..Len(keys) : st[n].reader.escape \in {"No", "Started", "Csi"}
  BY <1>3 DEF Readers
<1>5. ASSUME NEW n \in 1..Len(keys)
      PROVE  /\ n \in Nat /\ n - 1 \in 0..Len(keys) /\ n \in 0..Len(keys)
             /\ keys[n] \in Keys /\ Does(st[n - 1], keys[n], st[n])
  <2>1. n \in Nat /\ n - 1 \in 0..Len(keys) /\ n \in 0..Len(keys) /\ keys[n] \in Keys
    BY <1>1
  <2>2. st[n] = FeedKey(st[n - 1], keys[n]) /\ st[n - 1] \in Feeds
    BY <1>2, <2>1 DEF Reading, Feeding
  <2>3. Does(st[n - 1], keys[n], st[n])
    BY <2>1, <2>2, KeyCases DEF Does
  <2> QED
    BY <2>1, <2>3
<1> QED
  BY <1>1, <1>2, <1>3, <1>4, <1>5 DEF Reading, Feeding

\* Where the reader began a sequence, and whether one has ended by n.
Starts(st, keys) == {i \in 1..Len(keys) : keys[i] = "ESC" /\ st[i - 1].reader.escape = "No"}

Closed(keys, j, n) ==
    /\ j + 1 <= n
    /\ keys[j + 1] # "[" \/ \E m \in (j + 2)..n : keys[m] \in Finals

Open(keys, j, n) ==
    /\ j + 1 <= n /\ keys[j + 1] = "["
    /\ \A m \in (j + 2)..n : keys[m] \notin Finals

\* The reader's escape state, in terms of the sequences begun.
Tracks(st, keys, n) ==
    /\ st[n].reader.escape = "No" => \A j \in Starts(st, keys) : j <= n => Closed(keys, j, n)
    /\ st[n].reader.escape = "Started" =>
          n \in Starts(st, keys) /\ \A j \in Starts(st, keys) : j < n => Closed(keys, j, n)
    /\ st[n].reader.escape = "Csi" =>
          \E j \in Starts(st, keys) :
             Open(keys, j, n) /\ \A i \in Starts(st, keys) : i <= n /\ i # j => Closed(keys, i, n)

LEMMA StaysClosed ==
    ASSUME NEW keys, NEW n \in Nat, NEW j \in Nat, Closed(keys, j, n - 1)
    PROVE  Closed(keys, j, n)
<1>1. j + 1 <= n - 1
  BY DEF Closed
<1>2. \A m \in (j + 2)..(n - 1) : m \in (j + 2)..n
  OBVIOUS
<1> QED
  BY <1>1, <1>2 DEF Closed

LEMMA EscapeTracks ==
    ASSUME NEW keys \in Seq(Keys), NEW st, Reading(st, keys)
    PROVE  \A n \in 0..Len(keys) : Tracks(st, keys, n)
<1> DEFINE L == Len(keys)
           S == Starts(st, keys)
           esc(n) == st[n].reader.escape
           T == {n \in 0..L : Tracks(st, keys, n)}
<1>1. /\ L \in Nat
      /\ \A n \in 0..L : esc(n) \in {"No", "Started", "Csi"}
      /\ \A n \in 1..L : n \in Nat /\ n - 1 \in 0..L /\ n \in 0..L /\ Does(st[n - 1], keys[n], st[n])
  BY ReadingFacts
<1>2. \A j \in S : j \in 1..L /\ j \in Nat /\ j >= 1 /\ keys[j] = "ESC" /\ esc(j - 1) = "No"
  BY <1>1 DEF Starts
<1>3. \A j \in 1..L : keys[j] = "ESC" /\ esc(j - 1) = "No" => j \in S
  BY DEF Starts
<1>4. 0 \in T
  <2>1. esc(0) = "No"
    BY ReadingFacts DEF FromHere, NewReader
  <2>2. \A j \in S : ~(j <= 0)
    BY <1>2
  <2>3. Tracks(st, keys, 0)
    BY <2>1, <2>2 DEF Tracks
  <2> QED
    BY <1>1, <2>3
<1>5. ASSUME NEW n \in 1..L, n - 1 \in T
      PROVE  n \in T
  <2>1. Tracks(st, keys, n - 1) /\ n \in Nat /\ n - 1 \in Nat /\ n \in 0..L
    BY <1>1, <1>5
  <2>2. esc(n - 1) \in {"No", "Started", "Csi"} /\ Does(st[n - 1], keys[n], st[n])
    BY <1>1
  <2>3. \A j \in S : Closed(keys, j, n - 1) => Closed(keys, j, n)
    BY <1>2, <2>1, StaysClosed
  <2>4. CASE esc(n - 1) = "No"
    <3>1. \A j \in S : j <= n - 1 => Closed(keys, j, n)
      BY <2>1, <2>3, <2>4 DEF Tracks
    <3>2. CASE keys[n] = "ESC"
      <4>1. esc(n) = "Started"
        BY <2>2, <2>4, <3>2 DEF Does, InSequence, BeginsSequence, EndsLine, EditsLine
      <4>2. n \in S
        BY <1>3, <2>4, <3>2
      <4>3. \A j \in S : j < n => Closed(keys, j, n)
        <5>1. \A j \in S : j < n => j <= n - 1
          BY <1>2, <2>1
        <5> QED
          BY <3>1, <5>1
      <4> HIDE DEF S, esc
      <4>4. st[n].reader.escape = "Started"
        BY <4>1 DEF esc
      <4>5. Tracks(st, keys, n)
        BY <4>2, <4>3, <4>4 DEF Tracks, S
      <4> QED
        BY <2>1, <4>5
    <3>3. CASE keys[n] # "ESC"
      <4>1. esc(n) = "No"
        BY <2>2, <2>4, <3>3 DEF Does, InSequence, BeginsSequence, EndsLine, EditsLine
      <4>2. \A j \in S : j <= n => Closed(keys, j, n)
        <5>1. \A j \in S : j <= n => j <= n - 1
          BY <1>2, <2>1, <3>3
        <5> QED
          BY <3>1, <5>1
      <4>3. Tracks(st, keys, n)
        BY <4>1, <4>2 DEF Tracks
      <4> QED
        BY <2>1, <4>3
    <3> QED
      BY <3>2, <3>3
  <2>5. CASE esc(n - 1) # "No"
    <3>1. n \notin S
      BY <1>2, <2>5
    <3>2. InSequence(st[n - 1], keys[n], st[n])
      BY <2>2, <2>5 DEF Does, BeginsSequence, EndsLine, EditsLine
    <3>3. CASE esc(n - 1) = "Started"
      <4>1. n - 1 \in S /\ \A j \in S : j < n - 1 => Closed(keys, j, n)
        BY <2>1, <2>3, <3>3 DEF Tracks
      <4>2. \A j \in S : j <= n /\ j # n - 1 => j < n - 1
        BY <1>2, <2>1, <3>1
      <4>3. (n - 1) + 1 = n /\ \A m \in ((n - 1) + 2)..n : FALSE
        BY <2>1
      <4>4. CASE keys[n] = "["
        <5>1. esc(n) = "Csi"
          BY <3>2, <3>3, <4>4 DEF InSequence
        <5>2. Open(keys, n - 1, n)
          BY <2>1, <4>3, <4>4 DEF Open
        <5>3. \A i \in S : i <= n /\ i # n - 1 => Closed(keys, i, n)
          BY <4>1, <4>2
        <5>4. Tracks(st, keys, n)
          BY <4>1, <5>1, <5>2, <5>3 DEF Tracks
        <5> QED
          BY <2>1, <5>4
      <4>5. CASE keys[n] # "["
        <5>1. esc(n) = "No"
          BY <3>2, <3>3, <4>5 DEF InSequence
        <5>2. Closed(keys, n - 1, n)
          BY <2>1, <4>3, <4>5 DEF Closed
        <5>3. \A j \in S : j <= n => Closed(keys, j, n)
          BY <4>1, <4>2, <5>2
        <5>4. Tracks(st, keys, n)
          BY <5>1, <5>3 DEF Tracks
        <5> QED
          BY <2>1, <5>4
      <4> QED
        BY <4>4, <4>5
    <3>4. CASE esc(n - 1) = "Csi"
      <4>1. PICK j \in S : Open(keys, j, n - 1)
                           /\ \A i \in S : i <= n - 1 /\ i # j => Closed(keys, i, n - 1)
        BY <2>1, <3>4 DEF Tracks
      <4>2. \A i \in S : i <= n /\ i # j => Closed(keys, i, n)
        <5>1. \A i \in S : i <= n => i <= n - 1
          BY <1>2, <2>1, <3>1
        <5> QED
          BY <2>3, <4>1, <5>1
      <4>3. /\ j \in Nat /\ j + 1 <= n - 1 /\ keys[j + 1] = "["
            /\ \A m \in (j + 2)..(n - 1) : keys[m] \notin Finals
        BY <1>2, <4>1 DEF Open
      <4>4. CASE keys[n] \in Finals
        <5>1. esc(n) = "No"
          BY <3>2, <3>4, <4>4 DEF InSequence
        <5>2. Closed(keys, j, n)
          <6>1. j + 1 <= n /\ n \in (j + 2)..n
            BY <2>1, <4>3
          <6> QED
            BY <4>4, <6>1 DEF Closed
        <5>3. \A i \in S : i <= n => Closed(keys, i, n)
          BY <4>2, <5>2
        <5>4. Tracks(st, keys, n)
          BY <5>1, <5>3 DEF Tracks
        <5> QED
          BY <2>1, <5>4
      <4>5. CASE keys[n] \notin Finals
        <5>1. esc(n) = "Csi"
          BY <3>2, <3>4, <4>5 DEF InSequence
        <5>2. Open(keys, j, n)
          <6>1. j + 1 <= n
            BY <2>1, <4>3
          <6>2. ASSUME NEW m \in (j + 2)..n
                PROVE  keys[m] \notin Finals
            <7>1. m = n \/ m \in (j + 2)..(n - 1)
              BY <2>1, <4>3
            <7> QED
              BY <4>3, <4>5, <7>1
          <6> QED
            BY <4>3, <6>1, <6>2 DEF Open
        <5>3. Tracks(st, keys, n)
          BY <4>2, <5>1, <5>2 DEF Tracks
        <5> QED
          BY <2>1, <5>3
      <4> QED
        BY <4>4, <4>5
    <3> QED
      BY <2>2, <2>5, <3>3, <3>4
  <2> QED
    BY <2>4, <2>5
<1> HIDE DEF T
<1>6. 0..L \subseteq T
  BY <1>1, <1>4, <1>5, CountingTo
<1> QED
  BY <1>6 DEF T

\* A closed sequence has no more keys, and an open one has the next.
LEMMA ClosedEnds ==
    ASSUME NEW keys, NEW j \in Nat, NEW n \in Nat, Closed(keys, j, n - 1)
    PROVE  n \notin SequenceAt(keys, j)
<1> SUFFICES ASSUME n \in SequenceAt(keys, j)
             PROVE  FALSE
  OBVIOUS
<1>1. j + 1 <= n - 1 /\ (keys[j + 1] # "[" \/ \E m \in (j + 2)..(n - 1) : keys[m] \in Finals)
  BY DEF Closed
<1>2. n <= j + 1 \/ (keys[j + 1] = "[" /\ \A m \in (j + 2)..(n - 1) : keys[m] \notin Finals)
  BY DEF SequenceAt
<1>3. ~(n <= j + 1)
  BY <1>1
<1> QED
  BY <1>1, <1>2, <1>3

\* What SequenceAt says of a key, by where the reader was when it met it.
LEMMA SequenceTracks ==
    ASSUME NEW keys \in Seq(Keys), NEW st, Reading(st, keys), NEW n \in 1..Len(keys)
    PROVE  st[n - 1].reader.escape = "No" <=>
              \A j \in Starts(st, keys) : j < n => n \notin SequenceAt(keys, j)
<1> DEFINE S == Starts(st, keys)
           esc == st[n - 1].reader.escape
<1>1. n \in Nat /\ n - 1 \in 0..Len(keys) /\ n - 1 \in Nat /\ Len(keys) \in Nat
      /\ esc \in {"No", "Started", "Csi"}
  BY ReadingFacts
<1>2. Tracks(st, keys, n - 1)
  BY <1>1, EscapeTracks
<1>3. \A j \in S : j \in Nat /\ j \in 1..Len(keys)
  BY <1>1 DEF Starts
<1>4. ASSUME esc = "No", NEW j \in S, j < n
      PROVE  n \notin SequenceAt(keys, j)
  <2>1. j <= n - 1
    BY <1>1, <1>3, <1>4
  <2>2. Closed(keys, j, n - 1)
    BY <1>2, <1>4, <2>1 DEF Tracks
  <2> QED
    BY <1>1, <1>3, <2>2, ClosedEnds
<1>5. ASSUME esc # "No"
      PROVE  \E j \in S : j < n /\ n \in SequenceAt(keys, j)
  <2>1. CASE esc = "Started"
    <3>1. n - 1 \in S
      BY <1>2, <2>1 DEF Tracks
    <3>2. n - 1 < n /\ n \in (n - 1)..Len(keys) /\ n <= (n - 1) + 1
      BY <1>1
    <3>3. n \in SequenceAt(keys, n - 1)
      BY <3>2 DEF SequenceAt
    <3> QED
      BY <3>1, <3>2, <3>3
  <2>2. CASE esc = "Csi"
    <3>1. PICK j \in S : Open(keys, j, n - 1)
      BY <1>2, <2>2 DEF Tracks
    <3>2. j + 1 <= n - 1 /\ keys[j + 1] = "[" /\ \A m \in (j + 2)..(n - 1) : keys[m] \notin Finals
      BY <3>1 DEF Open
    <3>3. j < n /\ n \in j..Len(keys)
      BY <1>1, <1>3, <3>2
    <3>4. n \in SequenceAt(keys, j)
      BY <3>2, <3>3 DEF SequenceAt
    <3> QED
      BY <3>3, <3>4
  <2> QED
    BY <1>1, <1>5, <2>1, <2>2
<1> QED
  BY <1>4, <1>5

IsEscapes(keys, starts) ==
    \A i \in DOMAIN keys :
        i \in starts <=>
            keys[i] = "ESC" /\ \A j \in starts : j < i => i \notin SequenceAt(keys, j)

\* There is but one such set.
LEMMA OneEscapes ==
    ASSUME NEW keys \in Seq(Keys), NEW A \in SUBSET DOMAIN keys, NEW B \in SUBSET DOMAIN keys,
           IsEscapes(keys, A), IsEscapes(keys, B)
    PROVE  A = B
<1> DEFINE L == Len(keys)
           T == {n \in 0..L : \A i \in 1..n : i \in A <=> i \in B}
<1>1. L \in Nat /\ DOMAIN keys = 1..L
  OBVIOUS
<1>2. 0 \in T
  BY <1>1
<1>3. ASSUME NEW n \in 1..L, n - 1 \in T
      PROVE  n \in T
  <2>1. n \in 0..L /\ n \in Nat /\ n \in DOMAIN keys
    BY <1>1
  <2>2. \A i \in 1..(n - 1) : i \in A <=> i \in B
    BY <1>3
  <2>3. \A j \in 1..L : j < n => j \in 1..(n - 1)
    BY <1>1, <2>1
  <2>4. \A j \in DOMAIN keys : j < n => (j \in A <=> j \in B)
    BY <1>1, <2>2, <2>3
  <2>5. n \in A <=> n \in B
    BY <2>1, <2>4 DEF IsEscapes
  <2>6. \A i \in 1..n : i = n \/ i \in 1..(n - 1)
    BY <2>1
  <2> QED
    BY <2>1, <2>2, <2>5, <2>6
<1> HIDE DEF T
<1>4. 0..L \subseteq T
  BY <1>1, <1>2, <1>3, CountingTo
<1>5. \A i \in 1..L : i \in A <=> i \in B
  <2>1. L \in 0..L
    BY <1>1
  <2>2. L \in T
    BY <1>4, <2>1
  <2> QED
    BY <2>2 DEF T
<1> QED
  BY <1>1, <1>5

LEMMA EscapesAre ==
    ASSUME NEW keys \in Seq(Keys), NEW st, Reading(st, keys)
    PROVE  Escapes(keys) = Starts(st, keys)
<1> DEFINE S == Starts(st, keys)
<1>1. Len(keys) \in Nat /\ DOMAIN keys = 1..Len(keys)
  BY ReadingFacts
<1>2. S \in SUBSET DOMAIN keys
  BY <1>1 DEF Starts
<1>3. IsEscapes(keys, S)
  <2>1. ASSUME NEW i \in DOMAIN keys
        PROVE  i \in S <=> keys[i] = "ESC" /\ \A j \in S : j < i => i \notin SequenceAt(keys, j)
    <3>1. i \in 1..Len(keys)
      BY <1>1
    <3>2. i \in S <=> keys[i] = "ESC" /\ st[i - 1].reader.escape = "No"
      BY <3>1 DEF Starts
    <3> QED
      BY <3>1, <3>2, SequenceTracks
  <2> QED
    BY <2>1 DEF IsEscapes
<1>4. Escapes(keys) = CHOOSE starts \in SUBSET DOMAIN keys : IsEscapes(keys, starts)
  BY DEF Escapes, IsEscapes
<1> HIDE DEF S
<1>5. Escapes(keys) \in SUBSET DOMAIN keys /\ IsEscapes(keys, Escapes(keys))
  BY <1>2, <1>3, <1>4, Zenon
<1> QED
  BY <1>2, <1>3, <1>5, OneEscapes DEF S

\* The keys that the reader takes outside sequences.
LEMMA PlainAre ==
    ASSUME NEW keys \in Seq(Keys), NEW st, Reading(st, keys), NEW n \in 1..Len(keys)
    PROVE  n \in Plain(keys) <=> st[n - 1].reader.escape = "No" /\ keys[n] # "ESC"
<1> DEFINE S == Starts(st, keys)
<1>1. n \in Nat /\ DOMAIN keys = 1..Len(keys) /\ Len(keys) \in Nat
  BY ReadingFacts
<1>2. n \in Plain(keys) <=> \A j \in S : n \notin SequenceAt(keys, j)
  BY <1>1, EscapesAre DEF Plain
<1>3. \A j \in S : j \in 1..Len(keys) /\ keys[j] = "ESC"
  BY DEF Starts
<1>4. \A j \in S : ~(j < n) /\ j # n => n \notin SequenceAt(keys, j)
  <2>1. \A j \in S : ~(j < n) /\ j # n => n \notin j..Len(keys)
    BY <1>1, <1>3
  <2> QED
    BY <2>1 DEF SequenceAt
<1>5. n \in SequenceAt(keys, n)
  BY <1>1 DEF SequenceAt
<1>6. n \in S <=> keys[n] = "ESC" /\ st[n - 1].reader.escape = "No"
  BY DEF Starts
<1>7. st[n - 1].reader.escape = "No" <=> \A j \in S : j < n => n \notin SequenceAt(keys, j)
  BY SequenceTracks
<1> HIDE DEF S
<1> QED
  BY <1>2, <1>3, <1>4, <1>5, <1>6, <1>7

LEMMA Pending ==
    ASSUME NEW r, NEW key,
           r = [line |-> <<>>, escape |-> "No", pending_newline |-> (key = "CR")]
    PROVE  r.pending_newline <=> key = "CR"
<1>1. CASE key = "CR"
  BY <1>1
<1>2. CASE key # "CR"
  BY <1>2
<1> QED
  BY <1>1, <1>2

\* The reader expects an LF just after a CR.
LEMMA PendingTracks ==
    ASSUME NEW keys \in Seq(Keys), NEW st, Reading(st, keys), NEW n \in 0..Len(keys)
    PROVE  st[n].reader.pending_newline <=> n \in Plain(keys) /\ keys[n] = "CR"
<1> DEFINE L == Len(keys)
           pend(m) == st[m].reader.pending_newline
           T == {m \in 0..L : /\ st[m].reader.escape # "No" => ~pend(m)
                              /\ pend(m) <=> m \in Plain(keys) /\ keys[m] = "CR"}
<1>1. /\ L \in Nat /\ st[0] = FromHere(NewReader)
      /\ \A m \in 1..L : /\ m \in 0..L /\ m - 1 \in 0..L /\ Does(st[m - 1], keys[m], st[m])
  BY ReadingFacts
<1>2. 0 \in T
  <2>1. ~pend(0) /\ st[0].reader.escape = "No"
    BY <1>1 DEF FromHere, NewReader
  <2>2. 0 \notin Plain(keys)
    <3>1. Plain(keys) \subseteq 1..L
      BY DEF Plain
    <3> QED
      BY <3>1
  <2> QED
    BY <1>1, <2>1, <2>2
<1>3. ASSUME NEW m \in 1..L, m - 1 \in T
      PROVE  m \in T
  <2>1. m \in 0..L /\ Does(st[m - 1], keys[m], st[m])
    BY <1>1
  <2>2. m \in Plain(keys) <=> st[m - 1].reader.escape = "No" /\ keys[m] # "ESC"
    BY PlainAre
  <2>3. CASE InSequence(st[m - 1], keys[m], st[m])
    <3>1. ~pend(m)
      BY <1>3, <2>3 DEF InSequence
    <3>2. m \notin Plain(keys)
      BY <2>2, <2>3 DEF InSequence
    <3> HIDE DEF pend
    <3> QED
      BY <2>1, <3>1, <3>2
  <2>4. CASE BeginsSequence(st[m - 1], keys[m], st[m])
    <3>1. ~pend(m)
      BY <2>4 DEF BeginsSequence
    <3>2. m \notin Plain(keys)
      BY <2>2, <2>4 DEF BeginsSequence
    <3> HIDE DEF pend
    <3> QED
      BY <2>1, <3>1, <3>2
  <2>5. CASE EndsLine(st[m - 1], keys[m], st[m])
    <3>3. st[m].reader = [line |-> <<>>, escape |-> "No", pending_newline |-> (keys[m] = "CR")]
      BY <2>5 DEF EndsLine
    <3>1. pend(m) <=> keys[m] = "CR"
      BY <3>3, Pending
    <3>2. m \in Plain(keys) /\ st[m].reader.escape = "No"
      BY <2>2, <2>5 DEF EndsLine
    <3> HIDE DEF pend
    <3> QED
      BY <2>1, <3>1, <3>2
  <2>6. CASE EditsLine(st[m - 1], keys[m], st[m])
    <3>1. ~pend(m) /\ keys[m] # "CR"
      BY <2>6 DEF EditsLine
    <3> HIDE DEF pend
    <3> QED
      BY <2>1, <3>1
  <2> QED
    BY <2>1, <2>3, <2>4, <2>5, <2>6 DEF Does
<1> HIDE DEF T
<1>4. 0..L \subseteq T
  BY <1>1, <1>2, <1>3, CountingTo
<1> QED
  BY <1>4 DEF T

\* Where Enter was pressed the reader ends a line, and nowhere else.
LEMMA EntersAre ==
    ASSUME NEW keys \in Seq(Keys), NEW st, Reading(st, keys), NEW n \in 1..Len(keys)
    PROVE  /\ n \in Enters(keys) => EndsLine(st[n - 1], keys[n], st[n])
           /\ n \in Plain(keys) /\ n \notin Enters(keys) => EditsLine(st[n - 1], keys[n], st[n])
           /\ n \notin Plain(keys) =>
                 n \notin Enters(keys) /\ (InSequence(st[n - 1], keys[n], st[n])
                                           \/ BeginsSequence(st[n - 1], keys[n], st[n]))
<1>1. n - 1 \in 0..Len(keys) /\ Does(st[n - 1], keys[n], st[n])
  BY ReadingFacts
<1>2. n \in Plain(keys) <=> st[n - 1].reader.escape = "No" /\ keys[n] # "ESC"
  BY PlainAre
<1>3. st[n - 1].reader.pending_newline <=> n - 1 \in Plain(keys) /\ keys[n - 1] = "CR"
  BY <1>1, PendingTracks
<1>4. n \in Enters(keys) <=>
        /\ n \in Plain(keys)
        /\ keys[n] = "CR" \/ (keys[n] = "LF" /\ ~st[n - 1].reader.pending_newline)
  BY <1>3 DEF Enters
<1>5. CASE InSequence(st[n - 1], keys[n], st[n])
  BY <1>2, <1>4, <1>5 DEF InSequence
<1>6. CASE BeginsSequence(st[n - 1], keys[n], st[n])
  BY <1>2, <1>4, <1>6 DEF BeginsSequence
<1>7. CASE EndsLine(st[n - 1], keys[n], st[n])
  BY <1>2, <1>4, <1>7 DEF EndsLine
<1>8. CASE EditsLine(st[n - 1], keys[n], st[n])
  BY <1>2, <1>4, <1>8 DEF EditsLine
<1> QED
  BY <1>1, <1>5, <1>6, <1>7, <1>8 DEF Does

\* The line being typed, key by key.
LEMMA LineTracks ==
    ASSUME NEW keys \in Seq(Keys), NEW st, Reading(st, keys), NEW n \in 1..Len(keys)
    PROVE  st[n].reader.line =
              (IF n \in Enters(keys) THEN <<>>
               ELSE IF n \in Plain(keys) THEN Edit(st[n - 1].reader.line, keys[n])
               ELSE st[n - 1].reader.line)
<1>1. CASE n \in Enters(keys)
  <2>1. EndsLine(st[n - 1], keys[n], st[n])
    BY <1>1, EntersAre
  <2>2. st[n].reader.line = <<>>
    BY <2>1 DEF EndsLine
  <2> QED
    BY <1>1, <2>2
<1>2. CASE n \notin Enters(keys) /\ n \in Plain(keys)
  <2>1. EditsLine(st[n - 1], keys[n], st[n])
    BY <1>2, EntersAre
  <2>2. st[n].reader.line = Edit(st[n - 1].reader.line, keys[n])
    BY <2>1 DEF EditsLine
  <2> QED
    BY <1>2, <2>2
<1>3. CASE n \notin Enters(keys) /\ n \notin Plain(keys)
  <2>1. InSequence(st[n - 1], keys[n], st[n]) \/ BeginsSequence(st[n - 1], keys[n], st[n])
    BY <1>3, EntersAre
  <2>2. st[n].reader.line = st[n - 1].reader.line
    BY <2>1 DEF InSequence, BeginsSequence
  <2> QED
    BY <1>3, <2>2
<1> QED
  BY <1>1, <1>2, <1>3

LEMMA LineBeforeIs ==
    ASSUME NEW keys \in Seq(Keys), NEW st, Reading(st, keys), NEW e \in 1..Len(keys)
    PROVE  LineBefore(keys, e) = st[e - 1].reader.line
<1> DEFINE L == Len(keys)
           Run(g) == g = [n \in 0..L |->
                            IF n = 0 \/ n \in Enters(keys) THEN <<>>
                            ELSE IF n \in Plain(keys) THEN Edit(g[n - 1], keys[n])
                            ELSE g[n - 1]]
           line == CHOOSE g : Run(g)
           run == [n \in 0..L |-> st[n].reader.line]
<1>1. L \in Nat /\ st[0] = FromHere(NewReader) /\ \A n \in 1..L : n \in Nat /\ n - 1 \in 0..L /\ n \in 0..L
  BY ReadingFacts
<1>2. DOMAIN run = 0..L /\ \A n \in 0..L : run[n] = st[n].reader.line
  OBVIOUS
<1>3. run = [n \in 0..L |-> run[n]]
  OBVIOUS
<1> HIDE DEF run
<1>4. run[0] = <<>>
  BY <1>1, <1>2 DEF FromHere, NewReader
<1>5. \A n \in 1..L : run[n] = IF n \in Enters(keys) THEN <<>>
                               ELSE IF n \in Plain(keys) THEN Edit(run[n - 1], keys[n])
                               ELSE run[n - 1]
  BY <1>1, <1>2, LineTracks
<1>6. \A n \in 0..L : n = 0 \/ (n # 0 /\ n \in 1..L)
  BY <1>1
<1>7. Run(run)
  BY <1>3, <1>4, <1>5, <1>6
<1>8. Run(line)
  BY <1>7, Zenon
<1>9. LineBefore(keys, e) = line[e - 1]
  BY DEF LineBefore
<1> HIDE DEF line
<1>10. \A n \in 0..L : line[n] = IF n = 0 \/ n \in Enters(keys) THEN <<>>
                                 ELSE IF n \in Plain(keys) THEN Edit(line[n - 1], keys[n])
                                 ELSE line[n - 1]
  BY <1>8
<1>11. GoAlike(L, line, run)
  <2>1. line[0] = run[0]
    BY <1>1, <1>4, <1>10
  <2>2. \A n \in 1..L : line[n - 1] = run[n - 1] => line[n] = run[n]
    <3>1. \A n \in 1..L : n # 0 /\ n \in 0..L
      BY <1>1
    <3> QED
      BY <1>5, <1>10, <3>1
  <2> QED
    BY <2>1, <2>2 DEF GoAlike
<1>12. Alike(L, line, run)
  BY <1>1, <1>11, SameRun
<1> QED
  BY <1>1, <1>2, <1>9, <1>12 DEF Alike

\* How many Enters there are up to n.
Count(keys, n) == Cardinality({d \in Enters(keys) : d <= n})

LEMMA CountStep ==
    ASSUME NEW keys \in Seq(Keys), NEW n \in 1..Len(keys)
    PROVE  /\ Count(keys, 0) = 0 /\ Count(keys, n) \in Nat /\ Count(keys, n - 1) \in Nat
           /\ n \in Enters(keys) => Count(keys, n) = Count(keys, n - 1) + 1
           /\ n \notin Enters(keys) => Count(keys, n) = Count(keys, n - 1)
<1> DEFINE E == Enters(keys)
           L == Len(keys)
           now == {d \in E : d <= n}
           before == {d \in E : d <= n - 1}
<1>1. L \in Nat /\ n \in Nat /\ n - 1 \in Nat
  OBVIOUS
<1>2. E \subseteq 1..L
  BY DEF Enters, Plain
<1> HIDE DEF E
<1>3. IsFiniteSet(1..L)
  <2>1. 1 \in Int /\ L \in Int
    BY <1>1
  <2> QED
    BY <2>1, FS_Interval
<1>4. IsFiniteSet(E)
  BY <1>2, <1>3, FS_Subset
<1>5. now \subseteq E /\ before \subseteq E
  OBVIOUS
<1>6. IsFiniteSet(now) /\ IsFiniteSet(before)
  BY <1>4, <1>5, FS_Subset
<1>7. Cardinality(now) \in Nat /\ Cardinality(before) \in Nat
  BY <1>6, FS_CardinalityType
<1>12. \A d \in E : ~(d <= 0) /\ (d <= n <=> d <= n - 1 \/ d = n) /\ ~(n <= n - 1)
  <2>1. \A d \in 1..L : ~(d <= 0) /\ (d <= n <=> d <= n - 1 \/ d = n) /\ ~(n <= n - 1)
    BY <1>1
  <2> QED
    BY <1>2, <2>1
<1>8. {d \in E : d <= 0} = {}
  BY <1>12
<1>9. Cardinality({d \in E : d <= 0}) = 0
  BY <1>8, FS_EmptySet
<1>10. ASSUME n \in E
       PROVE  Cardinality(now) = Cardinality(before) + 1
  <2>1. now = before \cup {n} /\ n \notin before
    BY <1>10, <1>12
  <2> HIDE DEF now, before
  <2> QED
    BY <1>6, <2>1, FS_AddElement
<1>11. ASSUME n \notin E
       PROVE  now = before
  BY <1>11, <1>12
<1> QED
  BY <1>7, <1>9, <1>10, <1>11 DEF Count, E

\* The lines the reader has ended are as many as the Enters, and each is the line
\* typed before its own.
LEMMA LinesTrack ==
    ASSUME NEW keys \in Seq(Keys), NEW st, Reading(st, keys)
    PROVE  \A n \in 0..Len(keys) :
              /\ Len(st[n].lines) = Count(keys, n)
              /\ \A e \in Enters(keys) : e <= n =>
                    Count(keys, e) \in 1..Count(keys, n)
                    /\ st[n].lines[Count(keys, e)] = LineBefore(keys, e)
<1> DEFINE L == Len(keys)
           E == Enters(keys)
           Good(n) == /\ Len(st[n].lines) = Count(keys, n)
                      /\ \A e \in E : e <= n =>
                            Count(keys, e) \in 1..Count(keys, n)
                            /\ st[n].lines[Count(keys, e)] = LineBefore(keys, e)
           T == {n \in 0..L : Good(n)}
<1>1. /\ L \in Nat /\ st[0] = FromHere(NewReader)
      /\ \A n \in 1..L : n \in Nat /\ n \in 0..L /\ n - 1 \in 0..L
      /\ \A n \in 0..L : st[n] \in Feeds
  BY ReadingFacts
<1>2. E \subseteq 1..L
  BY DEF Enters, Plain
<1>3. Count(keys, 0) = 0
  <2>1. {d \in Enters(keys) : d <= 0} = {}
    BY <1>1, <1>2
  <2> QED
    BY <2>1, FS_EmptySet DEF Count
<1>4. 0 \in T
  <2>1. Len(st[0].lines) = 0
    BY <1>1 DEF FromHere
  <2>2. \A e \in E : ~(e <= 0)
    BY <1>1, <1>2
  <2> QED
    BY <1>1, <1>3, <2>1, <2>2
<1>5. ASSUME NEW n \in 1..L, n - 1 \in T
      PROVE  n \in T
  <2> DEFINE c == Count(keys, n)
             b == Count(keys, n - 1)
             was == st[n - 1].lines
             is == st[n].lines
  <2>1. /\ n \in Nat /\ n \in 0..L /\ n - 1 \in 0..L /\ b \in Nat
        /\ n \in E => c = b + 1
        /\ n \notin E => c = b
    BY <1>1, CountStep
  <2>2. Len(was) = b /\ \A e \in E : e <= n - 1 =>
                            Count(keys, e) \in 1..b /\ was[Count(keys, e)] = LineBefore(keys, e)
    BY <1>5
  <2>3. \A e \in E : e <= n => e = n \/ e <= n - 1
    BY <1>1, <1>2, <2>1
  <2>4. st[n - 1] \in Feeds
    BY <1>1, <2>1
  <2>5. was \in Seq(Text) /\ st[n - 1].reader.line \in Text
    BY <2>4 DEF Feeds, Readers
  <2>6. CASE n \in E
    <3>1. EndsLine(st[n - 1], keys[n], st[n])
      BY <2>6, EntersAre
    <3>2. is = Append(was, st[n - 1].reader.line)
      BY <3>1 DEF EndsLine
    <3>3. LineBefore(keys, n) = st[n - 1].reader.line
      BY LineBeforeIs
    <3> HIDE DEF was, is, b, c, E
    <3>4. Len(is) = c /\ is[c] = LineBefore(keys, n) /\ \A i \in 1..b : is[i] = was[i] /\ i \in 1..c
      BY <2>1, <2>2, <2>5, <2>6, <3>2, <3>3
    <3>5. c \in 1..c
      BY <2>1, <2>6
    <3>6. ASSUME NEW e \in E, e <= n
          PROVE  Count(keys, e) \in 1..c /\ is[Count(keys, e)] = LineBefore(keys, e)
      <4>1. CASE e = n
        BY <3>4, <3>5, <4>1 DEF c
      <4>2. CASE e <= n - 1
        BY <2>2, <3>4, <4>2
      <4> QED
        BY <2>3, <3>6, <4>1, <4>2
    <3> QED
      BY <2>1, <3>4, <3>6 DEF is, c
  <2>7. CASE n \notin E
    <3>4. EditsLine(st[n - 1], keys[n], st[n]) \/ InSequence(st[n - 1], keys[n], st[n])
          \/ BeginsSequence(st[n - 1], keys[n], st[n])
      BY <2>7, EntersAre
    <3>1. is = was
      BY <3>4 DEF EditsLine, InSequence, BeginsSequence, LeavesLines
    <3> HIDE DEF was, is, b, c, E
    <3>2. ASSUME NEW e \in E, e <= n
          PROVE  Count(keys, e) \in 1..c /\ is[Count(keys, e)] = LineBefore(keys, e)
      <4>1. e <= n - 1
        BY <2>3, <2>7, <3>2
      <4> QED
        BY <2>1, <2>2, <2>7, <3>1, <4>1
    <3>3. Len(is) = c
      BY <2>1, <2>2, <2>7, <3>1
    <3> QED
      BY <2>1, <3>2, <3>3 DEF is, c
  <2> QED
    BY <2>6, <2>7
<1> HIDE DEF T
<1>6. 0..L \subseteq T
  BY <1>1, <1>4, <1>5, CountingTo
<1> QED
  BY <1>6 DEF T

\* The lines taken for commands are those of the keys as one text (LineReader's
\* feed, and the reader's place in Agent).
THEOREM WhatRunsWasTyped == Spec => []RunsWhatWasTyped
<1>1. ASSUME ConsoleInv
      PROVE  RunsWhatWasTyped
  <2> DEFINE L == Len(typed)
             taken == answered \o lines
  <2>1. typed \in Seq(Keys) /\ FromHere(NewReader) \in Feeds
    BY <1>1, Beginnings DEF ConsoleInv, ConsoleTypeOK
  <2>2. PICK st : Feeding(st, FromHere(NewReader), typed)
                  /\ FeedKeys(FromHere(NewReader), typed) = st[L]
    BY <2>1, FeedRun
  <2>3. Reading(st, typed) /\ st[L].lines = taken
    BY <1>1, <2>2 DEF Reading, ConsoleInv, ReadingOK
  <2>4. L \in Nat /\ L \in 0..L
    BY <2>1
  <2>5. Enters(typed) \subseteq 1..L
    BY DEF Enters, Plain
  <2>6. {d \in Enters(typed) : d <= L} = Enters(typed)
    BY <2>4, <2>5
  <2>7. Count(typed, L) = Cardinality(Enters(typed))
    BY <2>6 DEF Count
  <2>8. /\ Len(st[L].lines) = Count(typed, L)
        /\ \A e \in Enters(typed) : e <= L => st[L].lines[Count(typed, e)] = LineBefore(typed, e)
    BY <2>1, <2>3, <2>4, LinesTrack
  <2>9. \A e \in Enters(typed) : e <= L
    BY <2>4, <2>5
  <2> HIDE DEF L, taken
  <2>10. Len(taken) = Cardinality(Enters(typed))
         /\ \A e \in Enters(typed) : taken[Count(typed, e)] = LineBefore(typed, e)
    BY <2>3, <2>7, <2>8, <2>9
  <2> QED
    BY <2>10 DEF RunsWhatWasTyped, Count, taken
<1> QED
  BY <1>1, ConsoleInvariant, PTL


============================================================================
