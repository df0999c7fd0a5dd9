--------------------------- MODULE FreelistProofs ---------------------------
(***************************************************************************)
(* The three maps of the hashmap backend are a set of free ids: allocation *)
(* from them is allocation from that set, for any number of pages.         *)
(***************************************************************************)
EXTENDS FreelistHmap, FiniteSetTheorems, TLAPS

\* The spans are apart, with at least one id between two of them, and the other
\* two maps list the same spans by their ends and by their sizes.
SpansOK(h) ==
  /\ \A s \in DOMAIN h.fwd : s \in Int /\ h.fwd[s] \in Nat \ {0}
  /\ \A s, t \in DOMAIN h.fwd : s < t => s + h.fwd[s] < t
  /\ DOMAIN h.bwd = {s + h.fwd[s] - 1 : s \in DOMAIN h.fwd}
  /\ \A s \in DOMAIN h.fwd : h.bwd[s + h.fwd[s] - 1] = h.fwd[s]
  /\ DOMAIN h.sizes = {h.fwd[s] : s \in DOMAIN h.fwd}
  /\ \A k \in DOMAIN h.sizes : h.sizes[k] = {s \in DOMAIN h.fwd : h.fwd[s] = k}

\* The ids of the spans.
LEMMA FreeIs ==
  ASSUME NEW h, SpansOK(h), NEW p \in Int
  PROVE  p \in FreeIDs(h) <=> \E s \in DOMAIN h.fwd : s <= p /\ p < s + h.fwd[s]
<1>1. \A s \in DOMAIN h.fwd : s \in Int /\ h.fwd[s] \in Nat
  BY DEF SpansOK
<1>2. \A s \in DOMAIN h.fwd : p \in Run(s, h.fwd[s]) <=> s <= p /\ p < s + h.fwd[s]
  BY <1>1 DEF Run
<1> QED
  BY <1>2, Zenon DEF FreeIDs

\* Only numbers are free.
LEMMA FreeInt ==
  ASSUME NEW h, SpansOK(h)
  PROVE  FreeIDs(h) \subseteq Int
BY DEF FreeIDs, SpansOK, Run

\* addSpan of a span that touches no other.
LEMMA AddSpanOK ==
  ASSUME NEW h, SpansOK(h), NEW s \in Int, NEW k \in Nat \ {0},
         \A t \in DOMAIN h.fwd : t + h.fwd[t] < s \/ s + k < t
  PROVE  LET g == addSpan(h, s, k)
         IN  /\ SpansOK(g)
             /\ DOMAIN g.fwd = DOMAIN h.fwd \cup {s}
             /\ g.fwd[s] = k
             /\ \A t \in DOMAIN h.fwd : g.fwd[t] = h.fwd[t]
             /\ FreeIDs(g) = FreeIDs(h) \cup Run(s, k)
<1> DEFINE g == addSpan(h, s, k)
<1>1. \A t \in DOMAIN h.fwd : t \in Int /\ h.fwd[t] \in Nat \ {0}
  BY DEF SpansOK
<1>2. s \notin DOMAIN h.fwd
  BY <1>1
<1>3. /\ DOMAIN g.fwd = DOMAIN h.fwd \cup {s}
      /\ g.fwd[s] = k
      /\ \A t \in DOMAIN h.fwd : g.fwd[t] = h.fwd[t]
  BY <1>2 DEF addSpan, Assign
<1>4. /\ DOMAIN g.bwd = DOMAIN h.bwd \cup {s - 1 + k}
      /\ g.bwd[s - 1 + k] = k
      /\ \A e \in DOMAIN h.bwd : e # s - 1 + k => g.bwd[e] = h.bwd[e]
  BY DEF addSpan, Assign
<1>5. /\ DOMAIN g.sizes = DOMAIN h.sizes \cup {k}
      /\ g.sizes[k] = {s} \cup IF k \in DOMAIN h.sizes THEN h.sizes[k] ELSE {}
      /\ \A j \in DOMAIN h.sizes : j # k => g.sizes[j] = h.sizes[j]
  BY DEF addSpan, Assign
<1> HIDE DEF g
<1>6. \A t \in DOMAIN g.fwd : t \in Int /\ g.fwd[t] \in Nat \ {0}
  BY <1>1, <1>3
<1>7. \A t, u \in DOMAIN g.fwd : t < u => t + g.fwd[t] < u
  BY <1>1, <1>3 DEF SpansOK
<1>8. DOMAIN g.bwd = {t + g.fwd[t] - 1 : t \in DOMAIN g.fwd}
  <2>1. DOMAIN h.bwd = {t + h.fwd[t] - 1 : t \in DOMAIN h.fwd}
    BY DEF SpansOK
  <2>2. s - 1 + k = s + k - 1
    OBVIOUS
  <2> QED
    BY <1>3, <1>4, <2>1, <2>2
<1>9. ASSUME NEW t \in DOMAIN g.fwd PROVE g.bwd[t + g.fwd[t] - 1] = g.fwd[t]
  <2>1. CASE t = s
    <3>1. s + k - 1 = s - 1 + k
      OBVIOUS
    <3> QED
      BY <1>3, <1>4, <2>1, <3>1
  <2>2. CASE t # s
    <3>1. t \in DOMAIN h.fwd /\ g.fwd[t] = h.fwd[t]
      BY <1>3, <2>2
    <3>2. t + h.fwd[t] - 1 # s - 1 + k
      BY <1>1, <3>1
    <3>3. t + h.fwd[t] - 1 \in DOMAIN h.bwd /\ h.bwd[t + h.fwd[t] - 1] = h.fwd[t]
      BY <3>1 DEF SpansOK
    <3> QED
      BY <1>4, <3>1, <3>2, <3>3
  <2> QED
    BY <2>1, <2>2
<1>10. DOMAIN g.sizes = {g.fwd[t] : t \in DOMAIN g.fwd}
  <2>1. DOMAIN h.sizes = {h.fwd[t] : t \in DOMAIN h.fwd}
    BY DEF SpansOK
  <2> QED
    BY <1>3, <1>5, <2>1
<1>11. ASSUME NEW j \in DOMAIN g.sizes
       PROVE  g.sizes[j] = {t \in DOMAIN g.fwd : g.fwd[t] = j}
  <2>1. \A i \in DOMAIN h.sizes : h.sizes[i] = {t \in DOMAIN h.fwd : h.fwd[t] = i}
    BY DEF SpansOK
  <2>2. k \notin DOMAIN h.sizes => \A t \in DOMAIN h.fwd : h.fwd[t] # k
    BY DEF SpansOK
  <2>3. CASE j = k
    BY <1>2, <1>3, <1>5, <2>1, <2>2, <2>3
  <2>4. CASE j # k
    <3>1. j \in DOMAIN h.sizes /\ g.sizes[j] = h.sizes[j]
      BY <1>5, <2>4
    <3> QED
      BY <1>2, <1>3, <2>1, <2>4, <3>1
  <2> QED
    BY <2>3, <2>4
<1>12. SpansOK(g)
  BY <1>6, <1>7, <1>8, <1>9, <1>10, <1>11 DEF SpansOK
<1>13. FreeIDs(g) = FreeIDs(h) \cup Run(s, k)
  <2>1. ASSUME NEW q \in Int
        PROVE  q \in FreeIDs(g) <=> q \in FreeIDs(h) \/ q \in Run(s, k)
    <3>1. q \in FreeIDs(g) <=> \E t \in DOMAIN g.fwd : t <= q /\ q < t + g.fwd[t]
      BY <1>12, FreeIs
    <3>2. q \in FreeIDs(h) <=> \E t \in DOMAIN h.fwd : t <= q /\ q < t + h.fwd[t]
      BY FreeIs
    <3>3. q \in Run(s, k) <=> s <= q /\ q < s + k
      BY DEF Run
    <3> QED
      BY <1>3, <3>1, <3>2, <3>3
  <2>2. FreeIDs(g) \subseteq Int /\ FreeIDs(h) \subseteq Int
    BY <1>12, FreeInt
  <2>3. Run(s, k) \subseteq Int
    BY DEF Run
  <2> QED
    BY <2>1, <2>2, <2>3
<1> QED
  BY <1>3, <1>12, <1>13 DEF g

\* delSpan of a span.
LEMMA DelSpanOK ==
  ASSUME NEW h, SpansOK(h), NEW s \in DOMAIN h.fwd
  PROVE  LET g == delSpan(h, s, h.fwd[s])
         IN  /\ SpansOK(g)
             /\ DOMAIN g.fwd = DOMAIN h.fwd \ {s}
             /\ \A t \in DOMAIN g.fwd : g.fwd[t] = h.fwd[t]
             /\ FreeIDs(g) = FreeIDs(h) \ Run(s, h.fwd[s])
<1> DEFINE k == h.fwd[s]
           g == delSpan(h, s, k)
           rest == h.sizes[k] \ {s}
<1>1. \A t \in DOMAIN h.fwd : t \in Int /\ h.fwd[t] \in Nat \ {0}
  BY DEF SpansOK
<1>2. \A t, u \in DOMAIN h.fwd : t < u => t + h.fwd[t] < u
  BY DEF SpansOK
<1>3. /\ DOMAIN g.fwd = DOMAIN h.fwd \ {s}
      /\ \A t \in DOMAIN g.fwd : g.fwd[t] = h.fwd[t]
  BY DEF delSpan, Delete
<1>4. /\ DOMAIN g.bwd = DOMAIN h.bwd \ {s + k - 1}
      /\ \A e \in DOMAIN g.bwd : g.bwd[e] = h.bwd[e]
  BY DEF delSpan, Delete
<1>5. k \in DOMAIN h.sizes /\ h.sizes[k] = {t \in DOMAIN h.fwd : h.fwd[t] = k}
  BY DEF SpansOK
<1>6. /\ DOMAIN g.sizes = IF rest = {} THEN DOMAIN h.sizes \ {k} ELSE DOMAIN h.sizes
      /\ rest # {} => g.sizes[k] = rest
      /\ \A j \in DOMAIN g.sizes : j # k => g.sizes[j] = h.sizes[j]
  BY <1>5 DEF delSpan, Delete, Assign
<1>7. rest = {t \in DOMAIN g.fwd : g.fwd[t] = k}
  BY <1>3, <1>5
<1> HIDE DEF g, rest
<1>8. \A t, u \in DOMAIN g.fwd : t < u => t + g.fwd[t] < u
  BY <1>2, <1>3
<1>9. \A t \in DOMAIN g.fwd : t + g.fwd[t] - 1 # s + k - 1
  BY <1>1, <1>2, <1>3
<1>10. DOMAIN g.bwd = {t + g.fwd[t] - 1 : t \in DOMAIN g.fwd}
  <2>1. DOMAIN h.bwd = {t + h.fwd[t] - 1 : t \in DOMAIN h.fwd}
    BY DEF SpansOK
  <2> QED
    BY <1>3, <1>4, <1>9, <2>1
<1>11. ASSUME NEW t \in DOMAIN g.fwd PROVE g.bwd[t + g.fwd[t] - 1] = g.fwd[t]
  <2>1. t \in DOMAIN h.fwd /\ g.fwd[t] = h.fwd[t]
    BY <1>3
  <2>2. t + g.fwd[t] - 1 \in DOMAIN g.bwd
    BY <1>10
  <2>3. h.bwd[t + h.fwd[t] - 1] = h.fwd[t]
    BY <2>1 DEF SpansOK
  <2> QED
    BY <1>4, <2>1, <2>2, <2>3
<1>12. ASSUME NEW j \in DOMAIN g.sizes
       PROVE  g.sizes[j] = {t \in DOMAIN g.fwd : g.fwd[t] = j}
  <2>1. CASE j = k
    BY <1>6, <1>7, <2>1
  <2>2. CASE j # k
    <3>1. j \in DOMAIN h.sizes /\ g.sizes[j] = h.sizes[j]
      BY <1>6, <2>2
    <3>2. h.sizes[j] = {t \in DOMAIN h.fwd : h.fwd[t] = j}
      BY <3>1 DEF SpansOK
    <3> QED
      BY <1>3, <2>2, <3>1, <3>2
  <2> QED
    BY <2>1, <2>2
<1>13. DOMAIN g.sizes = {g.fwd[t] : t \in DOMAIN g.fwd}
  <2>1. DOMAIN h.sizes = {h.fwd[t] : t \in DOMAIN h.fwd}
    BY DEF SpansOK
  <2>2. ASSUME NEW j \in DOMAIN g.sizes PROVE \E t \in DOMAIN g.fwd : g.fwd[t] = j
    <3>1. CASE j = k
      BY <1>6, <1>7, <2>2, <3>1
    <3>2. CASE j # k
      BY <1>3, <1>6, <2>1, <3>2
    <3> QED
      BY <3>1, <3>2
  <2>3. ASSUME NEW t \in DOMAIN g.fwd PROVE g.fwd[t] \in DOMAIN g.sizes
    BY <1>3, <1>6, <1>7, <2>1
  <2> QED
    BY <2>2, <2>3
<1>14. SpansOK(g)
  BY <1>1, <1>3, <1>8, <1>10, <1>11, <1>12, <1>13 DEF SpansOK
<1>15. FreeIDs(g) = FreeIDs(h) \ Run(s, k)
  <2>1. ASSUME NEW q \in Int
        PROVE  q \in FreeIDs(g) <=> q \in FreeIDs(h) /\ q \notin Run(s, k)
    <3>1. q \in FreeIDs(g) <=> \E t \in DOMAIN g.fwd : t <= q /\ q < t + g.fwd[t]
      BY <1>14, FreeIs
    <3>2. q \in FreeIDs(h) <=> \E t \in DOMAIN h.fwd : t <= q /\ q < t + h.fwd[t]
      BY FreeIs
    <3>3. q \in Run(s, k) <=> s <= q /\ q < s + k
      BY <1>1 DEF Run
    <3> QED
      BY <1>1, <1>2, <1>3, <3>1, <3>2, <3>3
  <2>2. FreeIDs(g) \subseteq Int /\ FreeIDs(h) \subseteq Int
    BY <1>14, FreeInt
  <2> QED
    BY <2>1, <2>2
<1> QED
  BY <1>3, <1>14, <1>15 DEF g

\* mergeWithExistingSpan of an id that is not free adds it to the set.
LEMMA MergeOK ==
  ASSUME NEW h, SpansOK(h), NEW pid \in Int, pid \notin FreeIDs(h)
  PROVE  LET g == mergeWithExistingSpan(h, pid)
         IN  SpansOK(g) /\ FreeIDs(g) = FreeIDs(h) \cup {pid}
<1> DEFINE back  == pid - 1 \in DOMAIN h.bwd
           forth == pid + 1 \in DOMAIN h.fwd
           pre   == IF back THEN h.bwd[pid - 1] ELSE 0
           post  == IF forth THEN h.fwd[pid + 1] ELSE 0
           h1    == IF back THEN delSpan(h, pid - pre, pre) ELSE h
           h2    == IF forth THEN delSpan(h1, pid + 1, post) ELSE h1
<1>1. \A t \in DOMAIN h.fwd : t \in Int /\ h.fwd[t] \in Nat \ {0}
  BY DEF SpansOK
<1>2. \A t, u \in DOMAIN h.fwd : t < u => t + h.fwd[t] < u
  BY DEF SpansOK
<1>3. \A t \in DOMAIN h.fwd : ~(t <= pid /\ pid < t + h.fwd[t])
  BY FreeIs
<1>4. ASSUME back
      PROVE  pid - pre \in DOMAIN h.fwd /\ h.fwd[pid - pre] = pre /\ pre \in Nat \ {0}
  <2>1. PICK t \in DOMAIN h.fwd : pid - 1 = t + h.fwd[t] - 1
    BY <1>4 DEF SpansOK
  <2>2. h.bwd[pid - 1] = h.fwd[t]
    BY <2>1 DEF SpansOK
  <2>3. pre = h.fwd[t] /\ t = pid - pre
    BY <1>1, <1>4, <2>1, <2>2
  <2> QED
    BY <1>1, <2>3
<1>5. pre \in Nat /\ post \in Nat
  BY <1>1, <1>4
<1>6. /\ SpansOK(h1)
      /\ DOMAIN h1.fwd = IF back THEN DOMAIN h.fwd \ {pid - pre} ELSE DOMAIN h.fwd
      /\ \A t \in DOMAIN h1.fwd : h1.fwd[t] = h.fwd[t]
      /\ FreeIDs(h1) = FreeIDs(h) \ Run(pid - pre, pre)
  <2>1. CASE back
    BY <1>4, <2>1, DelSpanOK
  <2>2. CASE ~back
    BY <2>2 DEF Run
  <2> QED
    BY <2>1, <2>2
<1> HIDE DEF h1
<1>7. /\ SpansOK(h2)
      /\ DOMAIN h2.fwd = IF forth THEN DOMAIN h1.fwd \ {pid + 1} ELSE DOMAIN h1.fwd
      /\ \A t \in DOMAIN h2.fwd : h2.fwd[t] = h.fwd[t]
      /\ FreeIDs(h2) = FreeIDs(h1) \ Run(pid + 1, post)
  <2>1. CASE forth
    <3>1. pid + 1 \in DOMAIN h1.fwd /\ h1.fwd[pid + 1] = post
      BY <1>5, <1>6, <2>1
    <3>2. h2 = delSpan(h1, pid + 1, h1.fwd[pid + 1])
      BY <2>1, <3>1
    <3> HIDE DEF h2, post
    <3>3. /\ SpansOK(h2)
          /\ DOMAIN h2.fwd = DOMAIN h1.fwd \ {pid + 1}
          /\ \A t \in DOMAIN h2.fwd : h2.fwd[t] = h1.fwd[t]
          /\ FreeIDs(h2) = FreeIDs(h1) \ Run(pid + 1, post)
      BY <1>6, <3>1, <3>2, DelSpanOK
    <3> QED
      BY <1>6, <2>1, <3>3, Zenon
  <2>2. CASE ~forth
    BY <1>6, <2>2 DEF Run
  <2> QED
    BY <2>1, <2>2
<1> HIDE DEF h2
<1>8. \A t \in DOMAIN h2.fwd : t \in DOMAIN h.fwd /\ h2.fwd[t] = h.fwd[t]
  BY <1>6, <1>7
<1>9. ASSUME NEW t \in DOMAIN h2.fwd
      PROVE  t + h2.fwd[t] < pid - pre \/ (pid - pre) + (1 + pre + post) < t
  <2>1. t \in DOMAIN h.fwd /\ h2.fwd[t] = h.fwd[t] /\ t \in Int /\ h.fwd[t] \in Nat \ {0}
    BY <1>1, <1>8
  <2>2. back => t # pid - pre
    BY <1>6, <1>7
  <2>3. forth => t # pid + 1
    BY <1>6, <1>7
  <2>4. CASE t < pid
    <3>1. t + h.fwd[t] <= pid
      BY <1>3, <2>1, <2>4
    <3>2. CASE back
      BY <1>2, <1>4, <2>1, <2>2, <2>4, <3>1, <3>2
    <3>3. CASE ~back
      <4>1. t + h.fwd[t] # pid
        <5>1. t + h.fwd[t] - 1 \in DOMAIN h.bwd
          BY <2>1 DEF SpansOK
        <5> QED
          BY <2>1, <3>3, <5>1
      <4> QED
        BY <2>1, <3>1, <3>3, <4>1
    <3> QED
      BY <3>2, <3>3
  <2>5. CASE ~(t < pid)
    <3>1. pid < t
      BY <1>3, <2>1, <2>5
    <3>2. CASE forth
      <4>1. pid + 1 < t
        BY <2>1, <2>3, <3>1, <3>2
      <4>2. (pid + 1) + post < t
        BY <1>2, <2>1, <3>2, <4>1
      <4> QED
        BY <1>5, <2>1, <4>2
    <3>3. CASE ~forth
      <4>1. t # pid + 1
        BY <2>1, <3>3
      <4> QED
        BY <1>5, <2>1, <3>1, <3>3, <4>1
    <3> QED
      BY <3>2, <3>3
  <2> QED
    BY <2>4, <2>5
<1> DEFINE g == addSpan(h2, pid - pre, 1 + pre + post)
<1>10. g = mergeWithExistingSpan(h, pid)
  <2>1. (pid - 1) + 1 - pre = pid - pre
    BY <1>5
  <2> QED
    BY <2>1 DEF mergeWithExistingSpan, h1, h2
<1>11. SpansOK(g) /\ FreeIDs(g) = FreeIDs(h2) \cup Run(pid - pre, 1 + pre + post)
  BY <1>5, <1>7, <1>9, AddSpanOK
<1> HIDE DEF g
<1>12. FreeIDs(g) = FreeIDs(h) \cup {pid}
  <2>1. Run(pid - pre, 1 + pre + post)
          = Run(pid - pre, pre) \cup {pid} \cup Run(pid + 1, post)
    BY <1>5 DEF Run
  <2>2. Run(pid - pre, pre) \subseteq FreeIDs(h)
    <3>1. CASE back
      BY <1>4, <3>1 DEF FreeIDs
    <3>2. CASE ~back
      BY <3>2 DEF Run
    <3> QED
      BY <3>1, <3>2
  <2>3. Run(pid + 1, post) \subseteq FreeIDs(h)
    <3>1. CASE forth
      BY <3>1 DEF FreeIDs
    <3>2. CASE ~forth
      BY <3>2 DEF Run
    <3> QED
      BY <3>1, <3>2
  <2> HIDE DEF pre, post
  <2> QED
    BY <1>6, <1>7, <1>11, <2>1, <2>2, <2>3
<1> QED
  BY <1>10, <1>11, <1>12

\* takeSpan takes the first n pages of a span and no other.
LEMMA TakeOK ==
  ASSUME NEW h, SpansOK(h), NEW s \in DOMAIN h.fwd, NEW n \in Nat \ {0}, n <= h.fwd[s]
  PROVE  LET g == takeSpan(h, [start |-> s, size |-> h.fwd[s]], n)
         IN  SpansOK(g) /\ FreeIDs(g) = FreeIDs(h) \ Run(s, n)
<1> DEFINE k  == h.fwd[s]
           h1 == delSpan(h, s, k)
           h2 == addSpan(h1, s + n, k - n)
<1>1. \A t \in DOMAIN h.fwd : t \in Int /\ h.fwd[t] \in Nat \ {0}
  BY DEF SpansOK
<1>2. \A t, u \in DOMAIN h.fwd : t < u => t + h.fwd[t] < u
  BY DEF SpansOK
<1>3. /\ SpansOK(h1)
      /\ DOMAIN h1.fwd = DOMAIN h.fwd \ {s}
      /\ \A t \in DOMAIN h1.fwd : h1.fwd[t] = h.fwd[t]
      /\ FreeIDs(h1) = FreeIDs(h) \ Run(s, k)
  BY DelSpanOK
<1>4. takeSpan(h, [start |-> s, size |-> k], n) = IF k = n THEN h1 ELSE h2
  BY DEF takeSpan
<1> HIDE DEF h1
<1>5. ASSUME k # n
      PROVE  SpansOK(h2) /\ FreeIDs(h2) = FreeIDs(h1) \cup Run(s + n, k - n)
  <2>1. s + n \in Int /\ k - n \in Nat \ {0} /\ (s + n) + (k - n) = s + k
    BY <1>1, <1>5
  <2>2. \A t \in DOMAIN h1.fwd :
          t + h1.fwd[t] < s + n \/ (s + n) + (k - n) < t
    BY <1>1, <1>2, <1>3, <2>1
  <2> QED
    BY <1>3, <2>1, <2>2, AddSpanOK
<1>6. Run(s, k) \subseteq FreeIDs(h)
  BY DEF FreeIDs
<1>7. k # n => Run(s, k) = Run(s, n) \cup Run(s + n, k - n)
                 /\ Run(s, n) \cap Run(s + n, k - n) = {}
  BY <1>1 DEF Run
<1> HIDE DEF h2
<1> QED
  BY <1>3, <1>4, <1>5, <1>6, <1>7

\* The candidates of the set are the spans of exactly n pages, if there are any,
\* else all longer ones.
LEMMA LongAre ==
  ASSUME NEW h, SpansOK(h), NEW n \in Nat \ {0}, NEW s \in Int
  PROVE  /\ (s \in FreeIDs(h) /\ s - 1 \notin FreeIDs(h) /\ Run(s, n) \subseteq FreeIDs(h))
               <=> (s \in DOMAIN h.fwd /\ n <= h.fwd[s])
         /\ s \in DOMAIN h.fwd /\ n <= h.fwd[s] =>
               (s + n \notin FreeIDs(h) <=> h.fwd[s] = n)
<1>1. \A t \in DOMAIN h.fwd : t \in Int /\ h.fwd[t] \in Nat \ {0}
  BY DEF SpansOK
<1>2. \A t, u \in DOMAIN h.fwd : t < u => t + h.fwd[t] < u
  BY DEF SpansOK
<1>3. \A p \in Int : p \in FreeIDs(h) <=>
                       \E t \in DOMAIN h.fwd : t <= p /\ p < t + h.fwd[t]
  BY FreeIs
<1>4. s - 1 \in Int /\ s + n \in Int
  OBVIOUS
<1>5. ASSUME s \in DOMAIN h.fwd
      PROVE  s \in FreeIDs(h) /\ s - 1 \notin FreeIDs(h) /\ s + h.fwd[s] \notin FreeIDs(h)
  <2>1. s \in FreeIDs(h)
    BY <1>1, <1>3, <1>5
  <2>2. s - 1 \notin FreeIDs(h)
    BY <1>1, <1>2, <1>3, <1>4, <1>5
  <2>3. s + h.fwd[s] \in Int
    BY <1>1, <1>5
  <2>4. s + h.fwd[s] \notin FreeIDs(h)
    BY <1>1, <1>2, <1>3, <1>5, <2>3, SMTT(60)
  <2> QED
    BY <2>1, <2>2, <2>4
<1>6. ASSUME s \in DOMAIN h.fwd, n <= h.fwd[s]
      PROVE  Run(s, n) \subseteq FreeIDs(h) /\ (s + n \notin FreeIDs(h) <=> h.fwd[s] = n)
  <2>1. Run(s, n) \subseteq Run(s, h.fwd[s]) /\ Run(s, h.fwd[s]) \subseteq FreeIDs(h)
    BY <1>1, <1>6 DEF Run, FreeIDs
  <2>2. n < h.fwd[s] => s + n \in FreeIDs(h)
    BY <1>1, <1>3, <1>4, <1>6
  <2>3. n < h.fwd[s] \/ n = h.fwd[s]
    BY <1>1, <1>6
  <2> QED
    BY <1>5, <1>6, <2>1, <2>2, <2>3
<1>7. ASSUME s \in FreeIDs(h), s - 1 \notin FreeIDs(h), Run(s, n) \subseteq FreeIDs(h)
      PROVE  s \in DOMAIN h.fwd /\ n <= h.fwd[s]
  <2>1. PICK t \in DOMAIN h.fwd : t <= s /\ s < t + h.fwd[t]
    BY <1>3, <1>7
  <2>2. t = s
    BY <1>1, <1>3, <1>4, <1>7, <2>1, SMTT(60)
  <2>3. s + h.fwd[s] \notin Run(s, n)
    BY <1>5, <1>7, <2>2
  <2> QED
    BY <1>1, <2>2, <2>3 DEF Run
<1> QED
  BY <1>5, <1>6, <1>7

\* Where hashmapAllocate finds n pages.
LEMMA SpansAre ==
  ASSUME NEW h, SpansOK(h), NEW n \in Nat \ {0}
  PROVE  /\ FreelistType = "hashmap" =>
              {span.start : span \in Spans(h, n)} = Candidates(FreeIDs(h), n)
         /\ \A span \in Spans(h, n) :
              /\ span.start \in DOMAIN h.fwd
              /\ span = [start |-> span.start, size |-> h.fwd[span.start]]
              /\ n <= h.fwd[span.start]
<1> DEFINE F     == FreeIDs(h)
           long  == {s \in F : s - 1 \notin F /\ Run(s, n) \subseteq F}
           exact == {s \in long : s + n \notin F}
<1>1. \A t \in DOMAIN h.fwd : t \in Int /\ h.fwd[t] \in Nat \ {0}
  BY DEF SpansOK
<1>2. long = {s \in DOMAIN h.fwd : n <= h.fwd[s]}
  BY <1>1, LongAre, FreeInt
<1>3. exact = {s \in DOMAIN h.fwd : h.fwd[s] = n}
  BY <1>1, <1>2, LongAre
<1>4. FreelistType = "hashmap" => Candidates(F, n) = IF exact # {} THEN exact ELSE long
  BY DEF Candidates
<1> HIDE DEF long, exact
<1>5. DOMAIN h.sizes = {h.fwd[s] : s \in DOMAIN h.fwd}
  BY DEF SpansOK
<1>6. \A k \in DOMAIN h.sizes : h.sizes[k] = {s \in DOMAIN h.fwd : h.fwd[s] = k}
  BY DEF SpansOK
<1>7. CASE n \in DOMAIN h.sizes
  <2>1. h.sizes[n] = exact /\ exact # {}
    BY <1>3, <1>5, <1>6, <1>7
  <2>2. Spans(h, n) = {[start |-> s, size |-> n] : s \in exact}
    BY <1>7, <2>1 DEF Spans
  <2>3. {span.start : span \in Spans(h, n)} = exact
    <3>1. \A span \in Spans(h, n) : span.start \in exact
      BY <2>2
    <3>2. \A s \in exact : \E span \in Spans(h, n) : span.start = s
      <4> TAKE s \in exact
      <4>1. [start |-> s, size |-> n] \in Spans(h, n)
        BY <2>2
      <4> QED
        BY <4>1
    <3> QED
      BY <3>1, <3>2
  <2>4. ASSUME NEW span \in Spans(h, n)
        PROVE  /\ span.start \in DOMAIN h.fwd
               /\ span = [start |-> span.start, size |-> h.fwd[span.start]]
               /\ n <= h.fwd[span.start]
    <3>1. PICK s \in exact : span = [start |-> s, size |-> n]
      BY <2>2
    <3> QED
      BY <1>1, <1>3, <3>1
  <2> QED
    BY <1>4, <2>1, <2>3, <2>4
<1>8. CASE n \notin DOMAIN h.sizes
  <2>1. exact = {}
    BY <1>3, <1>5, <1>8
  <2>2. ASSUME NEW span
        PROVE  span \in Spans(h, n) <=>
                 \E s \in long : span = [start |-> s, size |-> h.fwd[s]]
    <3>1. span \in Spans(h, n) <=>
            \E k \in DOMAIN h.sizes : n <= k /\ \E s \in h.sizes[k] :
              span = [start |-> s, size |-> k]
      BY <1>8 DEF Spans
    <3> QED
      BY <1>2, <1>5, <1>6, <3>1
  <2>3. {span.start : span \in Spans(h, n)} = long
    <3>1. \A span \in Spans(h, n) : span.start \in long
      BY <2>2
    <3>2. \A s \in long : \E span \in Spans(h, n) : span.start = s
      <4> TAKE s \in long
      <4>1. [start |-> s, size |-> h.fwd[s]] \in Spans(h, n)
        BY <2>2
      <4> QED
        BY <4>1
    <3> QED
      BY <3>1, <3>2
  <2>4. ASSUME NEW span \in Spans(h, n)
        PROVE  /\ span.start \in DOMAIN h.fwd
               /\ span = [start |-> span.start, size |-> h.fwd[span.start]]
               /\ n <= h.fwd[span.start]
    <3>1. PICK s \in long : span = [start |-> s, size |-> h.fwd[s]]
      BY <2>2
    <3> QED
      BY <1>2, <3>1
  <2> QED
    BY <1>4, <2>1, <2>3, <2>4
<1> QED
  BY <1>7, <1>8

-----------------------------------------------------------------------------
(* init *)

\* A set of naturals that holds 0 and n + 1 with every n holds all of them.
LEMMA Induction ==
  ASSUME NEW S \in SUBSET Nat, 0 \in S, \A n \in S : n + 1 \in S
  PROVE  S = Nat
<1> SUFFICES ASSUME Nat \ S # {} PROVE FALSE
  BY Zenon
<1> DEFINE Lt == OpToRel(<, Nat)
<1>1. IsWellFoundedOn(Lt, Nat)
  BY NatLessThanWellFounded, Zenon
<1>2. PICK x \in Nat \ S : \A y \in Nat \ S : ~(<<y, x>> \in Lt)
  BY <1>1, WFMin, Zenon
<1>3. x - 1 \in Nat /\ x - 1 < x
  OBVIOUS
<1>4. <<x - 1, x>> \in Lt
  BY <1>3 DEF OpToRel
<1>5. x - 1 \in S
  BY <1>2, <1>3, <1>4, Zenon
<1>6. (x - 1) + 1 \in S
  BY <1>5
<1> QED
  BY <1>6

\* The state of the pass after the ids up to p.
After(f, ids, p) ==
  IF p = 0 THEN [h |-> NoSpans, start |-> 0, size |-> 0]
  ELSE IF p \in ids THEN initStep(f[p - 1], p)
  ELSE f[p - 1]

\* The pass is well defined ...
LEMMA PassExists ==
  ASSUME NEW ids, NEW n \in Nat
  PROVE  \E f : f = [p \in 0 .. n |-> After(f, ids, p)]
<1> DEFINE S == {i \in Nat : \E f : f = [p \in 0 .. i |-> After(f, ids, p)]}
<1>1. 0 \in S
  <2> DEFINE f == [p \in 0 .. 0 |-> [h |-> NoSpans, start |-> 0, size |-> 0]]
  <2>1. f = [p \in 0 .. 0 |-> After(f, ids, p)]
    <3>1. \A p \in 0 .. 0 : After(f, ids, p) = f[p]
      BY DEF After
    <3> QED
      BY <3>1
  <2> QED
    BY <2>1
<1>2. ASSUME NEW i \in S PROVE i + 1 \in S
  <2>1. PICK f : f = [p \in 0 .. i |-> After(f, ids, p)]
    OBVIOUS
  <2> DEFINE g == [p \in 0 .. (i + 1) |-> IF p = i + 1 THEN After(f, ids, p) ELSE f[p]]
  <2>2. \A p \in 1 .. (i + 1) : g[p - 1] = f[p - 1]
    OBVIOUS
  <2>3. \A p \in 0 .. (i + 1) : After(g, ids, p) = After(f, ids, p)
    BY <2>2 DEF After
  <2>4. \A p \in 0 .. i : f[p] = After(f, ids, p)
    BY <2>1, SMTT(60)
  <2>5. \A p \in 0 .. (i + 1) : g[p] = After(g, ids, p)
    BY <2>3, <2>4
  <2>6. g = [p \in 0 .. (i + 1) |-> After(g, ids, p)]
    BY <2>5
  <2> HIDE DEF g
  <2> QED
    BY <2>6
<1>3. S = Nat
  <2> HIDE DEF S
  <2>1. S \subseteq Nat
    BY DEF S
  <2> QED
    BY <1>1, <1>2, <2>1, Induction
<1> QED
  BY <1>3

\* ... and goes from id to id.
LEMMA PassIs ==
  ASSUME NEW ids
  PROVE  LET f == initPass(ids)
         IN  /\ f[0] = [h |-> NoSpans, start |-> 0, size |-> 0]
             /\ \A p \in 1 .. MaxPgid :
                  f[p] = IF p \in ids THEN initStep(f[p - 1], p) ELSE f[p - 1]
<1> DEFINE f == initPass(ids)
           Eq(g) == g = [p \in 0 .. MaxPgid |-> After(g, ids, p)]
<1>1. f = CHOOSE g : Eq(g)
  BY DEF initPass, After
<1>2. \E g : Eq(g)
  <2>1. MaxPgid \in Nat
    BY FreelistAssumption
  <2> QED
    BY <2>1, PassExists, Zenon
<1>3. Eq(f)
  BY <1>1, <1>2, Zenon
<1> HIDE DEF f
<1>4. \A p \in 0 .. MaxPgid : f[p] = After(f, ids, p)
  BY <1>3, Zenon
<1> QED
  BY <1>4, FreelistAssumption DEF After, f

\* The part of the list init has gone through when it has reached page p.
Upto(ids, p) == {q \in ids : q <= p}

\* What the pass has found in the ids up to p: the spans behind it, and the one
\* it is in, which touches none of them.
PassOK(acc, ids, p) ==
  /\ SpansOK(acc.h)
  /\ acc.start \in Nat /\ acc.size \in Nat
  /\ acc.size = 0 => acc.h = NoSpans
  /\ acc.size # 0 => acc.start + acc.size <= p + 1
  /\ \A t \in DOMAIN acc.h.fwd : t + acc.h.fwd[t] < acc.start
  /\ FreeIDs(acc.h) \cup Run(acc.start, acc.size) = Upto(ids, p)

\* The empty maps record no free page.
LEMMA NoSpansOK == SpansOK(NoSpans) /\ FreeIDs(NoSpans) = {}
<1>1. DOMAIN NoSpans.fwd = {} /\ DOMAIN NoSpans.bwd = {} /\ DOMAIN NoSpans.sizes = {}
  BY DEF NoSpans
<1> QED
  BY <1>1 DEF SpansOK, FreeIDs

\* One id.
LEMMA InitStepOK ==
  ASSUME NEW ids \in SUBSET Nat, NEW p \in Nat \ {0}, p \in ids,
         NEW acc, PassOK(acc, ids, p - 1)
  PROVE  PassOK(initStep(acc, p), ids, p)
<1> DEFINE next == initStep(acc, p)
           h == acc.h
           s == acc.start
           k == acc.size
<1>1. /\ SpansOK(h) /\ s \in Nat /\ k \in Nat /\ (k = 0 => h = NoSpans)
      /\ (k # 0 => s + k <= p)
      /\ \A t \in DOMAIN h.fwd : t + h.fwd[t] < s
      /\ FreeIDs(h) \cup Run(s, k) = Upto(ids, p - 1)
  BY DEF PassOK
<1>2. Upto(ids, p) = Upto(ids, p - 1) \cup {p}
  <2>1. \A q \in ids : q \in Nat /\ (q <= p <=> q <= p - 1 \/ q = p)
    OBVIOUS
  <2> QED
    BY <2>1, Zenon DEF Upto
<1>3. ASSUME k # 0, p = s + k PROVE PassOK(next, ids, p)
  <2>1. next.h = h /\ next.start = s /\ next.size = k + 1
    BY <1>3 DEF initStep
  <2>2. Run(s, k + 1) = Run(s, k) \cup {p}
    BY <1>1, <1>3 DEF Run
  <2> HIDE DEF next
  <2> QED
    BY <1>1, <1>2, <1>3, <2>1, <2>2 DEF PassOK
<1>4. ASSUME k = 0 PROVE PassOK(next, ids, p)
  <2>1. next.h = NoSpans /\ next.start = p /\ next.size = 1
    BY <1>1, <1>4 DEF initStep
  <2>2. DOMAIN NoSpans.fwd = {}
    BY DEF NoSpans
  <2>3. Run(s, k) = {} /\ Run(p, 1) = {p}
    BY <1>1, <1>4 DEF Run
  <2> HIDE DEF next
  <2> QED
    BY <1>1, <1>2, <1>4, <2>1, <2>2, <2>3, NoSpansOK DEF PassOK
<1>5. ASSUME k # 0, p # s + k PROVE PassOK(next, ids, p)
  <2> DEFINE g == addSpan(h, s, k)
  <2>1. next.h = g /\ next.start = p /\ next.size = 1
    BY <1>5 DEF initStep
  <2>2. /\ SpansOK(g)
        /\ DOMAIN g.fwd = DOMAIN h.fwd \cup {s}
        /\ g.fwd[s] = k
        /\ \A t \in DOMAIN h.fwd : g.fwd[t] = h.fwd[t]
        /\ FreeIDs(g) = FreeIDs(h) \cup Run(s, k)
    BY <1>1, <1>5, AddSpanOK
  <2>3. Run(p, 1) = {p}
    BY DEF Run
  <2>4. \A t \in DOMAIN h.fwd : t \in Int /\ h.fwd[t] \in Nat
    BY <1>1 DEF SpansOK
  <2> HIDE DEF next, g
  <2>5. \A t \in DOMAIN g.fwd : t + g.fwd[t] < p
    BY <1>1, <1>5, <2>2, <2>4
  <2> QED
    BY <1>1, <1>2, <2>1, <2>2, <2>3, <2>5 DEF PassOK
<1> QED
  BY <1>3, <1>4, <1>5

\* init of a list that is not empty makes the spans of that list.
LEMMA InitOK ==
  ASSUME NEW ids \in SUBSET Pgid, ids # {}
  PROVE  SpansOK(init(ids)) /\ FreeIDs(init(ids)) = ids
<1> DEFINE f == initPass(ids)
           S == {i \in Nat : i <= MaxPgid => PassOK(f[i], ids, i)}
<1>0. /\ MaxPgid \in Nat /\ ids \in SUBSET Nat
      /\ \A q \in ids : q \in Nat /\ 1 <= q /\ q <= MaxPgid
  BY FreelistAssumption DEF Pgid
<1>1. /\ f[0] = [h |-> NoSpans, start |-> 0, size |-> 0]
      /\ \A p \in 1 .. MaxPgid :
           f[p] = IF p \in ids THEN initStep(f[p - 1], p) ELSE f[p - 1]
  BY PassIs
<1> HIDE DEF f
<1>2. PassOK(f[0], ids, 0)
  <2>1. Upto(ids, 0) = {}
    <3>1. \A q \in ids : ~(q <= 0)
      BY <1>0
    <3> QED
      BY <3>1 DEF Upto
  <2>2. Run(0, 0) = {} /\ DOMAIN NoSpans.fwd = {}
    BY DEF Run, NoSpans
  <2> QED
    BY <1>1, <2>1, <2>2, NoSpansOK DEF PassOK
<1>3. ASSUME NEW i \in Nat, i + 1 <= MaxPgid, PassOK(f[i], ids, i)
      PROVE  PassOK(f[i + 1], ids, i + 1)
  <2>1. i + 1 \in 1 .. MaxPgid /\ (i + 1) - 1 = i /\ i + 1 \in Nat \ {0}
    BY <1>0, <1>3
  <2>2. CASE i + 1 \in ids
    BY <1>0, <1>1, <1>3, <2>1, <2>2, InitStepOK
  <2>3. CASE i + 1 \notin ids
    <3>1. f[i + 1] = f[i]
      BY <1>1, <2>1, <2>3
    <3>2. Upto(ids, i + 1) = Upto(ids, i)
      <4>1. \A q \in ids : q <= i + 1 <=> q <= i
        BY <1>0, <2>3
      <4> QED
        BY <4>1 DEF Upto
    <3> QED
      BY <1>3, <3>1, <3>2 DEF PassOK
  <2> QED
    BY <2>2, <2>3
<1>4. S = Nat
  <2>1. 0 \in S
    BY <1>2
  <2>2. \A i \in S : i + 1 \in S
    BY <1>0, <1>3
  <2>3. S \in SUBSET Nat
    OBVIOUS
  <2> HIDE DEF S
  <2> QED
    BY <2>1, <2>2, <2>3, Induction
<1>5. PassOK(f[MaxPgid], ids, MaxPgid)
  BY <1>0, <1>4
<1> DEFINE acc == f[MaxPgid]
<1>6. /\ SpansOK(acc.h) /\ acc.start \in Nat /\ acc.size \in Nat
      /\ \A t \in DOMAIN acc.h.fwd : t + acc.h.fwd[t] < acc.start
      /\ FreeIDs(acc.h) \cup Run(acc.start, acc.size) = ids
  <2>1. Upto(ids, MaxPgid) = ids
    BY <1>0, Zenon DEF Upto
  <2> QED
    BY <1>5, <2>1 DEF PassOK
<1>7. acc.size # 0
  <2> SUFFICES ASSUME acc.size = 0 PROVE FALSE
    OBVIOUS
  <2>1. acc.h = NoSpans /\ Run(acc.start, acc.size) = {}
    BY <1>5, <1>6 DEF PassOK, Run
  <2> QED
    BY <1>6, <2>1, NoSpansOK
<1>8. init(ids) = addSpan(acc.h, acc.start, acc.size)
  BY DEF init, f
<1> DEFINE h == acc.h
           s == acc.start
           k == acc.size
<1>9. /\ SpansOK(h) /\ s \in Int /\ k \in Nat \ {0}
      /\ \A t \in DOMAIN h.fwd : t + h.fwd[t] < s \/ s + k < t
      /\ FreeIDs(h) \cup Run(s, k) = ids
      /\ init(ids) = addSpan(h, s, k)
  BY <1>6, <1>7, <1>8
<1> HIDE DEF h, s, k
<1>10. SpansOK(addSpan(h, s, k)) /\ FreeIDs(addSpan(h, s, k)) = FreeIDs(h) \cup Run(s, k)
  BY <1>9, AddSpanOK
<1> QED
  BY <1>9, <1>10

-----------------------------------------------------------------------------
(* The backend *)

\* The maps are always spans of page ids, and what is still to be merged is not
\* among them.
HmapInv ==
  /\ SpansOK(Maps)
  /\ FreeIDs(Maps) \subseteq Pgid
  /\ todo \subseteq Pgid
  /\ todo \cap FreeIDs(Maps) = {}

\* The bound on allocations is a number.
LEMMA PgidCard == Cardinality(Pgid) \in Nat
BY FS_Interval, FreelistAssumption DEF Pgid

\* What Set leaves of the maps that addSpan or delSpan made.
LEMMA SetIs ==
  ASSUME NEW h, h = [fwd |-> h.fwd, bwd |-> h.bwd, sizes |-> h.sizes], Set(h)
  PROVE  Maps' = h
BY DEF Set, Maps

\* The helpers that build span maps return records of exactly the three maps.
LEMMA MapsShape ==
  ASSUME NEW h, NEW s, NEW k
  PROVE  \A g : g = NoSpans \/ g = addSpan(h, s, k) \/ g = delSpan(h, s, k)
                => g = [fwd |-> g.fwd, bwd |-> g.bwd, sizes |-> g.sizes]
BY DEF NoSpans, addSpan, delSpan

\* Allocating takes a run at one of the spans.
LEMMA AllocateIs ==
  ASSUME HmapInv, NEW n \in 1 .. Cardinality(Pgid), Allocate(n)
  PROVE  /\ SpansOK(Maps') /\ todo' = todo /\ todo = {}
         /\ \E span \in Spans(Maps, n) :
              FreeIDs(Maps') = FreeIDs(Maps) \ Run(span.start, n)
<1> DEFINE h == Maps
<1>1. SpansOK(h)
  BY DEF HmapInv
<1>2. PICK span \in Spans(h, n) : Set(takeSpan(h, span, n))
  BY DEF Allocate
<1>3. n \in Nat \ {0}
  BY PgidCard
<1>4. /\ span.start \in DOMAIN h.fwd /\ n <= h.fwd[span.start]
      /\ span = [start |-> span.start, size |-> h.fwd[span.start]]
  BY <1>1, <1>3, SpansAre
<1> DEFINE g == takeSpan(h, span, n)
<1>5. SpansOK(g) /\ FreeIDs(g) = FreeIDs(h) \ Run(span.start, n)
  BY <1>1, <1>3, <1>4, TakeOK
<1>6. Maps' = g
  BY <1>2, MapsShape, SetIs DEF takeSpan
<1> HIDE DEF g
<1> QED
  BY <1>5, <1>6 DEF Allocate

\* Merging one id adds it.
LEMMA MergeNextIs ==
  ASSUME HmapInv, NEW id \in todo, MergeNext(id)
  PROVE  /\ SpansOK(Maps') /\ todo' = todo \ {id}
         /\ FreeIDs(Maps') = FreeIDs(Maps) \cup {id}
<1> DEFINE g == mergeWithExistingSpan(Maps, id)
<1>1. SpansOK(Maps) /\ id \in Int /\ id \notin FreeIDs(Maps)
  BY FreelistAssumption DEF HmapInv, Pgid
<1>2. SpansOK(g) /\ FreeIDs(g) = FreeIDs(Maps) \cup {id}
  BY <1>1, MergeOK
<1>3. Maps' = g
  BY MapsShape, SetIs DEF MergeNext, mergeWithExistingSpan
<1> HIDE DEF g
<1> QED
  BY <1>2, <1>3 DEF MergeNext

\* Reading a list leaves its ids free.
LEMMA ReadIDsIs ==
  ASSUME NEW ids \in SUBSET Pgid, ReadIDs(ids)
  PROVE  SpansOK(Maps') /\ FreeIDs(Maps') = ids /\ todo' = {} /\ todo = {}
<1> DEFINE g == IF ids = {} THEN NoSpans ELSE init(ids)
<1>1. SpansOK(g) /\ FreeIDs(g) = ids
  BY InitOK, NoSpansOK
<1>2. Maps' = g
  BY MapsShape, SetIs DEF ReadIDs, init
<1> HIDE DEF g
<1> QED
  BY <1>1, <1>2 DEF ReadIDs

\* Allocating, merging and reading keep the invariant.
LEMMA HmapStep ==
  ASSUME HmapInv, [HmapNext]_hvars
  PROVE  HmapInv'
<1> DEFINE h == Maps
<1>1. SpansOK(h) /\ FreeIDs(h) \subseteq Pgid /\ todo \subseteq Pgid
        /\ todo \cap FreeIDs(h) = {}
  BY DEF HmapInv
<1>2. ASSUME NEW n \in 1 .. Cardinality(Pgid), Allocate(n) PROVE HmapInv'
  <2>1. SpansOK(Maps') /\ FreeIDs(Maps') \subseteq FreeIDs(h) /\ todo' = todo
    BY <1>2, AllocateIs
  <2> QED
    BY <1>1, <2>1 DEF HmapInv
<1>3. ASSUME NEW id \in todo, MergeNext(id) PROVE HmapInv'
  <2>1. SpansOK(Maps') /\ FreeIDs(Maps') = FreeIDs(h) \cup {id} /\ todo' = todo \ {id}
    BY <1>3, MergeNextIs
  <2> QED
    BY <1>1, <2>1 DEF HmapInv
<1>4. ASSUME NEW ids \in SUBSET Pgid, ReadIDs(ids) PROVE HmapInv'
  <2>1. SpansOK(Maps') /\ FreeIDs(Maps') = ids /\ todo' = {}
    BY <1>4, ReadIDsIs
  <2> QED
    BY <2>1 DEF HmapInv
<1>5. ASSUME NEW ids \in SUBSET (Pgid \ FreeIDs(h)), MergeSpans(ids) PROVE HmapInv'
  <2>1. Maps' = h /\ todo' = ids
    BY <1>5 DEF MergeSpans, maps, Maps
  <2> QED
    BY <1>1, <2>1, Zenon DEF HmapInv
<1>6. CASE UNCHANGED hvars
  <2>1. Maps' = h /\ todo' = todo
    BY <1>6 DEF hvars, Maps
  <2> QED
    BY <1>1, <2>1 DEF HmapInv
<1> QED
  BY <1>2, <1>3, <1>4, <1>5, <1>6 DEF HmapNext

\* In every reachable state, and for any number of pages, the hashmap backend
\* allocates as from a set of ids: it fails only when there is no run of n free
\* pages, takes a run that the definition by sets allows, and that run only.
THEOREM HmapIsSet == HmapSpec => []AllocatesLikeASet
<1>1. ASSUME InitMaps PROVE HmapInv
  <2>1. Maps = NoSpans
    BY <1>1 DEF InitMaps, Maps, NoSpans
  <2> QED
    BY <1>1, <2>1, NoSpansOK DEF HmapInv, InitMaps
<1>2. HmapInv /\ [HmapNext]_hvars => HmapInv'
  BY HmapStep
<1>3. ASSUME HmapInv PROVE AllocatesLikeASet
  <2> SUFFICES ASSUME FreelistType = "hashmap", NEW n \in 1 .. Cardinality(Pgid)
               PROVE  /\ {span.start : span \in Spans(Maps, n)}
                           = Candidates(FreeIDs(Maps), n)
                      /\ \A span \in Spans(Maps, n) :
                           FreeIDs(takeSpan(Maps, span, n))
                             = FreeIDs(Maps) \ Run(span.start, n)
    BY DEF AllocatesLikeASet
  <2>1. n \in Nat \ {0}
    BY PgidCard
  <2>2. SpansOK(Maps)
    BY <1>3 DEF HmapInv
  <2>3. {span.start : span \in Spans(Maps, n)} = Candidates(FreeIDs(Maps), n)
    BY <2>1, <2>2, SpansAre
  <2>4. ASSUME NEW span \in Spans(Maps, n)
        PROVE  FreeIDs(takeSpan(Maps, span, n)) = FreeIDs(Maps) \ Run(span.start, n)
    <3>1. /\ span.start \in DOMAIN Maps.fwd /\ n <= Maps.fwd[span.start]
          /\ span = [start |-> span.start, size |-> Maps.fwd[span.start]]
      BY <2>1, <2>2, SpansAre
    <3> QED
      BY <2>1, <2>2, <3>1, TakeOK
  <2> QED
    BY <2>3, <2>4
<1> QED
  BY <1>1, <1>2, <1>3, PTL DEF HmapSpec
=============================================================================
