---------------------------- MODULE SensingProofs ----------------------------
(* Sensing's properties for all configurations, sensors, histories and times.  *)
EXTENDS Sensing, PolicyProofs, SequenceTheorems

-----------------------------------------------------------------------------
(* Greatest elements, from the well-foundedness of strict inclusion.            *)

\* A nonempty finite set of integers has a greatest element.
LEMMA GreatestExists ==
    ASSUME NEW S \in SUBSET Int, IsFiniteSet(S), S # {}
    PROVE  Greatest(S) \in S /\ \A n \in S : n <= Greatest(S)
<1> DEFINE Above(k) == {n \in S : n > k}
           F == {Above(k) : k \in S}
<1>1. F \subseteq FiniteSubsetsOf(S) /\ F # {}
  <2>1. SUFFICES ASSUME NEW k \in S PROVE Above(k) \in SUBSET S /\ IsFiniteSet(Above(k))
    BY DEF FiniteSubsetsOf
  <2>2. Above(k) \in SUBSET S
    OBVIOUS
  <2> HIDE DEF Above
  <2>3. QED
    BY <2>2, FS_Subset
<1>2. PICK A \in F : \A B \in F : ~(<<B, A>> \in StrictSubsetOrdering(S))
  BY <1>1, FS_StrictSubsetOrderingWellFounded, WFMin
<1>3. PICK k \in S : A = Above(k)
  OBVIOUS
<1>4. SUFFICES \A n \in S : n <= k
  BY DEF Greatest
<1>5. SUFFICES ASSUME NEW n \in S, n > k PROVE FALSE
  <2>1. \A n \in S : n \in Int
    OBVIOUS
  <2>2. QED
    BY <2>1
<1>6. Above(n) \subseteq A /\ n \in A /\ n \notin Above(n) /\ A \subseteq S
  <2>1. n \in Int /\ k \in Int
    OBVIOUS
  <2>2. \A x \in S : x > n => x > k
    <3>1. SUFFICES ASSUME NEW x \in S, x > n PROVE x > k
      OBVIOUS
    <3>2. x \in Int
      OBVIOUS
    <3>3. QED
      BY <1>5, <2>1, <3>1, <3>2
  <2>3. Above(n) \subseteq A
    BY <1>3, <2>2
  <2>4. n \in A /\ A \subseteq S
    BY <1>3, <1>5, <2>1
  <2>5. n \notin Above(n)
    BY <2>1
  <2>6. QED
    BY <2>3, <2>4, <2>5
<1>7. <<Above(n), A>> \in StrictSubsetOrdering(S)
  BY <1>6 DEF StrictSubsetOrdering
<1>8. QED
  BY <1>2, <1>7

-----------------------------------------------------------------------------
(* Readings.                                                                  *)

\* What counts is a finite set of naturals (selectMaxTemp).
LEMMA CandidatesType ==
    ASSUME NEW b \in Boards \cup {{}}, NEW sel
    PROVE  IsFiniteSet(Candidates(sel, b)) /\ Candidates(sel, b) \subseteq Nat
<1> DEFINE R == {r \in Temperatures(b) : Selects(sel, r)}
           T == {s.temp : s \in R}
           f == [s \in R |-> s.temp]
<1>1. IsFiniteSet(b) /\ \A s \in b : s.temp \in Int
  BY BoardsAssumption, FS_EmptySet
<1>2. R \subseteq b
  BY DEF Temperatures
<1>3. IsFiniteSet(R)
  BY <1>1, <1>2, FS_Subset
<1>4. T \subseteq Int
  BY <1>1, <1>2
<1>5. f \in Surjection(R, T)
  BY DEF Surjection
<1> HIDE DEF f, T, R
<1>6. IsFiniteSet(T)
  BY <1>3, <1>5, FS_Surjection
<1>7. Candidates(sel, b) = {t \in T : t >= 0}
  BY DEF Candidates, T, R
<1>8. Candidates(sel, b) \subseteq T
  BY <1>7
<1>9. Candidates(sel, b) \subseteq Nat
  <2>1. SUFFICES ASSUME NEW t \in Candidates(sel, b) PROVE t \in Nat
    OBVIOUS
  <2>2. t \in Int /\ t >= 0
    BY <1>4, <1>7
  <2>3. QED
    BY <2>2
<1>10. QED
  BY <1>6, <1>8, <1>9, FS_Subset

\* The reading of the CPUs is none or the greatest of what counts.
LEMMA CpuReading ==
    ASSUME NEW b \in Boards \cup {{}}, NEW sel
    PROVE  /\ SelectMaxTemp(sel, b) \in Nat \cup {None}
           /\ \A s \in Temperatures(b) : Selects(sel, s) /\ s.temp >= 0 =>
                 SelectMaxTemp(sel, b) # None /\ s.temp <= SelectMaxTemp(sel, b)
           /\ SelectMaxTemp(sel, b) # None =>
                 \E s \in Temperatures(b) :
                    Selects(sel, s) /\ s.temp >= 0 /\ s.temp = SelectMaxTemp(sel, b)
<1> DEFINE C == Candidates(sel, b)
<1>1. IsFiniteSet(C) /\ C \subseteq Nat
  BY CandidatesType
<1>2. \A s \in Temperatures(b) : Selects(sel, s) /\ s.temp >= 0 => s.temp \in C
  BY DEF Candidates
<1>6. \A t \in C : \E s \in Temperatures(b) : Selects(sel, s) /\ s.temp >= 0 /\ s.temp = t
  BY DEF Candidates
<1> HIDE DEF C
<1>3. CASE C = {}
  BY <1>2, <1>3 DEF SelectMaxTemp, C
<1>4. CASE C # {}
  <2>1. C \in SUBSET Int
    BY <1>1
  <2>2. Greatest(C) \in C /\ \A n \in C : n <= Greatest(C)
    BY <1>1, <1>4, <2>1, GreatestExists
  <2>3. SelectMaxTemp(sel, b) = Greatest(C)
    BY <1>4 DEF SelectMaxTemp, C
  <2>4. Greatest(C) # None
    BY <1>1, <2>2 DEF None
  <2>5. QED
    BY <1>1, <1>2, <1>6, <2>2, <2>3, <2>4
<1>5. QED
  BY <1>3, <1>4

\* The reading of the GPUs is none or the hottest.
LEMMA GpuReading ==
    ASSUME NEW g \in GpuLists \cup {{}}
    PROVE  /\ GpuMax(g) \in Nat \cup {None}
           /\ \A t \in g : t \in Nat /\ GpuMax(g) # None /\ t <= GpuMax(g)
           /\ GpuMax(g) = None <=> g = {}
           /\ GpuMax(g) # None => GpuMax(g) \in g
<1>1. IsFiniteSet(g) /\ g \subseteq Nat
  BY GpuListsAssumption, FS_EmptySet
<1>2. CASE g = {}
  BY <1>2 DEF GpuMax
<1>3. CASE g # {}
  <2>1. g \in SUBSET Int
    BY <1>1
  <2>2. Greatest(g) \in g /\ \A n \in g : n <= Greatest(g)
    BY <1>1, <1>3, <2>1, GreatestExists
  <2>3. GpuMax(g) = Greatest(g) /\ Greatest(g) # None
    <3>1. Greatest(g) \in Nat
      BY <1>1, <2>2
    <3>2. Greatest(g) # None
      BY <3>1 DEF None
    <3>3. QED
      BY <1>3, <3>2 DEF GpuMax
  <2>4. QED
    BY <1>1, <1>3, <2>2, <2>3
<1>4. QED
  BY <1>2, <1>3

-----------------------------------------------------------------------------
(* The predictor.                                                             *)

\* The elements of a history are samples.
LEMMA HistoryElements ==
    ASSUME NEW h \in Histories
    PROVE  /\ Len(h) \in Nat /\ DOMAIN h = 1..Len(h)
           /\ \A i \in 1..Len(h) :
                 h[i] \in Samples /\ h[i].temp \in Nat /\ h[i].age \in Nat
<1>1. h \in Seq(Samples)
  BY DEF Histories
<1>2. Len(h) \in Nat /\ DOMAIN h = 1..Len(h)
  BY <1>1
<1>3. \A i \in 1..Len(h) : h[i] \in Samples
  BY <1>1, SeqElement
<1>4. \A x \in Samples : x.temp \in Nat /\ x.age \in Nat
  BY TimingAssumption DEF Samples, Ages, Forgotten
<1>5. QED
  BY <1>2, <1>3, <1>4

\* Ageing keeps a history's order and its temperatures.
LEMMA AgedHistory ==
    ASSUME NEW h \in Histories, NEW d \in Nat
    PROVE  /\ Aged(h, d) \in Histories
           /\ DOMAIN Aged(h, d) = DOMAIN h
           /\ \A i \in DOMAIN h : /\ Aged(h, d)[i].temp = h[i].temp
                                  /\ Aged(h, d)[i].age = Older(h[i].age, d)
           /\ Ordered(h) => Ordered(Aged(h, d))
<1> DEFINE n == Len(h)
<1>1. n \in Nat /\ DOMAIN h = 1..n /\ \A i \in 1..n : h[i] \in Samples
  BY HistoryElements
<1>2. \A a \in Ages : Older(a, d) \in Ages
  BY TimingAssumption DEF Older, AtMost, Ages, Forgotten
<1>3. \A i \in 1..n : [h[i] EXCEPT !.age = Older(@, d)] \in Samples
  BY <1>1, <1>2 DEF Samples
<1>4. Aged(h, d) = [i \in 1..n |-> [h[i] EXCEPT !.age = Older(@, d)]]
  BY <1>1 DEF Aged
<1>5. Aged(h, d) \in Histories
  <2>1. Aged(h, d) \in [1..n -> Samples]
    BY <1>3, <1>4
  <2>2. QED
    BY <1>1, <2>1 DEF Histories
<1>6. \A i \in 1..n : /\ Aged(h, d)[i].temp = h[i].temp
                      /\ Aged(h, d)[i].age = Older(h[i].age, d)
  BY <1>1, <1>4 DEF Samples
<1>7. ASSUME Ordered(h) PROVE Ordered(Aged(h, d))
  <2>1. SUFFICES ASSUME NEW i \in 1..n, NEW j \in 1..n, i <= j
                 PROVE  Older(h[j].age, d) <= Older(h[i].age, d)
    BY <1>1, <1>4, <1>6 DEF Ordered
  <2>2. h[j].age <= h[i].age
    BY <1>1, <1>7, <2>1 DEF Ordered
  <2>3. h[j].age \in Nat /\ h[i].age \in Nat
    BY HistoryElements
  <2>4. QED
    BY <2>2, <2>3, TimingAssumption DEF Older, AtMost, Forgotten
<1>8. QED
  BY <1>1, <1>4, <1>5, <1>6, <1>7

\* Observe appends the reading and drops a prefix, so that what is left lies in
\* the window; k is the first sample kept, and may be the new one.
LEMMA ObservedHistory ==
    ASSUME NEW h \in Histories, NEW temp \in Nat, Ordered(h)
    PROVE  LET o == Observe(h, temp)
           IN  /\ o \in Histories /\ Ordered(o) /\ Len(o) > 0
               /\ o[Len(o)] = [age |-> 0, temp |-> temp]
               /\ \A i \in 1..Len(o) : o[i].age <= Window
               /\ \E k \in 1..(Len(h) + 1) :
                     /\ Len(o) = Len(h) + 2 - k
                     /\ \A i \in 1..(Len(h) + 1 - k) : o[i] = h[k + i - 1]
<1> DEFINE n == Len(h)
           new == [age |-> 0, temp |-> temp]
           all == Append(h, new)
           S == {i \in 1..(n + 1) : all[i].age <= Window}
           first == CHOOSE i \in DOMAIN all :
                       all[i].age <= Window /\ \A j \in 1..(i - 1) : all[j].age > Window
           o == SubSeq(all, first, Len(all))
<1>1. n \in Nat /\ \A i \in 1..n : h[i] \in Samples /\ h[i].temp \in Nat /\ h[i].age \in Nat
  BY HistoryElements
<1>2. new \in Samples
  BY TimingAssumption DEF Samples, Ages, Forgotten
<1>3. h \in Seq(Samples)
  BY DEF Histories
<1>4. /\ all \in Seq(Samples) /\ Len(all) = n + 1
      /\ \A i \in 1..n : all[i] = h[i]
      /\ all[n + 1] = new
  BY <1>2, <1>3, AppendProperties
<1>5. DOMAIN all = 1..(n + 1)
  BY <1>4
<1>6. \A i \in 1..(n + 1) : all[i].age \in Nat
  <2>1. new.age = 0
    OBVIOUS
  <2> HIDE DEF new, all
  <2>2. QED
    BY <1>1, <1>4, <2>1
<1> HIDE DEF all
<1>7. n + 1 \in S
  BY <1>1, <1>4, TimingAssumption
<1>8. PICK m \in S : \A i \in S : m <= i
  <2>1. S \in SUBSET Nat
    BY <1>1
  <2> HIDE DEF S
  <2>2. QED
    BY <1>7, <2>1, LeastExists
<1>9. m \in 1..(n + 1) /\ all[m].age <= Window
  OBVIOUS
<1>10. \A j \in 1..(m - 1) : all[j].age > Window
  <2>1. SUFFICES ASSUME NEW j \in 1..(m - 1) PROVE all[j].age > Window
    OBVIOUS
  <2>2. j \in 1..(n + 1) /\ j < m
    BY <1>1, <1>9
  <2>3. j \notin S
    <3>1. ~(m <= j)
      BY <1>9, <2>2
    <3> HIDE DEF S
    <3>2. QED
      BY <1>8, <3>1
  <2>4. all[j].age \in Nat
    BY <1>6, <2>2
  <2>5. QED
    BY <2>2, <2>3, <2>4, TimingAssumption
<1>11. /\ first \in 1..(n + 1) /\ all[first].age <= Window
       /\ \A j \in 1..(first - 1) : all[j].age > Window
  BY <1>5, <1>9, <1>10
<1> HIDE DEF first, S
<1>12. /\ o \in Seq(Samples) /\ Len(o) = n + 2 - first
       /\ \A i \in 1..(n + 2 - first) : o[i] = all[first + i - 1]
  <2>1. /\ SubSeq(all, first, n + 1) \in Seq(Samples)
        /\ Len(SubSeq(all, first, n + 1)) = n + 2 - first
        /\ \A i \in 1..(n + 2 - first) : SubSeq(all, first, n + 1)[i] = all[first + i - 1]
    BY <1>1, <1>4, <1>11
  <2>2. QED
    BY <1>4, <2>1
<1>13. o = Observe(h, temp)
  BY DEF Observe, all, first
<1> HIDE DEF o
<1>14. Len(o) > 0 /\ o[Len(o)] = new
  <2>1. n + 2 - first \in 1..(n + 2 - first) /\ first + (n + 2 - first) - 1 = n + 1
    BY <1>1, <1>11
  <2>2. QED
    BY <1>4, <1>12, <2>1
<1>15. \A i \in 1..(n + 1 - first) : o[i] = h[first + i - 1]
  <2>1. SUFFICES ASSUME NEW i \in 1..(n + 1 - first) PROVE o[i] = h[first + i - 1]
    OBVIOUS
  <2>2. i \in 1..(n + 2 - first) /\ first + i - 1 \in 1..n
    BY <1>1, <1>11
  <2>3. QED
    BY <1>4, <1>12, <2>2
<1>16. \A i, j \in 1..(n + 1) : i <= j => all[j].age <= all[i].age
  <2>1. SUFFICES ASSUME NEW i \in 1..(n + 1), NEW j \in 1..(n + 1), i <= j
                 PROVE  all[j].age <= all[i].age
    OBVIOUS
  <2>2. CASE j = n + 1
    <3>1. all[j].age = 0
      BY <1>4, <2>2
    <3>2. QED
      BY <1>6, <3>1
  <2>3. CASE j # n + 1
    <3>1. i \in 1..n /\ j \in 1..n
      BY <1>1, <2>1, <2>3
    <3>2. h[j].age <= h[i].age
      BY <2>1, <3>1, HistoryElements DEF Ordered
    <3>3. QED
      BY <1>4, <3>1, <3>2
  <2>4. QED
    BY <2>2, <2>3
<1>17. \A i, j \in 1..Len(o) : i <= j => o[j].age <= o[i].age
  <2>1. SUFFICES ASSUME NEW i \in 1..Len(o), NEW j \in 1..Len(o), i <= j
                 PROVE  o[j].age <= o[i].age
    OBVIOUS
  <2>2. /\ first + i - 1 \in 1..(n + 1) /\ first + j - 1 \in 1..(n + 1)
        /\ first + i - 1 <= first + j - 1
    BY <1>1, <1>11, <1>12, <2>1
  <2>3. QED
    BY <1>12, <1>16, <2>2
<1>18. \A i \in 1..Len(o) : o[i].age <= Window
  <2>1. SUFFICES ASSUME NEW i \in 1..Len(o) PROVE o[i].age <= Window
    OBVIOUS
  <2>2. first + i - 1 \in 1..(n + 1) /\ first <= first + i - 1
    BY <1>1, <1>11, <1>12
  <2>3. all[first + i - 1].age <= all[first].age
    BY <1>11, <1>16, <2>2
  <2>4. o[i].age <= all[first].age /\ o[i].age \in Nat /\ all[first].age \in Nat
    BY <1>6, <1>11, <1>12, <2>2, <2>3
  <2>5. QED
    BY <1>11, <2>4, TimingAssumption
<1>19. o \in Histories /\ Ordered(o)
  <2>1. DOMAIN o = 1..Len(o)
    BY <1>12
  <2>2. QED
    BY <1>12, <1>17, <2>1 DEF Histories, Ordered
<1>20. first \in 1..(n + 1) /\ Len(o) = n + 2 - first
  BY <1>11, <1>12
<1>21. QED
  BY <1>13, <1>14, <1>15, <1>18, <1>19, <1>20

\* A boost is a fraction between zero and the cap (Predictor.Boost): never a
\* division by zero, never negative.
BoostOK(b) ==
    /\ b.num \in Nat /\ b.den \in Nat \ {0}
    /\ b.num <= BoostCap * b.den

LEMMA NoBoostOK == BoostOK(NoBoost)
BY TimingAssumption DEF BoostOK, NoBoost

LEMMA BoostBounds ==
    ASSUME NEW h \in Histories, NEW lookahead \in Nat
    PROVE  BoostOK(Boost(h, lookahead))
<1>1. BoostOK(NoBoost)
  BY NoBoostOK
<1>2. BoostOK([num |-> BoostCap, den |-> 1])
  BY TimingAssumption DEF BoostOK
<1>3. CASE /\ lookahead > 0 /\ HasSlope(h) /\ ~(Rise(h) <= 0)
           /\ ~(Rise(h) * lookahead > BoostCap * Span(h))
  <2>1. Len(h) \in Nat /\ Len(h) >= 2
    BY <1>3, HistoryElements DEF HasSlope
  <2>2. Rise(h) \in Int /\ Span(h) \in Int
    BY <2>1, HistoryElements DEF Rise, Span
  <2>3. Rise(h) > 0 /\ Span(h) > 0
    BY <1>3, <2>2, TimingAssumption DEF HasSlope
  <2> DEFINE n == Rise(h) * lookahead
             m == BoostCap * Span(h)
  <2>4. n \in Int /\ m \in Int
    BY <2>2, TimingAssumption
  <2>5. 0 * lookahead <= n
    BY <2>2, <2>3, TimesMonotone
  <2>6. n \in Nat /\ n <= m
    BY <1>3, <2>4, <2>5
  <2>7. Boost(h, lookahead) = [num |-> n, den |-> Span(h)]
    BY <1>3 DEF Boost
  <2> HIDE DEF n
  <2>8. QED
    BY <2>2, <2>3, <2>6, <2>7 DEF BoostOK
<1>4. QED
  BY <1>1, <1>2, <1>3 DEF Boost

-----------------------------------------------------------------------------
(* Curves and decisions.                                                      *)

LEMMA TimesStrict ==
    ASSUME NEW x \in Int, NEW y \in Int, NEW d \in Nat \ {0}, x < y
    PROVE  x * d < y * d
<1>1. x + 1 \in Int /\ x + 1 <= y
  OBVIOUS
<1>2. (x + 1) * d <= y * d
  BY <1>1, TimesMonotone
<1>3. (x + 1) * d = x * d + d
  OBVIOUS
<1>4. x * d \in Int /\ y * d \in Int
  OBVIOUS
<1>5. QED
  BY <1>2, <1>3, <1>4

\* A function on 1..n is a sequence of n elements.
LEMMA FunctionIsSeq ==
    ASSUME NEW S, NEW n \in Nat, NEW f \in [1..n -> S]
    PROVE  f \in Seq(S) /\ Len(f) = n
  OBVIOUS

\* Scaling a curve scales its anchors' temperatures and leaves their percents.
LEMMA ScaledBands ==
    ASSUME NEW c, ValidCurve(c), NEW k \in Nat \ {0}
    PROVE  /\ Scaled(c, k).bands \in Seq([maxTemp : Int, percent : Int])
           /\ Len(Scaled(c, k).bands) = Len(c.bands)
           /\ \A i \in 1..Len(c.bands) :
                /\ Scaled(c, k).bands[i].maxTemp = c.bands[i].maxTemp * k
                /\ Scaled(c, k).bands[i].percent = c.bands[i].percent
<1> DEFINE n == Len(c.bands)
           B == [maxTemp : Int, percent : Int]
           e(i) == [maxTemp |-> c.bands[i].maxTemp * k, percent |-> c.bands[i].percent]
           d == Scaled(c, k)
<1>1. n \in Nat /\ \A j \in 1..n : c.bands[j].maxTemp \in Int /\ c.bands[j].percent \in Int
  BY CurveInts
<1>2. DOMAIN c.bands = 1..n
  BY DEF ValidCurve
<1>3. \A i \in 1..n : e(i) \in B
  <2>1. \A x \in Int : x * k \in Int
    OBVIOUS
  <2>2. QED
    BY <1>1, <2>1
<1>4. d.bands = [i \in 1..n |-> e(i)]
  BY <1>2 DEF Scaled
<1>5. d.bands \in Seq(B) /\ Len(d.bands) = n
  <2> HIDE DEF B, d, e
  <2>1. d.bands \in [1..n -> B]
    BY <1>3, <1>4
  <2>2. n \in Nat
    BY <1>1
  <2> HIDE DEF n
  <2>3. QED
    BY <2>1, <2>2, FunctionIsSeq
<1>6. QED
  BY <1>4, <1>5

\* Scaling a curve keeps it valid and scales its top.
LEMMA ScaledValid ==
    ASSUME NEW c, ValidCurve(c), NEW k \in Nat \ {0}
    PROVE  ValidCurve(Scaled(c, k)) /\ TopOf(Scaled(c, k)) = TopOf(c) * k
<1> DEFINE n == Len(c.bands)
           d == Scaled(c, k)
<1>1. /\ n \in Nat /\ n > 0 /\ c.hysteresis \in Int
      /\ \A j \in 1..n : c.bands[j].maxTemp \in Int /\ c.bands[j].percent \in 0..100
      /\ \A j \in 2..n : c.bands[j-1].maxTemp < c.bands[j].maxTemp
  BY CurveFields
<1>2. c.hysteresis >= 0 /\ c.hysteresis < TopOf(c)
  BY DEF ValidCurve, TopOf
<1>3. d.hysteresis = c.hysteresis
  BY DEF Scaled
<1>4. /\ d.bands \in Seq([maxTemp : Int, percent : Int]) /\ Len(d.bands) = n
      /\ \A i \in 1..n : /\ d.bands[i].maxTemp = c.bands[i].maxTemp * k
                         /\ d.bands[i].percent = c.bands[i].percent
  BY ScaledBands
<1> HIDE DEF d
<1>5. \A i \in 2..n : d.bands[i-1].maxTemp < d.bands[i].maxTemp
  <2>1. SUFFICES ASSUME NEW i \in 2..n PROVE d.bands[i-1].maxTemp < d.bands[i].maxTemp
    OBVIOUS
  <2>2. i - 1 \in 1..n /\ i \in 1..n
    BY <1>1
  <2>3. c.bands[i-1].maxTemp * k < c.bands[i].maxTemp * k
    BY <1>1, <2>2, TimesStrict
  <2>4. QED
    BY <1>4, <2>2, <2>3
<1>6. TopOf(d) = TopOf(c) * k
  <2>1. n \in 1..n
    BY <1>1
  <2>2. Top(d) = d.bands[n] /\ Top(c) = c.bands[n]
    BY <1>4 DEF Top
  <2>3. QED
    BY <1>4, <2>1, <2>2 DEF TopOf
<1>7. c.hysteresis < TopOf(d)
  <2>1. TopOf(c) \in Int
    BY <1>1 DEF TopOf, Top
  <2>2. TopOf(c) * 1 <= TopOf(c) * k
    <3>1. 0 <= TopOf(c) /\ 1 <= k
      BY <1>1, <1>2, <2>1
    <3>2. 1 * TopOf(c) <= k * TopOf(c)
      BY <2>1, <3>1, TimesMonotone
    <3>3. QED
      BY <2>1, <3>2
  <2>3. QED
    BY <1>1, <1>2, <1>6, <2>1, <2>2
<1>8. \A i \in 1..n : d.bands[i].percent \in 0..100
  BY <1>1, <1>4
<1>9. ValidCurve(d)
  <2>1. DOMAIN d.bands = 1..n
    BY <1>4
  <2>2. Top(d).maxTemp = TopOf(d)
    BY DEF TopOf
  <2>3. QED
    BY <1>1, <1>2, <1>3, <1>4, <1>5, <1>7, <1>8, <2>1, <2>2 DEF ValidCurve
<1>10. QED
  BY <1>6, <1>9 DEF d

\* A fraction whose terms are scaled has the same quotient.
LEMMA QuotientScales ==
    ASSUME NEW a \in Int, NEW b \in Nat \ {0}, NEW k \in Nat \ {0}
    PROVE  (a * k) \div (b * k) = a \div b
<1> DEFINE q == a \div b
           p == (a * k) \div (b * k)
           m == b * k
<1>1. q \in Int /\ q * b <= a /\ a < (q + 1) * b
  OBVIOUS
<1>2. m \in Nat \ {0} /\ a * k \in Int
  <2>1. 0 * k < b * k
    BY TimesStrict
  <2>2. b * k \in Int /\ 0 * k = 0
    OBVIOUS
  <2>3. QED
    BY <2>1, <2>2
<1>3. p \in Int /\ p * m <= a * k /\ a * k < (p + 1) * m
  <2> DEFINE z == a * k
  <2> HIDE DEF m, z
  <2>1. z \div m \in Int /\ (z \div m) * m <= z /\ z < ((z \div m) + 1) * m
    BY <1>2 DEF z
  <2>2. QED
    BY <2>1 DEF m, z
<1>4. q * m <= a * k /\ a * k < (q + 1) * m
  <2> HIDE DEF q
  <2>1. q * b \in Int /\ (q + 1) * b \in Int
    BY <1>1
  <2>2. (q * b) * k <= a * k /\ a * k < ((q + 1) * b) * k
    BY <1>1, <2>1, TimesMonotone, TimesStrict
  <2>3. (q * b) * k = q * (b * k) /\ ((q + 1) * b) * k = (q + 1) * (b * k)
    BY <1>1
  <2>4. QED
    BY <2>2, <2>3
<1> HIDE DEF q, p, m
<1>5. q < p + 1
  <2>1. SUFFICES ASSUME p + 1 <= q PROVE FALSE
    BY <1>1, <1>3
  <2>2. (p + 1) * m <= q * m
    BY <1>1, <1>2, <1>3, <2>1, TimesMonotone
  <2>3. (p + 1) * m \in Int /\ q * m \in Int
    BY <1>1, <1>2, <1>3
  <2>4. QED
    BY <1>2, <1>3, <1>4, <2>2, <2>3
<1>6. p < q + 1
  <2>1. SUFFICES ASSUME q + 1 <= p PROVE FALSE
    BY <1>1, <1>3
  <2>2. (q + 1) * m <= p * m
    BY <1>1, <1>2, <1>3, <2>1, TimesMonotone
  <2>3. (q + 1) * m \in Int /\ p * m \in Int
    BY <1>1, <1>2, <1>3
  <2>4. QED
    BY <1>2, <1>3, <1>4, <2>2, <2>3
<1>7. p = q
  BY <1>1, <1>3, <1>5, <1>6
<1>8. QED
  BY <1>7 DEF p, q, m

LEMMA RoundDivScales ==
    ASSUME NEW num \in Int, NEW den \in Nat \ {0}, NEW k \in Nat \ {0}
    PROVE  RoundDiv(num * k, den * k) = RoundDiv(num, den)
<1>1. 2 * num + den \in Int /\ 2 * den \in Nat \ {0}
  OBVIOUS
<1>2. ((2 * num + den) * k) \div ((2 * den) * k) = (2 * num + den) \div (2 * den)
  BY <1>1, QuotientScales
<1>3. 2 * (num * k) + den * k = (2 * num + den) * k /\ 2 * (den * k) = (2 * den) * k
  OBVIOUS
<1>4. QED
  BY <1>2, <1>3 DEF RoundDiv

\* A temperature and a segment scaled together interpolate to the same duty.
LEMMA InterpolateScales ==
    ASSUME NEW c, ValidCurve(c), NEW k \in Nat \ {0}, NEW x \in Int,
           NEW i \in 2..Len(c.bands)
    PROVE  Interpolate(Scaled(c, k), i, x * k) = Interpolate(c, i, x)
<1> DEFINE l == c.bands[i-1].maxTemp
           h == c.bands[i].maxTemp
           p == c.bands[i-1].percent
           q == c.bands[i].percent
<1>1. i \in 1..Len(c.bands) /\ i - 1 \in 1..Len(c.bands)
  BY CurveInts
<1>2. l \in Int /\ h \in Int /\ p \in Int /\ q \in Int /\ l < h
  BY <1>1, CurveInts
<1>3. /\ Scaled(c, k).bands[i-1].maxTemp = l * k /\ Scaled(c, k).bands[i-1].percent = p
      /\ Scaled(c, k).bands[i].maxTemp = h * k /\ Scaled(c, k).bands[i].percent = q
  BY <1>1, ScaledBands
<1>4. /\ Interpolate(c, i, x) = RoundDiv(p * (h - l) + (x - l) * (q - p), h - l)
      /\ Interpolate(Scaled(c, k), i, x * k)
            = RoundDiv(p * (h * k - l * k) + (x * k - l * k) * (q - p), h * k - l * k)
  BY <1>3 DEF Interpolate
<1> HIDE DEF l, h, p, q
<1> DEFINE num == p * (h - l) + (x - l) * (q - p)
<1>5. h - l \in Nat \ {0} /\ num \in Int
  BY <1>2
<1>6. h * k - l * k = (h - l) * k /\ x * k - l * k = (x - l) * k
  BY <1>2
<1>7. p * ((h - l) * k) + ((x - l) * k) * (q - p) = num * k
  <2>1. p * ((h - l) * k) = (p * (h - l)) * k
    BY <1>2
  <2>2. ((x - l) * k) * (q - p) = ((x - l) * (q - p)) * k
    BY <1>2
  <2>3. p * (h - l) \in Int /\ (x - l) * (q - p) \in Int
    BY <1>2
  <2>4. \A u, v \in Int : u * k + v * k = (u + v) * k
    OBVIOUS
  <2>5. QED
    BY <2>1, <2>2, <2>3, <2>4
<1>8. RoundDiv(num * k, (h - l) * k) = RoundDiv(num, h - l)
  BY <1>5, RoundDivScales
<1>9. QED
  BY <1>4, <1>6, <1>7, <1>8

\* A temperature lies on one segment of a curve at most.
LEMMA OneSegment ==
    ASSUME NEW c, ValidCurve(c), NEW x \in Int,
           NEW i \in 2..Len(c.bands), NEW j \in 2..Len(c.bands),
           c.bands[i-1].maxTemp < x, x <= c.bands[i].maxTemp,
           c.bands[j-1].maxTemp < x, x <= c.bands[j].maxTemp
    PROVE  i = j
<1>1. ASSUME NEW u \in 2..Len(c.bands), NEW v \in 2..Len(c.bands), u < v,
             x <= c.bands[u].maxTemp, c.bands[v-1].maxTemp < x
      PROVE  FALSE
  <2>1. u \in 1..Len(c.bands) /\ v - 1 \in u..Len(c.bands) /\ v - 1 \in 1..Len(c.bands)
    BY <1>1, CurveInts
  <2>2. c.bands[u].maxTemp <= c.bands[v-1].maxTemp
    BY <2>1, AnchorsInOrder
  <2>3. c.bands[u].maxTemp \in Int /\ c.bands[v-1].maxTemp \in Int
    BY <2>1, CurveInts
  <2>4. QED
    BY <1>1, <2>2, <2>3
<1>2. i < j \/ i = j \/ j < i
  OBVIOUS
<1>3. QED
  BY <1>1, <1>2

\* Scaling a curve and a temperature alike does not change the duty: computing
\* with exact fractions is computing the curve of Curve.Duty.
LEMMA ScalingIsExact ==
    ASSUME NEW c, ValidCurve(c), NEW k \in Nat \ {0}, NEW x \in Int
    PROVE  Duty(Scaled(c, k), x * k) = Duty(c, x)
<1> DEFINE d == Scaled(c, k)
           n == Len(c.bands)
<1>1. /\ ValidCurve(d) /\ Len(d.bands) = n
      /\ \A i \in 1..n : /\ d.bands[i].maxTemp = c.bands[i].maxTemp * k
                         /\ d.bands[i].percent = c.bands[i].percent
  BY ScaledBands, ScaledValid
<1>2. /\ n \in Nat /\ 1 \in 1..n /\ n \in 1..n /\ x * k \in Int
      /\ \A i \in 1..n : c.bands[i].maxTemp \in Int /\ c.bands[i].percent \in Int
  BY CurveInts
<1>0. SUFFICES Duty(d, x * k) = Duty(c, x)
  OBVIOUS
<1> HIDE DEF d
<1>3. \A i \in 1..n : /\ x <= c.bands[i].maxTemp <=> x * k <= d.bands[i].maxTemp
                      /\ x > c.bands[i].maxTemp <=> x * k > d.bands[i].maxTemp
  <2>1. SUFFICES ASSUME NEW i \in 1..n
                 PROVE  /\ x <= c.bands[i].maxTemp <=> x * k <= c.bands[i].maxTemp * k
                        /\ x > c.bands[i].maxTemp <=> x * k > c.bands[i].maxTemp * k
    BY <1>1
  <2>2. c.bands[i].maxTemp \in Int /\ c.bands[i].maxTemp * k \in Int
    BY <1>2
  <2>3. x <= c.bands[i].maxTemp => x * k <= c.bands[i].maxTemp * k
    BY <2>2, TimesMonotone
  <2>4. c.bands[i].maxTemp < x => c.bands[i].maxTemp * k < x * k
    BY <2>2, TimesStrict
  <2>5. QED
    BY <1>2, <2>2, <2>3, <2>4
<1>4. Top(c) = c.bands[n] /\ Top(d) = d.bands[n]
  BY <1>1 DEF Top
<1>5. CASE x > Top(c).maxTemp
  <2>1. x * k > Top(d).maxTemp
    BY <1>2, <1>3, <1>4, <1>5
  <2>2. QED
    BY <1>5, <2>1 DEF Duty
<1>6. CASE x <= Top(c).maxTemp /\ x <= c.bands[1].maxTemp
  <2>1. x * k <= Top(d).maxTemp /\ x * k <= d.bands[1].maxTemp
    BY <1>2, <1>3, <1>4, <1>6
  <2>2. QED
    BY <1>1, <1>2, <1>6, <2>1, DutyParts
<1>7. CASE x <= Top(c).maxTemp /\ c.bands[1].maxTemp < x
  <2>1. x * k <= Top(d).maxTemp /\ d.bands[1].maxTemp < x * k
    BY <1>2, <1>3, <1>4, <1>7
  <2>2. PICK i \in 2..n : OnSegment(c, i, x)
    BY <1>7, DutyParts
  <2>3. PICK j \in 2..n : OnSegment(d, j, x * k)
    BY <1>1, <1>2, <2>1, DutyParts
  <2>4. i = j
    <3>1. j \in 1..n /\ j - 1 \in 1..n
      BY <1>2
    <3>2. c.bands[j-1].maxTemp < x /\ x <= c.bands[j].maxTemp
      BY <1>2, <1>3, <2>3, <3>1 DEF OnSegment
    <3>3. QED
      BY <2>2, <3>2, OneSegment DEF OnSegment
  <2>5. Interpolate(d, i, x * k) = Interpolate(c, i, x)
    BY InterpolateScales DEF d
  <2>6. QED
    BY <2>2, <2>3, <2>4, <2>5 DEF OnSegment
<1>8. x > Top(c).maxTemp \/ x <= Top(c).maxTemp
  BY <1>2, <1>4
<1>9. x <= c.bands[1].maxTemp \/ c.bands[1].maxTemp < x
  BY <1>2
<1>10. QED
  BY <1>5, <1>6, <1>7, <1>8, <1>9

\* A boost of whole degrees has the curve look that many degrees ahead, and no
\* boost has it look at the reading (controller.step): with such boosts a source
\* is what the control loop's model takes it for, a reading and an effective one.
THEOREM WholeBoostsAddUp ==
    ASSUME NEW c, ValidCurve(c), NEW raw \in Nat, NEW ahead \in Nat, NEW den \in Nat \ {0}
    PROVE  /\ DutyOf(c, raw, [num |-> ahead * den, den |-> den]) = Duty(c, raw + ahead)
           /\ DutyOf(c, raw, NoBoost) = Duty(c, raw)
<1>1. raw # None
  BY DEF None
<1>2. raw * den + ahead * den = (raw + ahead) * den
  OBVIOUS
<1>3. Duty(Scaled(c, den), (raw + ahead) * den) = Duty(c, raw + ahead)
  BY ScalingIsExact
<1>4. Duty(Scaled(c, 1), raw * 1) = Duty(c, raw)
  BY ScalingIsExact
<1>5. raw * 1 + 0 = raw * 1
  OBVIOUS
<1>6. QED
  BY <1>1, <1>2, <1>3, <1>4, <1>5 DEF DutyOf, NoBoost

\* Prediction only adds cooling (Predictor.Boost clamps at zero): on a curve that
\* rises, a source never asks for less with a boost than without, and never keeps
\* manual control where its reading alone would end it.
THEOREM PredictionOnlyAdds ==
    ASSUME NEW c, ValidCurve(c), Rising(c), NEW raw \in Nat \cup {None}, NEW b, BoostOK(b)
    PROVE  \/ DutyOf(c, raw, b).auto
           \/ /\ ~DutyOf(c, raw, NoBoost).auto
              /\ DutyOf(c, raw, NoBoost).pct <= DutyOf(c, raw, b).pct
<1>1. CASE raw = None
  BY <1>1 DEF DutyOf
<1>2. CASE raw # None
  <2> DEFINE d == Scaled(c, b.den)
  <2>1. raw \in Nat /\ b.num \in Nat /\ b.den \in Nat \ {0}
    BY <1>2 DEF BoostOK
  <2>2. ValidCurve(d) /\ Rising(d)
    <3>1. /\ Len(d.bands) = Len(c.bands) /\ Len(c.bands) \in Nat
          /\ \A i \in 1..Len(c.bands) : d.bands[i].percent = c.bands[i].percent
      BY <2>1, ScaledBands, CurveInts
    <3>2. \A i \in 2..Len(c.bands) : i \in 1..Len(c.bands) /\ i - 1 \in 1..Len(c.bands)
      BY <3>1
    <3>3. Rising(d)
      BY <3>1, <3>2 DEF Rising
    <3>4. QED
      BY <2>1, <3>3, ScaledValid
  <2>3. /\ raw * b.den \in Int /\ raw * b.den + b.num \in Int
        /\ raw * b.den <= raw * b.den + b.num
    BY <2>1
  <2>4. \/ Duty(d, raw * b.den + b.num).auto
        \/ /\ ~Duty(d, raw * b.den).auto
           /\ Duty(d, raw * b.den).pct <= Duty(d, raw * b.den + b.num).pct
    <3> HIDE DEF d
    <3>1. QED
      BY <2>2, <2>3, RisingDuty
  <2>5. Duty(d, raw * b.den) = Duty(c, raw)
    BY <2>1, ScalingIsExact
  <2>6. DutyOf(c, raw, NoBoost) = Duty(c, raw)
    <3>1. 0 \in Nat /\ 1 \in Nat \ {0}
      OBVIOUS
    <3>2. QED
      BY <2>1, <3>1, WholeBoostsAddUp
  <2>7. DutyOf(c, raw, b) = Duty(d, raw * b.den + b.num)
    BY <1>2 DEF DutyOf
  <2>8. QED
    BY <2>4, <2>5, <2>6, <2>7
<1>3. QED
  BY <1>1, <1>2

\* A source asks for the BMC when its reading is over the top, and only when
\* it is within the cap of the top.
LEMMA DutyOfCases ==
    ASSUME NEW c, ValidCurve(c), NEW raw \in Nat \cup {None}, NEW b, BoostOK(b)
    PROVE  /\ DutyOf(c, raw, b) \in [pct : 0..100, auto : BOOLEAN]
           /\ raw # None /\ raw > TopOf(c) => DutyOf(c, raw, b).auto
           /\ DutyOf(c, raw, b).auto => Warm(c, raw)
<1>1. CASE raw = None
  BY <1>1 DEF DutyOf
<1>2. CASE raw # None
  <2> DEFINE top == TopOf(c)
             sc == Scaled(c, b.den)
             t == raw * b.den + b.num
  <2>1. raw \in Nat /\ b.num \in Nat /\ b.den \in Nat \ {0} /\ BoostCap \in Nat
    BY <1>2, TimingAssumption DEF BoostOK
  <2>2. top \in Int
    BY CurveFields DEF TopOf, Top
  <2>3. ValidCurve(sc) /\ TopOf(sc) = top * b.den
    BY <2>1, ScaledValid
  <2>4. t \in Int
    BY <2>1
  <2>5. DutyOf(c, raw, b) = Duty(sc, t)
    BY <1>2 DEF DutyOf
  <2>6. Duty(sc, t) \in [pct : 0..100, auto : BOOLEAN]
    BY <2>3, <2>4, DutyInRange
  <2>7. Duty(sc, t).auto <=> t > top * b.den
    BY <2>3 DEF Duty, TopOf
  <2>8. raw > top => t > top * b.den
    <3>1. SUFFICES ASSUME raw > top PROVE t > top * b.den
      OBVIOUS
    <3>2. top * b.den < raw * b.den
      BY <2>1, <2>2, <3>1, TimesStrict
    <3>3. top * b.den \in Int /\ raw * b.den \in Int
      BY <2>1, <2>2
    <3>4. QED
      BY <2>1, <3>2, <3>3
  <2>9. t > top * b.den => raw > top - BoostCap
    <3>1. SUFFICES ASSUME t > top * b.den, raw <= top - BoostCap PROVE FALSE
      BY <2>1, <2>2
    <3>2. raw * b.den <= (top - BoostCap) * b.den
      BY <2>1, <2>2, <3>1, TimesMonotone
    <3>3. (top - BoostCap) * b.den = top * b.den - BoostCap * b.den
      BY <2>1, <2>2
    <3>4. b.num <= BoostCap * b.den
      BY DEF BoostOK
    <3>5. raw * b.den \in Int /\ top * b.den \in Int /\ BoostCap * b.den \in Int
      BY <2>1, <2>2
    <3>6. QED
      BY <2>1, <3>1, <3>2, <3>3, <3>4, <3>5
  <2>10. QED
    BY <1>2, <2>5, <2>6, <2>7, <2>8, <2>9 DEF Warm
<1>3. QED
  BY <1>1, <1>2

\* The governor leaves the fans to the BMC when asked to, or when the BMC has them
\* and a source is too warm to take them back, and only then.
LEMMA GovNextAuto ==
    ASSUME NEW g \in GovernorSet, NEW s \in CommandStates, NEW target \in Int,
           NEW wantAuto \in BOOLEAN, NEW canReclaim \in BOOLEAN
    PROVE  GovNext(g, s, target, wantAuto, canReclaim).auto
              <=> wantAuto \/ (s.init /\ s.auto /\ ~canReclaim)
<1> DEFINE pct == ClampPct(target)
           r == GovNext(g, s, target, wantAuto, canReclaim)
<1>1. pct \in 0..100
  BY ClampPctType
<1> HIDE DEF pct
<1>2. CASE ~s.init
  <2>1. r = [Manual(pct) EXCEPT !.auto = wantAuto]
    BY <1>2 DEF GovNext, pct
  <2>2. r.auto = wantAuto
    BY <2>1 DEF Manual
  <2>3. QED
    BY <1>2, <2>2
<1>3. CASE s.init /\ s.auto
  <2>1. r = Reclaim(s, pct, wantAuto, canReclaim)
    BY <1>3 DEF GovNext, pct
  <2>2. r.auto <=> wantAuto \/ ~canReclaim
    BY <1>3, <2>1 DEF Reclaim, Manual
  <2>3. QED
    BY <1>3, <2>2
<1>4. CASE s.init /\ ~s.auto /\ wantAuto
  BY <1>4 DEF GovNext, BmcAuto
<1>5. CASE s.init /\ ~s.auto /\ ~wantAuto
  <2>1. r = Regulate(g, s, pct)
    BY <1>5 DEF GovNext, pct
  <2>2. ~r.auto
    BY <1>1, <1>5, <2>1, RegulateCases DEF RegulateOutcome
  <2>3. QED
    BY <1>5, <2>2
<1>6. QED
  BY <1>2, <1>3, <1>4, <1>5

\* What a decision promises: a commanded state, the BMC when a source is over
\* its top, blind or failing, and the BMC after manual control only then or
\* when a source is warm.
LEMMA DecisionCases ==
    ASSUME NEW t \in Configs, NEW s \in CommandStates,
           NEW cpu \in Nat \cup {None}, NEW gpu \in Nat \cup {None},
           NEW cb, BoostOK(cb), NEW gb, BoostOK(gb), NEW fail \in BOOLEAN
    PROVE  LET r == Decision(t, s, cpu, gpu, cb, gb, fail)
           IN  /\ r \in CommandStates
               /\ fail \/ (cpu = None /\ gpu = None) => r.auto
               /\ cpu # None /\ cpu > TopOf(t.curve) => r.auto
               /\ gpu # None /\ gpu > TopOf(t.gpuCurve) => r.auto
               /\ s.init /\ ~s.auto /\ r.auto =>
                     \/ fail \/ (cpu = None /\ gpu = None)
                     \/ Warm(t.curve, cpu) \/ Warm(t.gpuCurve, gpu)
<1> DEFINE c == DutyOf(t.curve, cpu, cb)
           g == DutyOf(t.gpuCurve, gpu, gb)
           target == Greater(c.pct, g.pct)
           wantAuto == c.auto \/ g.auto
           canReclaim == MayReclaim(t.curve, cpu) /\ MayReclaim(t.gpuCurve, gpu)
           r == Decision(t, s, cpu, gpu, cb, gb, fail)
           blind == fail \/ (cpu = None /\ gpu = None)
<1>1. ValidCurve(t.curve) /\ ValidCurve(t.gpuCurve) /\ t.gov \in GovernorSet
  BY ConfigsAssumption DEF GovernorSet
<1>2. /\ c \in [pct : 0..100, auto : BOOLEAN]
      /\ cpu # None /\ cpu > TopOf(t.curve) => c.auto
      /\ c.auto => Warm(t.curve, cpu)
  BY <1>1, DutyOfCases
<1>3. /\ g \in [pct : 0..100, auto : BOOLEAN]
      /\ gpu # None /\ gpu > TopOf(t.gpuCurve) => g.auto
      /\ g.auto => Warm(t.gpuCurve, gpu)
  BY <1>1, DutyOfCases
<1>4. BmcAuto \in CommandStates /\ BmcAuto.auto
  BY ManualType DEF BmcAuto
<1>5. r = IF blind THEN BmcAuto ELSE GovNext(t.gov, s, target, wantAuto, canReclaim)
  BY DEF Decision
<1> HIDE DEF c, g
<1>6. target \in Int
  BY <1>2, <1>3 DEF Greater
<1>7. wantAuto \in BOOLEAN /\ canReclaim \in BOOLEAN
  OBVIOUS
<1> HIDE DEF target, canReclaim, wantAuto
<1> DEFINE q == GovNext(t.gov, s, target, wantAuto, canReclaim)
<1>8. q \in CommandStates
  BY <1>1, <1>6, <1>7, GovNextType
<1>9. wantAuto => q.auto
  BY <1>1, <1>6, <1>7, GovNextAuto
<1>10. s.init /\ ~s.auto /\ q.auto => wantAuto
  BY <1>1, <1>6, <1>7, GovNextAuto
<1> HIDE DEF q
<1>11. r = IF blind THEN BmcAuto ELSE q
  BY <1>5 DEF q
<1> HIDE DEF r
<1>12. CASE blind
  BY <1>4, <1>11, <1>12 DEF r
<1>13. CASE ~blind
  <2>1. r = q
    BY <1>11, <1>13
  <2>2. c.auto => wantAuto
    BY DEF wantAuto
  <2>3. g.auto => wantAuto
    BY DEF wantAuto
  <2>4. wantAuto => c.auto \/ g.auto
    BY DEF wantAuto
  <2>5. QED
    BY <1>2, <1>3, <1>8, <1>9, <1>10, <1>13, <2>1, <2>2, <2>3, <2>4 DEF r
<1>14. QED
  BY <1>12, <1>13

\* Where the readings alone end manual control, or keep the BMC in control, the
\* decision with any boosts does too (controller.step, with Predictor.Boost): the
\* reclaim looks at the readings, and a boost only ever adds to them.
THEOREM PredictionNeverKeepsControl ==
    ASSUME NEW t \in Configs, NEW s \in CommandStates,
           NEW cpu \in Nat \cup {None}, NEW gpu \in Nat \cup {None},
           NEW cb, BoostOK(cb), NEW gb, BoostOK(gb), NEW fail \in BOOLEAN,
           Decision(t, s, cpu, gpu, NoBoost, NoBoost, fail).auto
    PROVE  Decision(t, s, cpu, gpu, cb, gb, fail).auto
<1> DEFINE c0 == DutyOf(t.curve, cpu, NoBoost)
           g0 == DutyOf(t.gpuCurve, gpu, NoBoost)
           c == DutyOf(t.curve, cpu, cb)
           g == DutyOf(t.gpuCurve, gpu, gb)
           canReclaim == MayReclaim(t.curve, cpu) /\ MayReclaim(t.gpuCurve, gpu)
           blind == fail \/ (cpu = None /\ gpu = None)
<1>1. ValidCurve(t.curve) /\ ValidCurve(t.gpuCurve) /\ t.gov \in GovernorSet
  BY ConfigsAssumption DEF GovernorSet
<1>2. ASSUME NEW u, ValidCurve(u), NEW raw \in Nat \cup {None}, NEW b, BoostOK(b)
      PROVE  /\ DutyOf(u, raw, b) \in [pct : 0..100, auto : BOOLEAN]
             /\ DutyOf(u, raw, NoBoost) \in [pct : 0..100, auto : BOOLEAN]
             /\ DutyOf(u, raw, NoBoost).auto => DutyOf(u, raw, b).auto
  <2>1. /\ DutyOf(u, raw, b) \in [pct : 0..100, auto : BOOLEAN]
        /\ DutyOf(u, raw, NoBoost) \in [pct : 0..100, auto : BOOLEAN]
        /\ raw # None /\ raw > TopOf(u) => DutyOf(u, raw, b).auto
    BY <1>2, NoBoostOK, DutyOfCases
  <2>2. CASE raw = None
    BY <2>1, <2>2 DEF DutyOf
  <2>3. CASE raw # None
    <3>1. raw \in Nat /\ 0 \in Nat /\ 1 \in Nat \ {0}
      BY <2>3
    <3>2. DutyOf(u, raw, NoBoost) = Duty(u, raw)
      BY <1>2, <3>1, WholeBoostsAddUp
    <3>3. Duty(u, raw).auto => raw > TopOf(u)
      BY DEF Duty, TopOf
    <3>4. QED
      BY <2>1, <2>3, <3>2, <3>3
  <2>4. QED
    BY <2>2, <2>3
<1>3. /\ c \in [pct : 0..100, auto : BOOLEAN] /\ c0 \in [pct : 0..100, auto : BOOLEAN]
      /\ g \in [pct : 0..100, auto : BOOLEAN] /\ g0 \in [pct : 0..100, auto : BOOLEAN]
      /\ c0.auto => c.auto
      /\ g0.auto => g.auto
  BY <1>1, <1>2
<1>4. /\ Decision(t, s, cpu, gpu, NoBoost, NoBoost, fail)
            = IF blind THEN BmcAuto
              ELSE GovNext(t.gov, s, Greater(c0.pct, g0.pct), c0.auto \/ g0.auto, canReclaim)
      /\ Decision(t, s, cpu, gpu, cb, gb, fail)
            = IF blind THEN BmcAuto
              ELSE GovNext(t.gov, s, Greater(c.pct, g.pct), c.auto \/ g.auto, canReclaim)
  BY DEF Decision
<1> HIDE DEF c0, g0, c, g, canReclaim
<1>5. CASE blind
  BY <1>4, <1>5 DEF BmcAuto
<1>6. CASE ~blind
  <2>1. Greater(c0.pct, g0.pct) \in Int /\ Greater(c.pct, g.pct) \in Int
    BY <1>3 DEF Greater
  <2>2. /\ (c0.auto \/ g0.auto) \in BOOLEAN /\ (c.auto \/ g.auto) \in BOOLEAN
        /\ canReclaim \in BOOLEAN
    BY DEF canReclaim
  <2>3. /\ GovNext(t.gov, s, Greater(c0.pct, g0.pct), c0.auto \/ g0.auto, canReclaim).auto
              <=> (c0.auto \/ g0.auto) \/ (s.init /\ s.auto /\ ~canReclaim)
        /\ GovNext(t.gov, s, Greater(c.pct, g.pct), c.auto \/ g.auto, canReclaim).auto
              <=> (c.auto \/ g.auto) \/ (s.init /\ s.auto /\ ~canReclaim)
    BY <1>1, <2>1, <2>2, GovNextAuto
  <2>4. QED
    BY <1>3, <1>4, <1>6, <2>3
<1>7. QED
  BY <1>5, <1>6

-----------------------------------------------------------------------------
(* The inductive invariant.                                                   *)

\* Wherever a history rises, the last rise is no older than its lower sample.
RoseSince(h, rose) ==
    \A i, j \in DOMAIN h : i <= j /\ h[j].temp > h[i].temp => rose <= h[i].age

\* No sample is older than a reload.
NoOlder(h, age) == \A i \in DOMAIN h : h[i].age <= age

\* Within the least span of a reload no straddling step has left old samples.
Fresh(h) == ~straddled /\ reloadAge < MinSpan => NoOlder(h, reloadAge)

Inv ==
    /\ TypeOK
    /\ RoseSince(cpuPred, roseAge) /\ RoseSince(gpuPred, roseAge)
    /\ Fresh(cpuPred) /\ Fresh(gpuPred)
    /\ TooHotHandsOver
    /\ HandOverIsWarranted
    /\ SteadyIsTakenAsRead

\* Ageing keeps both facts about a history.
LEMMA AgedKeeps ==
    ASSUME NEW h \in Histories, NEW d \in Nat, NEW rose \in Ages, RoseSince(h, rose)
    PROVE  /\ RoseSince(Aged(h, d), Older(rose, d))
           /\ \A a \in Nat : NoOlder(h, a) => NoOlder(Aged(h, d), a + d)
<1>1. \A i \in DOMAIN h : h[i].age \in Nat /\ h[i].temp \in Nat
  BY HistoryElements
<1>2. rose \in Nat
  BY TimingAssumption DEF Ages, Forgotten
<1>3. \A x, y \in Nat : x <= y => Older(x, d) <= Older(y, d)
  BY TimingAssumption DEF Older, AtMost, Forgotten
<1>4. \A x \in Nat : Older(x, d) <= x + d
  BY TimingAssumption DEF Older, AtMost, Forgotten
<1>5. RoseSince(Aged(h, d), Older(rose, d))
  <2>1. SUFFICES ASSUME NEW i \in DOMAIN h, NEW j \in DOMAIN h, i <= j,
                        h[j].temp > h[i].temp
                 PROVE  Older(rose, d) <= Older(h[i].age, d)
    BY AgedHistory DEF RoseSince
  <2>2. rose <= h[i].age
    BY <2>1 DEF RoseSince
  <2>3. QED
    BY <1>1, <1>2, <1>3, <2>2
<1>6. ASSUME NEW a \in Nat, NoOlder(h, a) PROVE NoOlder(Aged(h, d), a + d)
  <2>1. SUFFICES ASSUME NEW i \in DOMAIN h PROVE Older(h[i].age, d) <= a + d
    BY AgedHistory DEF NoOlder
  <2>2. h[i].age <= a /\ h[i].age \in Nat
    BY <1>1, <1>6 DEF NoOlder
  <2>3. QED
    BY <2>2, TimingAssumption DEF Older, AtMost, Forgotten
<1>7. QED
  BY <1>5, <1>6

\* Observing keeps them, with the age of the last rise brought up to date.
LEMMA ObservedKeeps ==
    ASSUME NEW h \in Histories, Ordered(h), NEW temp \in Nat \cup {None},
           NEW old \in Ages, RoseSince(h, old),
           NEW rose, rose = 0 \/ (rose = old /\ ~Rises(h, temp))
    PROVE  LET o == Observed(h, temp)
           IN  /\ o \in Histories /\ Ordered(o)
               /\ RoseSince(o, rose)
               /\ \A a \in Nat : NoOlder(h, a) => NoOlder(o, a)
               /\ temp # None => Len(o) > 0 /\ \A i \in 1..Len(o) : o[i].age <= Window
<1>1. rose \in Nat /\ old \in Nat /\ rose <= old
  BY TimingAssumption DEF Ages, Forgotten
<1>2. RoseSince(h, rose)
  <2>1. \A i \in DOMAIN h : h[i].age \in Nat
    BY HistoryElements
  <2>2. QED
    BY <1>1, <2>1 DEF RoseSince
<1>3. CASE temp = None
  BY <1>2, <1>3 DEF Observed
<1>4. CASE temp # None
  <2> DEFINE o == Observe(h, temp)
             n == Len(h)
  <2>1. temp \in Nat
    BY <1>4
  <2>2. /\ o \in Histories /\ Ordered(o) /\ Len(o) > 0
        /\ o[Len(o)] = [age |-> 0, temp |-> temp]
        /\ \A i \in 1..Len(o) : o[i].age <= Window
    BY <2>1, ObservedHistory
  <2>3. PICK k \in 1..(n + 1) : /\ Len(o) = n + 2 - k
                                /\ \A i \in 1..(n + 1 - k) : o[i] = h[k + i - 1]
    BY <2>1, ObservedHistory
  <2> HIDE DEF o
  <2>4. /\ n \in Nat /\ DOMAIN h = 1..n
        /\ \A i \in 1..n : h[i].temp \in Nat /\ h[i].age \in Nat
    BY HistoryElements
  <2>5. /\ Len(o) \in Nat /\ DOMAIN o = 1..Len(o)
        /\ \A i \in 1..Len(o) : o[i].temp \in Nat /\ o[i].age \in Nat
    BY <2>2, HistoryElements
  <2>6. \A i \in 1..Len(o) : i # Len(o) => k + i - 1 \in 1..n /\ o[i] = h[k + i - 1]
    <3>1. SUFFICES ASSUME NEW i \in 1..Len(o), i # Len(o)
                   PROVE  k + i - 1 \in 1..n /\ o[i] = h[k + i - 1]
      OBVIOUS
    <3>2. i \in 1..(n + 1 - k) /\ k + i - 1 \in 1..n
      BY <2>3, <2>4, <3>1
    <3>3. QED
      BY <2>3, <3>2
  <2>7. o[Len(o)].temp = temp /\ o[Len(o)].age = 0
    BY <2>2
  <2>8. RoseSince(o, rose)
    <3>1. SUFFICES ASSUME NEW i \in 1..Len(o), NEW j \in 1..Len(o), i <= j,
                          o[j].temp > o[i].temp
                   PROVE  rose <= o[i].age
      BY <2>5 DEF RoseSince
    <3>2. i # j
      BY <2>5, <3>1
    <3>3. i # Len(o) /\ i < j
      <4>1. Len(o) \in Nat
        BY <2>5
      <4>2. i <= j
        BY <3>1
      <4>3. QED
        BY <3>2, <4>1, <4>2
    <3>4. k + i - 1 \in 1..n /\ o[i] = h[k + i - 1]
      BY <2>6, <3>3
    <3>5. CASE j # Len(o)
      <4>1. k + j - 1 \in 1..n /\ o[j] = h[k + j - 1]
        BY <2>6, <3>5
      <4>2. k + i - 1 <= k + j - 1
        BY <2>4, <3>1, <3>3
      <4>3. QED
        BY <1>2, <2>4, <3>1, <3>4, <4>1, <4>2 DEF RoseSince
    <3>6. CASE j = Len(o) /\ rose = 0
      BY <2>5, <3>6
    <3>7. CASE j = Len(o) /\ rose # 0
      <4>1. n > 0
        BY <2>4, <3>4
      <4>2. ~(temp > h[n].temp)
        <5>1. h # <<>>
          BY <4>1
        <5>2. ~Rises(h, temp)
          BY <3>7
        <5>3. QED
          BY <1>4, <5>1, <5>2 DEF Rises
      <4>3. h[n].temp \in Nat
        BY <2>4, <4>1
      <4>4. h[n].temp > h[k + i - 1].temp
        BY <2>1, <2>4, <2>7, <3>1, <3>4, <3>7, <4>2, <4>3
      <4>5. k + i - 1 <= n /\ n \in 1..n
        BY <2>4, <3>4
      <4>6. QED
        BY <1>2, <2>4, <3>4, <4>4, <4>5 DEF RoseSince
    <3>8. QED
      BY <3>5, <3>6, <3>7
  <2>9. ASSUME NEW a \in Nat, NoOlder(h, a) PROVE NoOlder(o, a)
    <3>1. SUFFICES ASSUME NEW i \in 1..Len(o) PROVE o[i].age <= a
      BY <2>5 DEF NoOlder
    <3>2. CASE i = Len(o)
      BY <2>7, <3>2
    <3>3. CASE i # Len(o)
      BY <2>4, <2>6, <2>9, <3>3 DEF NoOlder
    <3>4. QED
      BY <3>2, <3>3
  <2>10. Observed(h, temp) = o
    BY <1>4 DEF Observed, o
  <2>11. QED
    BY <2>2, <2>8, <2>9, <2>10
<1>5. QED
  BY <1>3, <1>4

\* Without a rise in the window there is no boost.
LEMMA SteadyNoBoost ==
    ASSUME NEW h \in Histories, NEW rose \in Nat, rose > Window, RoseSince(h, rose),
           Len(h) > 0, \A i \in 1..Len(h) : h[i].age <= Window,
           NEW lookahead \in Nat
    PROVE  Boost(h, lookahead) = NoBoost
<1>1. /\ Len(h) \in Nat /\ DOMAIN h = 1..Len(h)
      /\ \A i \in 1..Len(h) : h[i].temp \in Nat /\ h[i].age \in Nat
  BY HistoryElements
<1>2. 1 \in 1..Len(h) /\ Len(h) \in 1..Len(h) /\ 1 <= Len(h)
  BY <1>1
<1>3. ~(rose <= h[1].age)
  BY <1>1, <1>2, TimingAssumption
<1>4. ~(h[Len(h)].temp > h[1].temp)
  BY <1>1, <1>2, <1>3 DEF RoseSince
<1>5. Rise(h) <= 0
  BY <1>1, <1>2, <1>4 DEF Rise
<1>6. QED
  BY <1>5 DEF Boost

\* The type invariant's parts that the steps below start from.
LEMMA Types ==
    ASSUME TypeOK
    PROVE  /\ ltun \in Configs /\ tun \in Configs
           /\ prev \in CommandStates /\ next \in CommandStates /\ state \in CommandStates
           /\ board \in Boards \cup {{}} /\ gpus \in GpuLists \cup {{}}
           /\ cpuPred \in Histories /\ gpuPred \in Histories
           /\ Ordered(cpuPred) /\ Ordered(gpuPred)
           /\ roseAge \in Ages /\ roseAge \in Nat
           /\ reloadAge \in 0..MinSpan /\ reloadAge \in Nat
           /\ Cpu \in Nat \cup {None} /\ Gpu \in Nat \cup {None}
<1>1. ltun \in Configs /\ tun \in Configs
  BY DEF TypeOK
<1>2. prev \in CommandStates /\ next \in CommandStates /\ state \in CommandStates
  BY DEF TypeOK
<1>3. board \in Boards \cup {{}} /\ gpus \in GpuLists \cup {{}}
  BY DEF TypeOK
<1>4. /\ cpuPred \in Histories /\ gpuPred \in Histories
      /\ Ordered(cpuPred) /\ Ordered(gpuPred)
  BY DEF TypeOK
<1>5. roseAge \in Ages /\ roseAge \in Nat
  BY TimingAssumption DEF TypeOK, Ages, Forgotten
<1>6. reloadAge \in 0..MinSpan /\ reloadAge \in Nat
  BY TimingAssumption DEF TypeOK
<1>7. Cpu \in Nat \cup {None} /\ Gpu \in Nat \cup {None}
  BY <1>3, CpuReading, GpuReading DEF Cpu, Gpu
<1>8. QED
  BY <1>1, <1>2, <1>3, <1>4, <1>5, <1>6, <1>7

\* Nothing is known and nothing decided at the start.
LEMMA InitInv == Init => Inv
<1>1. SUFFICES ASSUME Init PROVE Inv
  OBVIOUS
<1> USE DEF Init
<1>2. <<>> \in Histories /\ Ordered(<<>>) /\ RoseSince(<<>>, roseAge)
      /\ NoOlder(<<>>, reloadAge)
  BY DEF Histories, Ordered, RoseSince, NoOlder
<1>3. ZeroState \in CommandStates
  BY ManualType
<1>4. roseAge \in Ages /\ reloadAge \in 0..MinSpan
  BY <1>1, TimingAssumption DEF Ages, Forgotten
<1>5. TypeOK
  <2>1. {state, prev, next} \subseteq CommandStates
    BY <1>1, <1>3
  <2>2. QED
    BY <1>1, <1>2, <1>4, <2>1 DEF TypeOK
<1>6. ~Deciding
  BY <1>1 DEF Deciding
<1>7. TooHotHandsOver /\ HandOverIsWarranted /\ SteadyIsTakenAsRead
  BY <1>6 DEF TooHotHandsOver, HandOverIsWarranted, SteadyIsTakenAsRead
<1>8. QED
  BY <1>1, <1>2, <1>5, <1>7 DEF Inv, Fresh

\* Where no decision is pending, what decisions promise says nothing.
LEMMA NotDeciding ==
    ASSUME ~Deciding'
    PROVE  TooHotHandsOver' /\ HandOverIsWarranted' /\ SteadyIsTakenAsRead'
BY DEF TooHotHandsOver, HandOverIsWarranted, SteadyIsTakenAsRead

\* step's start ages everything alike.
LEMMA BeginKeeps ==
    ASSUME Inv, NEW d \in Gaps, NEW b \in Boards, NEW g \in GpuLists \cup {{}}, Begin(d, b, g)
    PROVE  Inv'
<1> USE DEF Begin
<1>1. TypeOK
  BY DEF Inv
<1>2. d \in Nat
  BY TimingAssumption
<1>3. /\ cpuPred' \in Histories /\ gpuPred' \in Histories
      /\ Ordered(cpuPred)' /\ Ordered(gpuPred)'
  BY <1>1, <1>2, Types, AgedHistory DEF Ordered
<1>4. roseAge' \in Ages /\ reloadAge' \in 0..MinSpan
  BY <1>1, <1>2, Types, TimingAssumption DEF Older, AtMost, Ages, Forgotten
<1>5. {state, prev, next}' \subseteq CommandStates
  BY <1>1, Types
<1>6. TypeOK'
  <2>1. /\ gpuFitted' \in BOOLEAN /\ tun' \in Configs /\ ltun' \in Configs
        /\ pc' \in {"idle", "read", "decided"} /\ straddled' \in BOOLEAN
        /\ board' \in Boards \cup {{}} /\ gpus' \in GpuLists \cup {{}}
    BY <1>1 DEF TypeOK
  <2>2. QED
    BY <1>3, <1>4, <1>5, <2>1 DEF TypeOK
<1>7. RoseSince(cpuPred, roseAge)' /\ RoseSince(gpuPred, roseAge)'
  <2>1. RoseSince(cpuPred', roseAge') /\ RoseSince(gpuPred', roseAge')
    BY <1>1, <1>2, Types, AgedKeeps DEF Inv
  <2>2. QED
    BY <2>1 DEF RoseSince
<1>8. Fresh(cpuPred)' /\ Fresh(gpuPred)'
  <2>1. SUFFICES ASSUME ~straddled', reloadAge' < MinSpan
                 PROVE  NoOlder(cpuPred', reloadAge') /\ NoOlder(gpuPred', reloadAge')
    BY DEF Fresh, NoOlder
  <2>2. reloadAge \in Nat
    BY <1>1, Types
  <2>3. reloadAge' = reloadAge + d /\ reloadAge < MinSpan
    BY <1>2, <2>1, <2>2, TimingAssumption DEF AtMost
  <2>4. NoOlder(cpuPred, reloadAge) /\ NoOlder(gpuPred, reloadAge)
    BY <2>1, <2>3 DEF Inv, Fresh
  <2>5. QED
    BY <1>1, <1>2, <2>2, <2>3, <2>4, Types, AgedKeeps DEF Inv
<1>9. ~Deciding'
  BY DEF Deciding
<1>10. QED
  BY <1>6, <1>7, <1>8, <1>9, NotDeciding DEF Inv

\* The decision: both predictors observe, and decide from what they then hold.
LEMMA DecideKeeps == ASSUME Inv, Decide PROVE Inv'
<1> USE DEF Decide
<1>1. TypeOK
  BY DEF Inv
<1> DEFINE cb == BoostFrom(cpuPred', Cpu, ltun)
           gb == BoostFrom(gpuPred', Gpu, ltun)
<1>2. /\ ltun \in Configs /\ prev \in CommandStates
      /\ cpuPred \in Histories /\ gpuPred \in Histories
      /\ Ordered(cpuPred) /\ Ordered(gpuPred) /\ roseAge \in Ages
      /\ Cpu \in Nat \cup {None} /\ Gpu \in Nat \cup {None}
      /\ RoseSince(cpuPred, roseAge) /\ RoseSince(gpuPred, roseAge)
  BY <1>1, Types DEF Inv
<1>3. /\ Cpu' = Cpu /\ Gpu' = Gpu /\ GpuFail' = GpuFail
      /\ ltun' = ltun /\ prev' = prev /\ board' = board /\ gpus' = gpus
  BY DEF Cpu, Gpu, GpuFail
<1>4. \/ roseAge' = 0
      \/ roseAge' = roseAge /\ ~Rises(cpuPred, Cpu) /\ ~Rises(gpuPred, Gpu)
  OBVIOUS
<1>5. roseAge' \in Ages /\ roseAge' \in Nat
  BY <1>2, <1>4, TimingAssumption DEF Ages, Forgotten
<1>6. /\ cpuPred' \in Histories /\ Ordered(cpuPred')
      /\ RoseSince(cpuPred', roseAge')
      /\ \A a \in Nat : NoOlder(cpuPred, a) => NoOlder(cpuPred', a)
      /\ Cpu # None => /\ Len(cpuPred') > 0
                       /\ \A i \in 1..Len(cpuPred') : cpuPred'[i].age <= Window
  <2>1. cpuPred' = Observed(cpuPred, Cpu)
    OBVIOUS
  <2>2. roseAge' = 0 \/ (roseAge' = roseAge /\ ~Rises(cpuPred, Cpu))
    BY <1>4
  <2>3. QED
    BY <1>2, <2>1, <2>2, ObservedKeeps
<1>7. /\ gpuPred' \in Histories /\ Ordered(gpuPred')
      /\ RoseSince(gpuPred', roseAge')
      /\ \A a \in Nat : NoOlder(gpuPred, a) => NoOlder(gpuPred', a)
      /\ Gpu # None => /\ Len(gpuPred') > 0
                       /\ \A i \in 1..Len(gpuPred') : gpuPred'[i].age <= Window
  <2>1. gpuPred' = Observed(gpuPred, Gpu)
    OBVIOUS
  <2>2. roseAge' = 0 \/ (roseAge' = roseAge /\ ~Rises(gpuPred, Gpu))
    BY <1>4
  <2>3. QED
    BY <1>2, <2>1, <2>2, ObservedKeeps
<1>8. ltun.lookahead \in Nat
  BY <1>2, ConfigsAssumption
<1>9. BoostOK(cb) /\ BoostOK(gb)
  BY <1>6, <1>7, <1>8, BoostBounds, NoBoostOK DEF BoostFrom
<1>10. next' = Decision(ltun, prev, Cpu, Gpu, cb, gb, GpuFail)
  OBVIOUS
<1>11. GpuFail \in BOOLEAN
  BY DEF GpuFail
<1>12. roseAge' > Window => cb = NoBoost /\ gb = NoBoost
  BY <1>5, <1>6, <1>7, <1>8, SteadyNoBoost DEF BoostFrom
<1> HIDE DEF cb, gb
<1>13. /\ next' \in CommandStates
       /\ GpuFail \/ (Cpu = None /\ Gpu = None) => next'.auto
       /\ Cpu # None /\ Cpu > TopOf(ltun.curve) => next'.auto
       /\ Gpu # None /\ Gpu > TopOf(ltun.gpuCurve) => next'.auto
       /\ prev.init /\ ~prev.auto /\ next'.auto =>
             \/ GpuFail \/ (Cpu = None /\ Gpu = None)
             \/ Warm(ltun.curve, Cpu) \/ Warm(ltun.gpuCurve, Gpu)
  BY <1>2, <1>9, <1>10, <1>11, DecisionCases
<1>14. TypeOK'
  <2>1. /\ gpuFitted' \in BOOLEAN /\ tun' \in Configs /\ ltun' \in Configs
        /\ pc' \in {"idle", "read", "decided"} /\ straddled' \in BOOLEAN
        /\ board' \in Boards \cup {{}} /\ gpus' \in GpuLists \cup {{}}
        /\ reloadAge' \in 0..MinSpan
    BY <1>1 DEF TypeOK
  <2>2. {state, prev, next}' \subseteq CommandStates
    BY <1>1, <1>13, Types
  <2>3. Ordered(cpuPred)' /\ Ordered(gpuPred)'
    BY <1>6, <1>7 DEF Ordered
  <2>4. QED
    BY <1>5, <1>6, <1>7, <2>1, <2>2, <2>3 DEF TypeOK
<1>15. RoseSince(cpuPred, roseAge)' /\ RoseSince(gpuPred, roseAge)'
  BY <1>6, <1>7 DEF RoseSince
<1>16. Fresh(cpuPred)' /\ Fresh(gpuPred)'
  <2>1. SUFFICES ASSUME ~straddled', reloadAge' < MinSpan
                 PROVE  NoOlder(cpuPred', reloadAge') /\ NoOlder(gpuPred', reloadAge')
    BY DEF Fresh, NoOlder
  <2>2. reloadAge' = reloadAge /\ reloadAge \in Nat
    BY <1>1, Types
  <2>3. NoOlder(cpuPred, reloadAge) /\ NoOlder(gpuPred, reloadAge)
    BY <2>1, <2>2 DEF Inv, Fresh
  <2>4. QED
    BY <1>6, <1>7, <2>2, <2>3
<1>17. TooHotHandsOver'
  <2>1. board \in Boards \cup {{}} /\ gpus \in GpuLists \cup {{}}
    BY <1>1, Types
  <2>2. TopOf(ltun.curve) \in Int /\ TopOf(ltun.gpuCurve) \in Int
    <3>1. ValidCurve(ltun.curve) /\ ValidCurve(ltun.gpuCurve)
      BY <1>2, ConfigsAssumption
    <3>2. ASSUME NEW c, ValidCurve(c) PROVE TopOf(c) \in Int
      BY <3>2, CurveFields DEF TopOf, Top
    <3>3. QED
      BY <3>1, <3>2
  <2>3. ASSUME NEW s \in Temperatures(board), Selects(ltun.sensors, s), s.temp >= 0,
               s.temp > TopOf(ltun.curve)
        PROVE  next'.auto
    <3>1. Cpu # None /\ s.temp <= Cpu
      BY <2>1, <2>3, CpuReading DEF Cpu
    <3>2. s.temp \in Int
      BY <2>1, BoardsAssumption DEF Temperatures
    <3>3. Cpu > TopOf(ltun.curve)
      BY <1>2, <2>2, <2>3, <3>1, <3>2
    <3>4. QED
      BY <1>13, <3>1, <3>3
  <2>4. ASSUME NEW t \in gpus, t > TopOf(ltun.gpuCurve) PROVE next'.auto
    <3>1. t \in Nat /\ Gpu # None /\ t <= Gpu
      BY <2>1, GpuReading DEF Gpu
    <3>2. Gpu > TopOf(ltun.gpuCurve)
      BY <1>2, <2>2, <2>4, <3>1
    <3>3. QED
      BY <1>13, <3>1, <3>2
  <2>5. Cpu = None /\ gpus = {} => next'.auto
    BY <1>13, <2>1, GpuReading DEF Gpu
  <2>6. QED
    BY <1>3, <1>13, <2>3, <2>4, <2>5 DEF TooHotHandsOver
<1>18. HandOverIsWarranted'
  <2>1. SUFFICES ASSUME prev.init, ~prev.auto, next'.auto, ~GpuFail,
                        ~(Cpu = None /\ gpus = {})
                 PROVE  \/ \E s \in Temperatures(board) :
                             /\ ~RuledOut(ltun.sensors, s) /\ s.temp >= 0
                             /\ Warm(ltun.curve, s.temp)
                        \/ \E t \in gpus : Warm(ltun.gpuCurve, t)
    BY <1>3 DEF HandOverIsWarranted
  <2>2. board \in Boards \cup {{}} /\ gpus \in GpuLists \cup {{}}
    BY <1>1, Types
  <2>3. (Gpu = None <=> gpus = {}) /\ (Gpu # None => Gpu \in gpus)
    BY <2>2, GpuReading DEF Gpu
  <2>4. CASE Warm(ltun.curve, Cpu)
    <3>1. Cpu # None
      BY <2>4 DEF Warm
    <3>2. PICK s \in Temperatures(board) :
                 Selects(ltun.sensors, s) /\ s.temp >= 0 /\ s.temp = Cpu
      BY <2>2, <3>1, CpuReading DEF Cpu
    <3>3. ~RuledOut(ltun.sensors, s)
      BY <3>2 DEF Selects, RuledOut
    <3>4. QED
      BY <2>4, <3>2, <3>3
  <2>5. CASE Warm(ltun.gpuCurve, Gpu)
    BY <2>3, <2>5 DEF Warm
  <2>6. QED
    BY <1>13, <2>1, <2>3, <2>4, <2>5
<1>19. SteadyIsTakenAsRead'
  BY <1>3, <1>10, <1>12 DEF SteadyIsTakenAsRead, Unpredicted
<1>20. QED
  BY <1>14, <1>15, <1>16, <1>17, <1>18, <1>19 DEF Inv

\* The end of a step leaves the predictors alone.
LEMMA ReturnKeeps == ASSUME Inv, Commit \/ StepFails PROVE Inv'
<1>1. TypeOK
  BY DEF Inv
<1>2. Return
  BY DEF Commit, StepFails
<1>3. ~Deciding'
  BY <1>2 DEF Return, Deciding
<1>4. state' \in CommandStates
  BY <1>1, Types, ManualType DEF Commit, StepFails
<1>5. TypeOK'
  <2>1. {state, prev, next}' \subseteq CommandStates
    BY <1>2, <1>4, ManualType DEF Return
  <2>2. QED
    BY <1>1, <1>2, <2>1 DEF TypeOK, Return, aux, Ordered
<1>6. /\ RoseSince(cpuPred, roseAge)' /\ RoseSince(gpuPred, roseAge)'
      /\ Fresh(cpuPred)' /\ Fresh(gpuPred)'
  BY <1>2 DEF Inv, Return, aux, RoseSince, Fresh, NoOlder
<1>7. QED
  BY <1>3, <1>5, <1>6, NotDeciding DEF Inv

\* A reload forgets the histories; a decision that is being applied stands.
LEMMA ReloadKeeps == ASSUME Inv, NEW t \in Configs, Reload(t) PROVE Inv'
<1> USE DEF Reload
<1>1. TypeOK
  BY DEF Inv
<1>2. /\ cpuPred' \in Histories /\ gpuPred' \in Histories
      /\ Ordered(cpuPred)' /\ Ordered(gpuPred)'
      /\ RoseSince(cpuPred, roseAge)' /\ RoseSince(gpuPred, roseAge)'
      /\ Fresh(cpuPred)' /\ Fresh(gpuPred)'
  <2>1. <<>> \in Histories
    BY DEF Histories
  <2>2. QED
    BY <2>1 DEF Ordered, RoseSince, Fresh, NoOlder
<1>3. TypeOK'
  <2>1. {state, prev, next}' \subseteq CommandStates
    BY <1>1, Types, ManualType
  <2>2. reloadAge' \in 0..MinSpan /\ straddled' \in BOOLEAN
    BY TimingAssumption
  <2>3. /\ gpuFitted' \in BOOLEAN /\ tun' \in Configs /\ ltun' \in Configs
        /\ pc' \in {"idle", "read", "decided"} /\ roseAge' \in Ages
        /\ board' \in Boards \cup {{}} /\ gpus' \in GpuLists \cup {{}}
    BY <1>1 DEF TypeOK
  <2>4. QED
    BY <1>2, <2>1, <2>2, <2>3 DEF TypeOK
<1>4. CASE ~Deciding'
  BY <1>2, <1>3, <1>4, NotDeciding DEF Inv
<1>5. CASE Deciding'
  <2>1. Deciding /\ ltun' = ltun
    BY <1>5 DEF Deciding
  <2>2. /\ board' = board /\ gpus' = gpus /\ next' = next /\ prev' = prev
        /\ Cpu' = Cpu /\ Gpu' = Gpu /\ GpuFail' = GpuFail /\ roseAge' = roseAge
    BY <2>1 DEF Cpu, Gpu, GpuFail
  <2>3. TooHotHandsOver'
    BY <2>1, <2>2 DEF Inv, TooHotHandsOver
  <2>4. HandOverIsWarranted'
    BY <2>1, <2>2 DEF Inv, HandOverIsWarranted
  <2>5. SteadyIsTakenAsRead'
    BY <2>1, <2>2 DEF Inv, SteadyIsTakenAsRead, Unpredicted
  <2>6. QED
    BY <1>2, <1>3, <2>3, <2>4, <2>5 DEF Inv
<1>6. QED
  BY <1>4, <1>5

\* Nothing else happens.
LEMMA StepInv == Inv /\ [Next]_vars => Inv'
<1>1. SUFFICES ASSUME Inv, [Next]_vars PROVE Inv'
  OBVIOUS
<1>2. CASE BeginAny
  BY <1>1, <1>2, BeginKeeps DEF BeginAny
<1>3. CASE Decide
  BY <1>1, <1>3, DecideKeeps
<1>4. CASE Commit \/ StepFails
  BY <1>1, <1>4, ReturnKeeps
<1>5. CASE ReloadAny
  BY <1>1, <1>5, ReloadKeeps DEF ReloadAny
<1>6. CASE UNCHANGED vars
  BY <1>1, <1>6 DEF vars, aux, Inv, TypeOK, Ordered, RoseSince, Fresh, NoOlder,
                    TooHotHandsOver, HandOverIsWarranted, SteadyIsTakenAsRead,
                    Deciding, Unpredicted, Cpu, Gpu, GpuFail
<1>7. QED
  BY <1>1, <1>2, <1>3, <1>4, <1>5, <1>6 DEF Next

LEMMA Invariance == Spec => []Inv
BY InitInv, StepInv, PTL DEF Spec

-----------------------------------------------------------------------------
(* The properties.                                                            *)

\* Histories stay in order and hold only readings that count.
THEOREM SensingTyped == Spec => []TypeOK
<1>1. Inv => TypeOK
  BY DEF Inv
<1>2. QED
  BY <1>1, Invariance, PTL

\* One source over its top, blind or failing always hands over: no boost is
\* negative and no selection loses the hottest sensor.
THEOREM TooHotAlwaysHandsOver == Spec => []TooHotHandsOver
<1>1. Inv => TooHotHandsOver
  BY DEF Inv
<1>2. QED
  BY <1>1, Invariance, PTL

\* Prediction alone ends manual control only within its cap of the top, and a
\* sensor that the configuration rules out not at all.
THEOREM HandOversAreWarranted == Spec => []HandOverIsWarranted
<1>1. Inv => HandOverIsWarranted
  BY DEF Inv
<1>2. QED
  BY <1>1, Invariance, PTL

\* Once nothing has risen for longer than the window, nothing is predicted.
THEOREM SteadyHeatIsTakenAsRead == Spec => []SteadyIsTakenAsRead
<1>1. Inv => SteadyIsTakenAsRead
  BY DEF Inv
<1>2. QED
  BY <1>1, Invariance, PTL

\* No boost is carried over a reload that no step straddles.
THEOREM ReloadsForget == Spec => []ReloadForgets
<1>1. ASSUME Inv PROVE ReloadForgets
  <2>1. SUFFICES ASSUME reloadAge < MinSpan, ~straddled,
                        NEW h \in Histories, NoOlder(h, reloadAge)
                 PROVE  ~HasSlope(h)
    <3>1. TypeOK
      BY <1>1 DEF Inv
    <3>2. cpuPred \in Histories /\ gpuPred \in Histories
      BY <3>1, Types
    <3>3. ~straddled /\ reloadAge < MinSpan =>
             NoOlder(cpuPred, reloadAge) /\ NoOlder(gpuPred, reloadAge)
      BY <1>1 DEF Inv, Fresh
    <3>4. QED
      BY <3>2, <3>3 DEF ReloadForgets, BoostFrom, Boost
  <2>2. SUFFICES ASSUME Len(h) >= 2 PROVE Span(h) < MinSpan
    BY <2>1, HistoryElements, TimingAssumption DEF HasSlope, Span
  <2>3. /\ Len(h) \in Nat /\ DOMAIN h = 1..Len(h)
        /\ h[1].age \in Nat /\ h[Len(h)].age \in Nat
    BY <2>2, HistoryElements
  <2>4. h[1].age <= reloadAge
    BY <2>1, <2>2, <2>3 DEF NoOlder
  <2>5. reloadAge \in Nat
    BY <1>1, Types DEF Inv
  <2>6. QED
    BY <2>1, <2>3, <2>4, <2>5, TimingAssumption DEF Span
<1>2. QED
  BY <1>1, Invariance, PTL
=============================================================================
