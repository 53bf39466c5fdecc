--------------------------- MODULE PdClock_proofs ---------------------------
(***************************************************************************)
(* Proofs about Pd's clocks, for any number of objects, delay times, units *)
(* and calls within calls: the refinement of Agenda, and what a metro does *)
(* that is sent something from within its own bang; and about pipe, that   *)
(* has a clock for each list it holds: a list has its clock set as long as *)
(* it is held, and one that is put out is left to the call that does so.   *)
(***************************************************************************)
EXTENDS PdClock, Pipe, FiniteSetTheorems, BasicLemmas

KSpec == KInit /\ [][KNext]_pdvars

-----------------------------------------------------------------------------
(* How the list of clocks and the history change.                          *)

LEMMA ListWithoutProperties ==
  ASSUME NEW S, NEW s \in Seq(S), Distinct(s), NEW c
  PROVE  /\ ListWithout(s, c) \in Seq(S)
         /\ Distinct(ListWithout(s, c))
         /\ Elements(ListWithout(s, c)) = Elements(s) \ {c}
         /\ \A a, b : Before(ListWithout(s, c), a, b) <=> Before(s, a, b) /\ a # c /\ b # c
<1> DEFINE at == {k \in DOMAIN s : s[k] = c}
           w == ListWithout(s, c)
           n == Len(s)
<1>0. DOMAIN s = 1..n /\ n \in Nat
  BY LenProperties
<1>1. CASE at = {}
  <2>1. w = s
    BY <1>1 DEF ListWithout
  <2>2. c \notin Elements(s)
    BY <1>1 DEF Elements
  <2> QED
    BY <2>1, <2>2 DEF Before, Elements
<1>2. CASE at # {}
  <2> DEFINE k == CHOOSE j \in at : TRUE
             From(i) == IF i < k THEN i ELSE i + 1
             To(j) == IF j < k THEN j ELSE j - 1
  <2>1. k \in 1..n /\ s[k] = c
    BY <1>0, <1>2
  <2>2. w = RemoveAt(s, k)
    BY <1>2 DEF ListWithout
  <2> HIDE DEF k, w
  <2>3. /\ w \in Seq(S)
        /\ Len(w) = n - 1
        /\ \A i \in 1..(n - 1) : w[i] = IF i < k THEN s[i] ELSE s[i + 1]
    BY <2>1, <2>2, RemoveAtProperties
  <2>4. DOMAIN w = 1..(n - 1)
    BY <2>3, LenProperties
  <2>5. \A i \in 1..(n - 1) : From(i) \in 1..n /\ From(i) # k /\ w[i] = s[From(i)]
    BY <1>0, <2>1, <2>3
  <2>6. \A j \in 1..n : j # k => To(j) \in 1..(n - 1) /\ From(To(j)) = j
    BY <1>0, <2>1
  <2>7. \A i, j \in 1..(n - 1) : (i < j <=> From(i) < From(j)) /\ (i = j <=> From(i) = From(j))
    BY <1>0, <2>1
  <2>8. \A i, j \in 1..n : i # k /\ j # k => (i < j <=> To(i) < To(j))
    BY <1>0, <2>1
  <2> HIDE DEF From, To
  <2>9. \A j \in 1..n : j # k <=> s[j] # c
    BY <1>0, <2>1 DEF Distinct
  <2>10. \A j \in 1..n : j # k => To(j) \in 1..(n - 1) /\ w[To(j)] = s[j]
    BY <2>5, <2>6
  <2>11. Distinct(w)
    BY <1>0, <2>4, <2>5, <2>7 DEF Distinct
  <2>12. Elements(w) = Elements(s) \ {c}
    BY <1>0, <2>4, <2>5, <2>9, <2>10 DEF Elements
  <2>13. ASSUME NEW a, NEW b, Before(w, a, b)
         PROVE  Before(s, a, b) /\ a # c /\ b # c
    BY <1>0, <2>4, <2>5, <2>7, <2>9, <2>13 DEF Before
  <2>14. ASSUME NEW a, NEW b, Before(s, a, b), a # c, b # c
         PROVE  Before(w, a, b)
    BY <1>0, <2>4, <2>8, <2>9, <2>10, <2>14 DEF Before
  <2> QED
    BY <2>3, <2>11, <2>12, <2>13, <2>14 DEF w
<1> QED
  BY <1>1, <1>2

\* What is inserted stands behind those before the places, and before the others.
LEMMA InsertedProperties ==
  ASSUME NEW S, NEW s \in Seq(S), NEW c \in S, Distinct(s), c \notin Elements(s),
         NEW places \in SUBSET DOMAIN s
  PROVE  /\ InsertedBefore(s, places, c) \in Seq(S)
         /\ Distinct(InsertedBefore(s, places, c))
         /\ Elements(InsertedBefore(s, places, c)) = Elements(s) \cup {c}
         /\ \A a, b : Before(InsertedBefore(s, places, c), a, b) =>
              \/ Before(s, a, b)
              \/ b = c /\ \E i \in DOMAIN s \ places : s[i] = a
              \/ a = c /\ \E i \in places, j \in DOMAIN s : i <= j /\ s[j] = b
<1> DEFINE w == InsertedBefore(s, places, c)
           n == Len(s)
<1>0. DOMAIN s = 1..n /\ n \in Nat
  BY LenProperties
<1>1. CASE places = {}
  <2>1. w = Append(s, c)
    BY <1>1 DEF InsertedBefore
  <2>2. \A a \in Elements(s) : \E i \in DOMAIN s \ places : s[i] = a
    BY <1>1 DEF Elements
  <2> QED
    BY <2>1, <2>2, AppendedProperties
<1>2. CASE places # {}
  <2> DEFINE k == Min(places)
             From(i) == IF i < k THEN i ELSE i - 1
             To(j) == IF j < k THEN j ELSE j + 1
  <2>1. k \in places /\ \A j \in places : k <= j
    BY <1>0, <1>2, LeastElement
  <2>2. k \in 1..n
    BY <1>0, <2>1
  <2>3. w = InsertAt(s, k, c)
    BY <1>2 DEF InsertedBefore
  <2> HIDE DEF k, w
  <2>4. /\ w \in Seq(S)
        /\ Len(w) = n + 1
        /\ \A i \in 1..(n + 1) : w[i] = IF i < k THEN s[i] ELSE IF i = k THEN c ELSE s[i - 1]
    BY <2>2, <2>3, InsertAtProperties
  <2>5. DOMAIN w = 1..(n + 1)
    BY <1>0, <2>4, LenProperties
  <2>6. k \in 1..(n + 1) /\ w[k] = c
    BY <1>0, <2>2, <2>4
  <2>7. \A i \in 1..(n + 1) : i # k => From(i) \in 1..n /\ w[i] = s[From(i)]
    BY <1>0, <2>2, <2>4
  <2>8. \A j \in 1..n : To(j) \in 1..(n + 1) /\ To(j) # k /\ From(To(j)) = j
    BY <1>0, <2>2
  <2>9. \A i, j \in 1..(n + 1) :
          i # k /\ j # k => (i < j <=> From(i) < From(j)) /\ (i = j <=> From(i) = From(j))
    BY <1>0, <2>2
  <2>10. \A i \in 1..(n + 1) : /\ i < k => From(i) < k
                               /\ k < i => k <= From(i)
    BY <1>0, <2>2
  <2> HIDE DEF From, To
  <2>11. \A i \in 1..n : s[i] # c
    BY <1>0 DEF Elements
  <2>12. \A i \in 1..(n + 1) : w[i] = c <=> i = k
    BY <2>6, <2>7, <2>11
  <2>13. Distinct(w)
    BY <1>0, <2>5, <2>7, <2>9, <2>12 DEF Distinct
  <2>14. Elements(w) = Elements(s) \cup {c}
    <3>1. \A x \in Elements(w) : x \in Elements(s) \cup {c}
      BY <1>0, <2>5, <2>6, <2>7 DEF Elements
    <3>2. \A x \in Elements(s) : x \in Elements(w)
      BY <1>0, <2>5, <2>7, <2>8 DEF Elements
    <3>3. c \in Elements(w)
      BY <2>5, <2>6 DEF Elements
    <3> QED
      BY <3>1, <3>2, <3>3
  <2>15. ASSUME NEW a, NEW b, Before(w, a, b)
         PROVE  \/ Before(s, a, b)
                \/ b = c /\ \E i \in DOMAIN s \ places : s[i] = a
                \/ a = c /\ \E i \in places, j \in DOMAIN s : i <= j /\ s[j] = b
    <3>1. PICK i \in 1..(n + 1), j \in 1..(n + 1) : i < j /\ w[i] = a /\ w[j] = b
      BY <2>5, <2>15 DEF Before
    <3>2. CASE i # k /\ j # k
      <4>1. From(i) \in 1..n /\ From(j) \in 1..n /\ From(i) < From(j)
        BY <2>7, <2>9, <3>1, <3>2
      <4> QED
        BY <1>0, <2>7, <3>1, <3>2, <4>1 DEF Before
    <3>3. CASE j = k
      <4>1. i < k /\ i # k
        BY <2>2, <3>1, <3>3
      <4>2. From(i) \in 1..n /\ From(i) < k /\ s[From(i)] = a
        BY <2>7, <2>10, <3>1, <4>1
      <4>3. From(i) \notin places
        BY <1>0, <2>1, <2>2, <4>2
      <4> QED
        BY <1>0, <2>6, <3>1, <3>3, <4>2, <4>3
    <3>4. CASE i = k
      <4>1. k < j /\ j # k
        BY <2>2, <3>1, <3>4
      <4>2. From(j) \in 1..n /\ k <= From(j) /\ s[From(j)] = b
        BY <2>7, <2>10, <3>1, <4>1
      <4> QED
        BY <1>0, <2>1, <2>6, <3>1, <3>4, <4>2
    <3> QED
      BY <3>2, <3>3, <3>4
  <2> QED
    BY <2>4, <2>13, <2>14, <2>15 DEF w
<1> QED
  BY <1>1, <1>2

-----------------------------------------------------------------------------
(* The clocks that are set are in both lists, by their times in the one    *)
(* and in the order they were set in the other; those of one time in the   *)
(* same order in both.                                                     *)

ClockTypeOK ==
  /\ sys_time \in 0..MaxTime
  /\ c_settime \in [Clocks -> (0..MaxTime) \cup {NoTime}]

SetClocks == {c \in Clocks : c_settime[c] # NoTime}

Sorted ==
  \A a, b : Before(clock_setlist, a, b) =>
    \/ c_settime[a] < c_settime[b]
    \/ c_settime[a] = c_settime[b] /\ Before(asked, a, b)

ListInv ==
  /\ clock_setlist \in Seq(Clocks) /\ Distinct(clock_setlist) /\ Elements(clock_setlist) = SetClocks
  /\ asked \in Seq(Clocks) /\ Distinct(asked) /\ Elements(asked) = SetClocks
  /\ Sorted

LEMMA UnsetKeepsLists ==
  ASSUME ClockTypeOK, ListInv, NEW c \in Clocks, clock_unset(c)
  PROVE  /\ c_settime' \in [Clocks -> (0..MaxTime) \cup {NoTime}]
         /\ SetClocks' = SetClocks \ {c}
         /\ ListInv'
<1>1. c_settime' \in [Clocks -> (0..MaxTime) \cup {NoTime}]
  BY DEF ClockTypeOK, clock_unset
<1>2. \A d \in Clocks : c_settime'[d] = IF d = c THEN NoTime ELSE c_settime[d]
  BY DEF ClockTypeOK, clock_unset
<1>3. SetClocks' = SetClocks \ {c}
  BY <1>2 DEF SetClocks
<1>4. /\ clock_setlist' \in Seq(Clocks) /\ Distinct(clock_setlist')
      /\ Elements(clock_setlist') = SetClocks \ {c}
      /\ \A a, b : Before(clock_setlist', a, b) <=> Before(clock_setlist, a, b) /\ a # c /\ b # c
  BY ListWithoutProperties DEF ListInv, clock_unset
<1>5. /\ asked' \in Seq(Clocks) /\ Distinct(asked')
      /\ Elements(asked') = SetClocks \ {c}
      /\ \A a, b : Before(asked', a, b) <=> Before(asked, a, b) /\ a # c /\ b # c
  BY ListWithoutProperties DEF ListInv, clock_unset
<1>6. ASSUME NEW a, NEW b, Before(clock_setlist', a, b)
      PROVE  \/ c_settime'[a] < c_settime'[b]
             \/ c_settime'[a] = c_settime'[b] /\ Before(asked', a, b)
  <2>1. Before(clock_setlist, a, b) /\ a # c /\ b # c
    BY <1>4, <1>6
  <2>2. a \in Clocks /\ b \in Clocks
    <3>1. a \in Elements(clock_setlist) /\ b \in Elements(clock_setlist)
      BY <2>1 DEF Before, Elements
    <3> QED
      BY <3>1 DEF ListInv, SetClocks
  <2>3. c_settime'[a] = c_settime[a] /\ c_settime'[b] = c_settime[b]
    BY <1>2, <2>1, <2>2
  <2> QED
    BY <1>5, <2>1, <2>3 DEF ListInv, Sorted
<1>7. Sorted'
  BY <1>6 DEF Sorted
<1> QED
  BY <1>1, <1>3, <1>4, <1>5, <1>7 DEF ListInv

LEMMA SetKeepsLists ==
  ASSUME ClockTypeOK, ListInv, NEW c \in Clocks, NEW setticks \in Int, clock_set(c, setticks)
  PROVE  /\ c_settime' \in [Clocks -> (0..MaxTime) \cup {NoTime}]
         /\ c_settime'[c] \in 0..MaxTime /\ sys_time <= c_settime'[c]
         /\ SetClocks' = SetClocks \cup {c}
         /\ ListInv'
<1> DEFINE t == IF setticks < sys_time THEN sys_time ELSE setticks
           list == ListWithout(clock_setlist, c)
           rest == ListWithout(asked, c)
           places == {k \in DOMAIN list : c_settime[list[k]] > t}
<1>1. t \in 0..MaxTime /\ sys_time <= t
  BY PdClockAssumption DEF ClockTypeOK, clock_set
<1>2. /\ c_settime' = [c_settime EXCEPT ![c] = t]
      /\ clock_setlist' = InsertedBefore(list, places, c)
      /\ asked' = Append(rest, c)
  BY DEF clock_set, Inserted
<1> HIDE DEF t, list, rest
<1>3. /\ c_settime' \in [Clocks -> (0..MaxTime) \cup {NoTime}]
      /\ \A d \in Clocks : c_settime'[d] = IF d = c THEN t ELSE c_settime[d]
  BY <1>1, <1>2 DEF ClockTypeOK
<1>4. SetClocks' = SetClocks \cup {c}
  BY <1>1, <1>3 DEF SetClocks, NoTime
<1>5. /\ list \in Seq(Clocks) /\ Distinct(list) /\ Elements(list) = SetClocks \ {c}
      /\ \A a, b : Before(list, a, b) <=> Before(clock_setlist, a, b) /\ a # c /\ b # c
  BY ListWithoutProperties DEF ListInv, list
<1>6. /\ rest \in Seq(Clocks) /\ Distinct(rest) /\ Elements(rest) = SetClocks \ {c}
      /\ \A a, b : Before(rest, a, b) <=> Before(asked, a, b) /\ a # c /\ b # c
  BY ListWithoutProperties DEF ListInv, rest
<1>7. c \notin Elements(list) /\ c \notin Elements(rest)
  BY <1>5, <1>6
<1>8. /\ asked' \in Seq(Clocks) /\ Distinct(asked')
      /\ Elements(asked') = Elements(rest) \cup {c}
      /\ \A a, b : Before(asked', a, b) <=> Before(rest, a, b) \/ (b = c /\ a \in Elements(rest))
  BY <1>2, <1>6, <1>7, AppendedProperties
<1>9. /\ clock_setlist' \in Seq(Clocks) /\ Distinct(clock_setlist')
      /\ Elements(clock_setlist') = Elements(list) \cup {c}
      /\ \A a, b : Before(clock_setlist', a, b) =>
           \/ Before(list, a, b)
           \/ b = c /\ \E i \in DOMAIN list \ places : list[i] = a
           \/ a = c /\ \E i \in places, j \in DOMAIN list : i <= j /\ list[j] = b
  BY <1>2, <1>5, <1>7, InsertedProperties
<1>10. \A a, b : Before(list, a, b) =>
         /\ a \in Elements(list) /\ b \in Elements(list)
         /\ \/ c_settime[a] < c_settime[b]
            \/ c_settime[a] = c_settime[b] /\ Before(rest, a, b)
  <2>1. \A a, b : Before(list, a, b) => a \in Elements(list) /\ b \in Elements(list)
    BY DEF Before, Elements
  <2> QED
    BY <1>5, <1>6, <2>1 DEF ListInv, Sorted
<1>11. \A d \in Elements(list) : d \in Clocks /\ c_settime'[d] = c_settime[d] /\ c_settime[d] \in 0..MaxTime
  BY <1>3, <1>5 DEF SetClocks, ClockTypeOK
<1>12. ASSUME NEW a, NEW b, Before(clock_setlist', a, b)
       PROVE  \/ c_settime'[a] < c_settime'[b]
              \/ c_settime'[a] = c_settime'[b] /\ Before(asked', a, b)
  <2>1. CASE Before(list, a, b)
    BY <1>8, <1>10, <1>11, <2>1
  <2>2. CASE b = c /\ \E i \in DOMAIN list \ places : list[i] = a
    <3>1. PICK i \in DOMAIN list : list[i] = a /\ ~(c_settime[list[i]] > t)
      BY <2>2
    <3>2. a \in Elements(list)
      BY <3>1 DEF Elements
    <3>3. c_settime'[a] <= t /\ c_settime'[b] = t
      BY <1>1, <1>3, <1>11, <2>2, <3>1, <3>2
    <3>4. Before(asked', a, b)
      BY <1>5, <1>6, <1>8, <2>2, <3>2
    <3> QED
      BY <1>1, <1>11, <3>2, <3>3, <3>4
  <2>3. CASE a = c /\ \E i \in places, j \in DOMAIN list : i <= j /\ list[j] = b
    <3>1. PICK i \in DOMAIN list, j \in DOMAIN list : /\ c_settime[list[i]] > t
                                                   /\ i <= j /\ list[j] = b
      BY <2>3
    <3>2. list[i] \in Elements(list) /\ list[j] \in Elements(list)
      BY DEF Elements
    <3>3. c_settime[list[i]] <= c_settime[list[j]]
      <4>1. DOMAIN list = 1..Len(list) /\ Len(list) \in Nat
        BY <1>5, LenProperties
      <4>2. CASE i = j
        BY <1>11, <3>2, <4>2
      <4>3. CASE i # j
        <5>1. Before(list, list[i], list[j])
          BY <3>1, <4>1, <4>3 DEF Before
        <5> QED
          BY <1>10, <1>11, <3>2, <5>1
      <4> QED
        BY <4>2, <4>3
    <3> QED
      BY <1>1, <1>3, <1>11, <2>3, <3>1, <3>2, <3>3
  <2> QED
    BY <1>9, <1>12, <2>1, <2>2, <2>3
<1>13. Sorted'
  BY <1>12 DEF Sorted
<1> QED
  BY <1>1, <1>3, <1>4, <1>5, <1>6, <1>8, <1>9, <1>13 DEF ListInv

-----------------------------------------------------------------------------
(* The clocks in the order they were set, with their times, are the agenda *)
(* of the abstract specification.                                          *)

Dropped(entries, c) ==
  LET at == {k \in DOMAIN entries : entries[k].clock = c}
  IN  IF at = {} THEN entries ELSE RemoveAt(entries, CHOOSE k \in at : TRUE)

LEMMA EntriesProperties ==
  ASSUME NEW list \in Seq(Clocks), NEW times \in [Clocks -> Int]
  PROVE  /\ Entries(list, times) \in Seq([clock : Clocks, time : Int])
         /\ Len(Entries(list, times)) = Len(list)
         /\ DOMAIN Entries(list, times) = DOMAIN list
<1>1. DOMAIN list = 1..Len(list) /\ Len(list) \in Nat
  BY LenProperties
<1>2. \A k \in 1..Len(list) : list[k] \in Clocks
  BY ElementOfSeq
<1>3. \A k \in 1..Len(list) : [clock |-> list[k], time |-> times[list[k]]] \in [clock : Clocks, time : Int]
  BY <1>2
<1> QED
  BY <1>1, <1>3, IsASeq DEF Entries

LEMMA EntriesWithout ==
  ASSUME NEW list \in Seq(Clocks), NEW times \in [Clocks -> Int], NEW times2 \in [Clocks -> Int],
         NEW c, \A d \in Clocks : d # c => times2[d] = times[d], Distinct(list)
  PROVE  Entries(ListWithout(list, c), times2) = Dropped(Entries(list, times), c)
<1> DEFINE e == Entries(list, times)
           at == {k \in DOMAIN list : list[k] = c}
           w == ListWithout(list, c)
<1>1. DOMAIN list = 1..Len(list) /\ Len(list) \in Nat
  BY LenProperties
<1>2. \A k \in 1..Len(list) : list[k] \in Clocks
  BY ElementOfSeq
<1>3. {k \in DOMAIN e : e[k].clock = c} = at
  BY DEF Entries
<1>4. /\ e \in Seq([clock : Clocks, time : Int])
      /\ Len(e) = Len(list)
      /\ \A k \in 1..Len(list) : e[k] = [clock |-> list[k], time |-> times[list[k]]]
  BY <1>1, EntriesProperties DEF Entries
<1>5. CASE at = {}
  <2>1. w = list
    BY <1>5 DEF ListWithout
  <2>2. \A k \in DOMAIN list : times2[list[k]] = times[list[k]]
    BY <1>1, <1>2, <1>5
  <2>3. Entries(list, times2) = e
    BY <2>2 DEF Entries
  <2> QED
    BY <1>3, <1>5, <2>1, <2>3 DEF Dropped
<1>6. CASE at # {}
  <2> DEFINE k == CHOOSE j \in at : TRUE
  <2>1. k \in 1..Len(list) /\ list[k] = c
    BY <1>1, <1>6
  <2>2. w = RemoveAt(list, k)
    BY <1>6 DEF ListWithout
  <2> HIDE DEF k, e, w
  <2>3. /\ w \in Seq(Clocks) /\ Len(w) = Len(list) - 1
        /\ \A i \in 1..(Len(list) - 1) : w[i] = IF i < k THEN list[i] ELSE list[i + 1]
    BY <2>1, <2>2, RemoveAtProperties
  <2>4. /\ RemoveAt(e, k) \in Seq([clock : Clocks, time : Int])
        /\ Len(RemoveAt(e, k)) = Len(list) - 1
        /\ \A i \in 1..(Len(list) - 1) : RemoveAt(e, k)[i] = IF i < k THEN e[i] ELSE e[i + 1]
    BY <1>4, <2>1, RemoveAtProperties
  <2>5. /\ Entries(w, times2) \in Seq([clock : Clocks, time : Int])
        /\ Len(Entries(w, times2)) = Len(list) - 1
    BY <2>3, EntriesProperties
  <2>6. ASSUME NEW i \in 1..(Len(list) - 1)
        PROVE  Entries(w, times2)[i] = RemoveAt(e, k)[i]
    <3>1. i \in DOMAIN w
      BY <2>3, LenProperties
    <3>2. Entries(w, times2)[i] = [clock |-> w[i], time |-> times2[w[i]]]
      BY <3>1 DEF Entries
    <3>3. ASSUME NEW j \in 1..Len(list), j # k, w[i] = list[j], RemoveAt(e, k)[i] = e[j]
          PROVE  Entries(w, times2)[i] = RemoveAt(e, k)[i]
      <4>1. list[j] # c
        BY <1>1, <2>1, <3>3 DEF Distinct
      <4>2. times2[list[j]] = times[list[j]]
        BY <1>2, <4>1
      <4> QED
        BY <1>4, <3>2, <3>3, <4>2
    <3>4. CASE i < k
      <4>1. i \in 1..Len(list) /\ i # k
        BY <1>1, <2>1, <3>4
      <4> QED
        BY <2>3, <2>4, <3>3, <3>4, <4>1
    <3>5. CASE ~(i < k)
      <4>1. i + 1 \in 1..Len(list) /\ i + 1 # k
        BY <1>1, <2>1, <3>5
      <4> QED
        BY <2>3, <2>4, <3>3, <3>5, <4>1
    <3> QED
      BY <3>4, <3>5
  <2>7. Entries(w, times2) = RemoveAt(e, k)
    BY <2>4, <2>5, <2>6, SeqEqual
  <2> QED
    BY <1>3, <1>6, <2>7 DEF Dropped, k, e, w
<1> QED
  BY <1>5, <1>6

LEMMA EntriesAppended ==
  ASSUME NEW list \in Seq(Clocks), NEW times \in [Clocks -> Int], NEW c \in Clocks
  PROVE  Entries(Append(list, c), times) =
           Append(Entries(list, times), [clock |-> c, time |-> times[c]])
<1> DEFINE w == Append(list, c)
           e == Append(Entries(list, times), [clock |-> c, time |-> times[c]])
           n == Len(list)
<1>1. DOMAIN list = 1..n /\ n \in Nat
  BY LenProperties
<1>2. /\ w \in Seq(Clocks) /\ Len(w) = n + 1
      /\ \A i \in 1..n : w[i] = list[i]
      /\ w[n + 1] = c
  BY AppendProperties
<1>3. /\ Entries(list, times) \in Seq([clock : Clocks, time : Int])
      /\ Len(Entries(list, times)) = n
  BY EntriesProperties
<1>4. [clock |-> c, time |-> times[c]] \in [clock : Clocks, time : Int]
  OBVIOUS
<1>5. /\ e \in Seq([clock : Clocks, time : Int]) /\ Len(e) = n + 1
      /\ \A i \in 1..n : e[i] = Entries(list, times)[i]
      /\ e[n + 1] = [clock |-> c, time |-> times[c]]
  BY <1>3, <1>4, AppendProperties
<1> HIDE DEF w, e
<1>6. /\ Entries(w, times) \in Seq([clock : Clocks, time : Int])
      /\ Len(Entries(w, times)) = n + 1
  BY <1>2, EntriesProperties
<1>7. ASSUME NEW i \in 1..(n + 1)
      PROVE  Entries(w, times)[i] = e[i]
  <2>1. Entries(w, times)[i] = [clock |-> w[i], time |-> times[w[i]]]
    BY <1>2, LenProperties DEF Entries
  <2>2. CASE i = n + 1
    BY <1>2, <1>5, <2>1, <2>2
  <2>3. CASE i # n + 1
    <3>1. i \in 1..n
      BY <1>1, <2>3
    <3> QED
      BY <1>1, <1>2, <1>5, <2>1, <3>1 DEF Entries
  <2> QED
    BY <2>2, <2>3
<1>8. Entries(w, times) = e
  BY <1>5, <1>6, <1>7, SeqEqual
<1> QED
  BY <1>8 DEF w, e

LEMMA UnsetOnAgenda ==
  ASSUME ClockTypeOK, ListInv, NEW c \in Clocks, clock_unset(c)
  PROVE  TheAgenda' = ClockAgenda!Without(c)
<1>1. /\ c_settime \in [Clocks -> Int] /\ c_settime' \in [Clocks -> Int]
      /\ \A d \in Clocks : d # c => c_settime'[d] = c_settime[d]
  BY DEF ClockTypeOK, clock_unset, NoTime
<1>2. asked \in Seq(Clocks) /\ Distinct(asked)
  BY DEF ListInv
<1>3. asked' = ListWithout(asked, c)
  BY DEF clock_unset
<1>4. TheAgenda' = Dropped(TheAgenda, c)
  BY <1>1, <1>2, <1>3, EntriesWithout DEF TheAgenda
<1>5. ClockAgenda!Without(c) = Dropped(TheAgenda, c)
  BY DEF ClockAgenda!Without, ClockAgenda!Indexed, ClockAgenda!RemoveAt, Dropped, RemoveAt
<1> QED
  BY <1>4, <1>5

LEMMA SetOnAgenda ==
  ASSUME ClockTypeOK, ListInv, NEW c \in Clocks, NEW setticks \in Int, clock_set(c, setticks)
  PROVE  TheAgenda' = ClockAgenda!With(c, c_settime'[c])
<1>1. /\ c_settime \in [Clocks -> Int] /\ c_settime' \in [Clocks -> Int]
  BY SetKeepsLists DEF ClockTypeOK, NoTime
<1>2. \A d \in Clocks : d # c => c_settime'[d] = c_settime[d]
  BY DEF ClockTypeOK, clock_set
<1>3. asked \in Seq(Clocks) /\ Distinct(asked)
  BY DEF ListInv
<1>4. ListWithout(asked, c) \in Seq(Clocks)
  BY <1>3, ListWithoutProperties
<1>5. asked' = Append(ListWithout(asked, c), c)
  BY DEF clock_set
<1>6. Entries(ListWithout(asked, c), c_settime') = ClockAgenda!Without(c)
  <2>1. Entries(ListWithout(asked, c), c_settime') = Dropped(TheAgenda, c)
    BY <1>1, <1>2, <1>3, EntriesWithout DEF TheAgenda
  <2>2. ClockAgenda!Without(c) = Dropped(TheAgenda, c)
    BY DEF ClockAgenda!Without, ClockAgenda!Indexed, ClockAgenda!RemoveAt, Dropped, RemoveAt
  <2> QED
    BY <2>1, <2>2
<1>7. Entries(asked', c_settime') =
        Append(Entries(ListWithout(asked, c), c_settime'), [clock |-> c, time |-> c_settime'[c]])
  BY <1>1, <1>4, <1>5, EntriesAppended
<1> QED
  BY <1>6, <1>7 DEF TheAgenda, ClockAgenda!With, Entries

-----------------------------------------------------------------------------
(* The invariant.                                                          *)

KTypeOK ==
  /\ ClockTypeOK
  /\ objects \subseteq Clocks
  /\ c_unit \in [Clocks -> Int \ {0}]
  /\ next_sys_time \in (0..MaxTime) \cup {NoTime}
  /\ x_deltime \in [Clocks -> Nat]
  /\ x_hit \in [Metros -> BOOLEAN]
  /\ calls \in Seq([obj : Clocks, by : {"scheduler", "message"}])
  /\ told \in [Metros -> BOOLEAN]

\* A tick does not end before the time of the clock it has called.
TickInv == next_sys_time # NoTime => sys_time <= next_sys_time

Called(obj) == \E k \in DOMAIN calls : calls[k].obj = obj

\* A metro in its bang that has been sent nothing since was started; any other has its
\* clock set if it was.
MetroInv ==
  \A m \in Metros :
    IF Called(m) /\ ~x_hit[m] THEN told[m] ELSE told[m] <=> c_settime[m] # NoTime

KInv == KTypeOK /\ ListInv /\ TickInv /\ MetroInv

LEMMA InvInit == KInit => KInv
<1> SUFFICES ASSUME KInit PROVE KInv
  OBVIOUS
<1>1. KTypeOK
  <2>1. 0 \in 0..MaxTime
    BY PdClockAssumption
  <2>2. x_deltime \in [Clocks -> Nat]
    BY PdClockAssumption DEF KInit
  <2> QED
    BY <2>1, <2>2 DEF KTypeOK, ClockTypeOK, KInit
<1>2. ListInv
  <2>1. SetClocks = {}
    BY DEF KInit, SetClocks
  <2>2. DOMAIN <<>> = {} /\ <<>> \in Seq(Clocks)
    OBVIOUS
  <2> QED
    BY <2>1, <2>2 DEF KInit, ListInv, Sorted, Distinct, Elements, Before
<1>3. TickInv
  BY DEF KInit, TickInv
<1>4. MetroInv
  BY DEF KInit, MetroInv, Called, Clocks
<1> QED
  BY <1>1, <1>2, <1>3, <1>4 DEF KInv

LEMMA UnitLengthType ==
  ASSUME NEW unit \in Int \ {0}
  PROVE  UnitLength(unit) \in Nat \ {0}
BY DEF UnitLength

LEMMA DelayKeepsLists ==
  ASSUME KTypeOK, ListInv, NEW c \in Clocks, NEW deltime \in Nat, clock_delay(c, deltime)
  PROVE  /\ c_settime' \in [Clocks -> (0..MaxTime) \cup {NoTime}]
         /\ c_settime'[c] \in 0..MaxTime /\ sys_time <= c_settime'[c]
         /\ \A d \in Clocks : d # c => c_settime'[d] = c_settime[d]
         /\ ListInv'
         /\ TheAgenda' = ClockAgenda!With(c, c_settime'[c])
<1>1. UnitLength(c_unit[c]) \in Nat
  BY UnitLengthType DEF KTypeOK
<1>2. ClockTypeOK /\ sys_time \in Nat
  BY PdClockAssumption DEF KTypeOK, ClockTypeOK
<1>3. \A a, b \in Nat : a * b \in Nat
  OBVIOUS
<1>4. sys_time + UnitLength(c_unit[c]) * deltime \in Int
  BY <1>1, <1>2, <1>3
<1>5. clock_set(c, sys_time + UnitLength(c_unit[c]) * deltime)
  BY DEF clock_delay
<1>6. \A d \in Clocks : d # c => c_settime'[d] = c_settime[d]
  BY <1>2, <1>5 DEF clock_set, ClockTypeOK
<1> QED
  BY <1>2, <1>4, <1>5, <1>6, SetKeepsLists, SetOnAgenda

\* One call more, and one less.
CallRecords == [obj : Clocks, by : {"scheduler", "message"}]

LEMMA CallBegins ==
  ASSUME KTypeOK, NEW obj \in Clocks, NEW by \in {"scheduler", "message"}, Bangs(obj, by)
  PROVE  /\ calls' \in Seq(CallRecords) /\ calls' # <<>>
         /\ \A o : Called(o)' <=> Called(o) \/ o = obj
         /\ Last(calls').obj = IF calls = <<>> THEN obj ELSE Last(calls).obj
<1> DEFINE r == [obj |-> obj, by |-> by]
           n == Len(calls)
           w == <<r>> \o calls
<1>1. calls \in Seq(CallRecords) /\ DOMAIN calls = 1..n /\ n \in Nat
  BY LenProperties DEF KTypeOK, CallRecords
<1>2. r \in CallRecords /\ <<r>> \in Seq(CallRecords) /\ Len(<<r>>) = 1 /\ <<r>>[1] = r
  BY DEF CallRecords
<1>3. /\ w \in Seq(CallRecords) /\ Len(w) = Len(<<r>>) + Len(calls)
      /\ \A i \in 1..(Len(<<r>>) + Len(calls)) :
           w[i] = IF i <= Len(<<r>>) THEN <<r>>[i] ELSE calls[i - Len(<<r>>)]
  BY <1>1, <1>2, ConcatProperties
<1>4. calls' = w
  BY DEF Bangs
<1> HIDE DEF w
<1>5. Len(w) = n + 1 /\ DOMAIN w = 1..(n + 1)
  BY <1>1, <1>2, <1>3, LenProperties
<1>6. w[1] = r /\ \A i \in 1..n : i + 1 \in 1..(n + 1) /\ w[i + 1] = calls[i]
  <2>1. w[1] = r
    BY <1>1, <1>2, <1>3
  <2>2. ASSUME NEW i \in 1..n PROVE i + 1 \in 1..(n + 1) /\ w[i + 1] = calls[i]
    <3>1. i + 1 \in 1..(n + 1) /\ ~(i + 1 <= 1) /\ (i + 1) - 1 = i
      BY <1>1
    <3> QED
      BY <1>1, <1>2, <1>3, <3>1
  <2> QED
    BY <2>1, <2>2
<1>7. \A i \in 1..(n + 1) : i = 1 \/ \E j \in 1..n : i = j + 1
  <2>1. ASSUME NEW i \in 1..(n + 1), i # 1 PROVE \E j \in 1..n : i = j + 1
    <3>1. i - 1 \in 1..n /\ i = (i - 1) + 1
      BY <1>1, <2>1
    <3> QED
      BY <3>1
  <2> QED
    BY <2>1
<1>8. \A o : (\E k \in DOMAIN w : w[k].obj = o) <=> (\E k \in DOMAIN calls : calls[k].obj = o) \/ o = obj
  <2>1. ASSUME NEW o, NEW k \in DOMAIN w, w[k].obj = o
        PROVE  (\E j \in DOMAIN calls : calls[j].obj = o) \/ o = obj
    BY <1>1, <1>5, <1>6, <1>7, <2>1
  <2>2. ASSUME NEW k \in DOMAIN calls
        PROVE  \E j \in DOMAIN w : w[j].obj = calls[k].obj
    BY <1>1, <1>5, <1>6
  <2>3. 1 \in DOMAIN w /\ w[1].obj = obj
    BY <1>1, <1>5, <1>6
  <2> QED
    BY <2>1, <2>2, <2>3
<1>9. Last(w).obj = IF calls = <<>> THEN obj ELSE Last(calls).obj
  <2>1. CASE calls = <<>>
    <3>1. n = 0
      BY <2>1
    <3> QED
      BY <1>5, <1>6, <2>1, <3>1 DEF Last
  <2>2. CASE calls # <<>>
    <3>1. n \in 1..n
      BY <1>1, <2>2, EmptySeq
    <3> QED
      BY <1>5, <1>6, <2>2, <3>1 DEF Last
  <2> QED
    BY <2>1, <2>2
<1>10. w # <<>>
  BY <1>1, <1>5
<1> QED
  BY <1>3, <1>4, <1>8, <1>9, <1>10 DEF Called

LEMMA CallReturns ==
  ASSUME KTypeOK, calls # <<>>, calls' = Tail(calls)
  PROVE  /\ calls' \in Seq(CallRecords)
         /\ Head(calls) \in CallRecords
         /\ \A o : Called(o) <=> Called(o)' \/ o = Head(calls).obj
         /\ calls' = <<>> => Last(calls) = Head(calls)
         /\ calls' # <<>> => Last(calls') = Last(calls)
<1> DEFINE n == Len(calls)
           w == Tail(calls)
<1>1. calls \in Seq(CallRecords) /\ DOMAIN calls = 1..n /\ n \in Nat
  BY LenProperties DEF KTypeOK, CallRecords
<1>2. /\ Head(calls) \in CallRecords
      /\ w \in Seq(CallRecords) /\ Len(w) = n - 1
      /\ \A i \in 1..Len(w) : w[i] = calls[i + 1]
  BY <1>1, HeadTailProperties
<1>3. Head(calls) = calls[1] /\ n > 0
  BY <1>1, EmptySeq
<1> HIDE DEF w
<1>4. DOMAIN w = 1..(n - 1)
  BY <1>2, LenProperties
<1>5. \A i \in 1..(n - 1) : i + 1 \in 1..n /\ w[i] = calls[i + 1]
  BY <1>1, <1>2
<1>6. \A i \in 1..n : i = 1 \/ \E j \in 1..(n - 1) : i = j + 1
  <2>1. ASSUME NEW i \in 1..n, i # 1 PROVE \E j \in 1..(n - 1) : i = j + 1
    <3>1. i - 1 \in 1..(n - 1) /\ i = (i - 1) + 1
      BY <1>1, <2>1
    <3> QED
      BY <3>1
  <2> QED
    BY <2>1
<1>7. \A o : (\E k \in DOMAIN calls : calls[k].obj = o) <=>
             (\E k \in DOMAIN w : w[k].obj = o) \/ o = Head(calls).obj
  <2>1. ASSUME NEW k \in DOMAIN calls
        PROVE  (\E j \in DOMAIN w : w[j].obj = calls[k].obj) \/ calls[k].obj = Head(calls).obj
    <3>1. CASE k = 1
      BY <1>3, <3>1
    <3>2. CASE k # 1
      <4>1. PICK j \in 1..(n - 1) : k = j + 1
        BY <1>1, <1>6, <3>2
      <4>2. w[j] = calls[k] /\ j \in DOMAIN w
        BY <1>4, <1>5, <4>1
      <4> QED
        BY <4>2
    <3> QED
      BY <3>1, <3>2
  <2>2. ASSUME NEW k \in DOMAIN w
        PROVE  \E j \in DOMAIN calls : calls[j].obj = w[k].obj
    BY <1>1, <1>4, <1>5
  <2>3. 1 \in DOMAIN calls /\ calls[1].obj = Head(calls).obj
    BY <1>1, <1>3
  <2> QED
    BY <2>1, <2>2, <2>3
<1>8. w = <<>> => Last(calls) = Head(calls)
  <2>1. w = <<>> => n = 1
    BY <1>1, <1>2, <1>3
  <2> QED
    BY <1>3, <2>1 DEF Last
<1>9. w # <<>> => Last(w) = Last(calls)
  <2>1. ASSUME w # <<>> PROVE n - 1 \in 1..(n - 1) /\ (n - 1) + 1 = n
    BY <1>1, <1>2, <2>1, EmptySeq
  <2> QED
    BY <1>2, <1>5, <2>1 DEF Last
<1> QED
  BY <1>2, <1>7, <1>8, <1>9 DEF Called, w

-----------------------------------------------------------------------------
(* Each action keeps the invariant, and is a step of the agenda or changes *)
(* nothing of it.                                                          *)

AgendaStep == [ClockAgenda!ANext]_(ClockAgenda!agendavars)

LEMMA SettingStep ==
  ASSUME KInv, NEW c \in Clocks, NEW setticks \in Int, clock_set(c, setticks),
         UNCHANGED sys_time, TheCalled' = TheCalled
  PROVE  AgendaStep
<1>1. /\ c_settime'[c] \in 0..MaxTime /\ sys_time <= c_settime'[c]
      /\ TheAgenda' = ClockAgenda!With(c, c_settime'[c])
  BY SetKeepsLists, SetOnAgenda DEF KInv, KTypeOK
<1>2. c_settime'[c] >= sys_time
  BY <1>1, PdClockAssumption DEF KInv, KTypeOK, ClockTypeOK
<1>3. ClockAgenda!SetFor(c, c_settime'[c])
  BY <1>1, <1>2 DEF ClockAgenda!SetFor
<1> QED
  BY <1>1, <1>3 DEF AgendaStep, ClockAgenda!ANext

LEMMA UnsettingStep ==
  ASSUME KInv, NEW c \in Clocks, clock_unset(c), UNCHANGED <<sys_time, next_sys_time, calls>>
  PROVE  AgendaStep
<1>1. TheAgenda' = ClockAgenda!Without(c)
  BY UnsetOnAgenda DEF KInv, KTypeOK
<1>2. TheCalled' = TheCalled
  BY DEF TheCalled
<1>3. ClockAgenda!UnsetOf(c)
  BY <1>1, <1>2 DEF ClockAgenda!UnsetOf
<1> QED
  BY <1>3 DEF AgendaStep, ClockAgenda!ANext

LEMMA SilentStep ==
  ASSUME UNCHANGED <<sys_time, c_settime, asked>>, TheCalled' = TheCalled
  PROVE  AgendaStep
<1>1. TheAgenda' = TheAgenda
  BY DEF TheAgenda
<1> QED
  BY <1>1 DEF AgendaStep, ClockAgenda!agendavars

LEMMA SameLists ==
  ASSUME ListInv, UNCHANGED <<c_settime, clock_setlist, asked>>
  PROVE  ListInv'
BY DEF ListInv, Sorted, SetClocks

\* clock_set by one that was not set, or has no metro.
LEMMA MetrosKept ==
  ASSUME MetroInv, NEW c \in Clocks,
         \A d \in Clocks : d # c => c_settime'[d] = c_settime[d],
         c \in Metros => (c_settime'[c] # NoTime <=> c_settime[c] # NoTime),
         UNCHANGED <<x_hit, calls, told>>
  PROVE  MetroInv'
<1>1. \A m \in Metros : c_settime'[m] # NoTime <=> c_settime[m] # NoTime
  BY DEF Clocks
<1> QED
  BY <1>1 DEF MetroInv, Called

LEMMA DelayBangStep ==
  ASSUME KInv, NEW d \in Delays, NEW deltime \in DelTimes, DelayBang(d, deltime)
  PROVE  KInv' /\ AgendaStep
<1>1. d \in Clocks /\ d \notin Metros /\ deltime \in Nat
  BY PdClockAssumption DEF Clocks
<1>2. /\ c_settime' \in [Clocks -> (0..MaxTime) \cup {NoTime}]
      /\ \A c \in Clocks : c # d => c_settime'[c] = c_settime[c]
      /\ ListInv'
  BY <1>1, DelayKeepsLists DEF DelayBang, KInv
<1>3. KTypeOK'
  BY <1>1, <1>2 DEF KInv, KTypeOK, ClockTypeOK, DelayBang
<1>4. TickInv'
  BY DEF KInv, TickInv, DelayBang
<1>5. MetroInv'
  BY <1>1, <1>2, MetrosKept DEF KInv, DelayBang
<1>6. sys_time + UnitLength(c_unit[d]) * deltime \in Int
  <2>1. UnitLength(c_unit[d]) \in Nat
    BY <1>1, UnitLengthType DEF KInv, KTypeOK
  <2>2. sys_time \in Int
    BY DEF KInv, KTypeOK, ClockTypeOK
  <2>3. \A a, b \in Nat : a * b \in Int
    OBVIOUS
  <2> QED
    BY <1>1, <2>1, <2>2, <2>3
<1>7. AgendaStep
  BY <1>1, <1>6, SettingStep DEF DelayBang, clock_delay, TheCalled
<1> QED
  BY <1>2, <1>3, <1>4, <1>5, <1>7 DEF KInv

LEMMA DelayStopStep ==
  ASSUME KInv, NEW d \in Delays, DelayStop(d)
  PROVE  KInv' /\ AgendaStep
<1>1. d \in Clocks /\ d \notin Metros
  BY PdClockAssumption DEF Clocks
<1>2. c_settime' \in [Clocks -> (0..MaxTime) \cup {NoTime}] /\ ListInv'
  BY <1>1, UnsetKeepsLists DEF DelayStop, KInv, KTypeOK
<1>3. \A c \in Clocks : c # d => c_settime'[c] = c_settime[c]
  BY DEF DelayStop, clock_unset, KInv, KTypeOK, ClockTypeOK
<1>4. KTypeOK'
  BY <1>2 DEF KInv, KTypeOK, ClockTypeOK, DelayStop
<1>5. TickInv'
  BY DEF KInv, TickInv, DelayStop
<1>6. MetroInv'
  BY <1>1, <1>3, MetrosKept DEF KInv, DelayStop
<1>7. AgendaStep
  BY <1>1, UnsettingStep DEF DelayStop
<1> QED
  BY <1>2, <1>4, <1>5, <1>6, <1>7 DEF KInv

LEMMA SetDelTimeStep ==
  ASSUME KInv, NEW obj \in Clocks, NEW deltime \in DelTimes, SetDelTime(obj, deltime)
  PROVE  KInv' /\ AgendaStep
<1>1. deltime \in Nat
  BY PdClockAssumption
<1>2. KTypeOK'
  BY <1>1 DEF KInv, KTypeOK, ClockTypeOK, SetDelTime
<1>3. ListInv' /\ TickInv' /\ MetroInv'
  BY SameLists DEF KInv, TickInv, MetroInv, Called, SetDelTime
<1>4. AgendaStep
  BY SilentStep DEF SetDelTime, TheCalled
<1> QED
  BY <1>2, <1>3, <1>4 DEF KInv

LEMMA MetroStartStep ==
  ASSUME KInv, NEW m \in Metros, CanBeSent, MetroStart(m)
  PROVE  KInv' /\ AgendaStep
<1>1. /\ calls' \in Seq(CallRecords) /\ calls' # <<>>
      /\ \A o : Called(o)' <=> Called(o) \/ o = m
      /\ Last(calls').obj = IF calls = <<>> THEN m ELSE Last(calls).obj
  BY CallBegins DEF MetroStart, KInv, Clocks
<1>2. KTypeOK'
  BY <1>1 DEF KInv, KTypeOK, ClockTypeOK, MetroStart, CallRecords
<1>3. ListInv' /\ TickInv'
  BY SameLists DEF KInv, TickInv, MetroStart
<1>4. MetroInv'
  <2>1. ASSUME NEW k \in Metros
        PROVE  (IF Called(k) /\ ~x_hit[k] THEN told[k] ELSE told[k] <=> c_settime[k] # NoTime)'
    <3>1. CASE k = m
      <4>1. told'[m] = TRUE /\ x_hit'[m] = FALSE
        BY DEF MetroStart, KInv, KTypeOK
      <4>2. Called(m)'
        BY <1>1
      <4> QED
        BY <3>1, <4>1, <4>2
    <3>2. CASE k # m
      <4>1. told'[k] = told[k] /\ x_hit'[k] = x_hit[k] /\ c_settime' = c_settime
        BY <3>2 DEF MetroStart, KInv, KTypeOK
      <4>2. Called(k)' <=> Called(k)
        BY <1>1, <3>2
      <4> QED
        BY <4>1, <4>2 DEF KInv, MetroInv
    <3> QED
      BY <3>1, <3>2
  <2> QED
    BY <2>1 DEF MetroInv
<1>5. AgendaStep
  <2>1. TheCalled' = TheCalled
    BY <1>1 DEF TheCalled, CanBeSent, MetroStart
  <2> QED
    BY <2>1, SilentStep DEF MetroStart
<1> QED
  BY <1>2, <1>3, <1>4, <1>5 DEF KInv

LEMMA MetroStopStep ==
  ASSUME KInv, NEW m \in Metros, MetroStop(m)
  PROVE  KInv' /\ AgendaStep
<1>1. m \in Clocks
  BY DEF Clocks
<1>2. c_settime' \in [Clocks -> (0..MaxTime) \cup {NoTime}] /\ ListInv'
  BY <1>1, UnsetKeepsLists DEF MetroStop, KInv, KTypeOK
<1>3. KTypeOK'
  BY <1>2 DEF KInv, KTypeOK, ClockTypeOK, MetroStop
<1>4. TickInv'
  BY DEF KInv, TickInv, MetroStop
<1>5. MetroInv'
  <2>1. ASSUME NEW k \in Metros
        PROVE  (IF Called(k) /\ ~x_hit[k] THEN told[k] ELSE told[k] <=> c_settime[k] # NoTime)'
    <3>1. CASE k = m
      <4>1. told'[m] = FALSE /\ x_hit'[m] = TRUE /\ c_settime'[m] = NoTime
        BY <1>1 DEF MetroStop, KInv, KTypeOK, ClockTypeOK, clock_unset
      <4> QED
        BY <3>1, <4>1
    <3>2. CASE k # m
      <4>1. told'[k] = told[k] /\ x_hit'[k] = x_hit[k] /\ c_settime'[k] = c_settime[k]
        BY <3>2 DEF MetroStop, KInv, KTypeOK, ClockTypeOK, clock_unset, Clocks
      <4>2. Called(k)' <=> Called(k)
        BY DEF MetroStop, Called
      <4> QED
        BY <4>1, <4>2 DEF KInv, MetroInv
    <3> QED
      BY <3>1, <3>2
  <2> QED
    BY <2>1 DEF MetroInv
<1>6. AgendaStep
  BY <1>1, UnsettingStep DEF MetroStop
<1> QED
  BY <1>2, <1>3, <1>4, <1>5, <1>6 DEF KInv

LEMMA SetUnitStep ==
  ASSUME KInv, NEW obj \in Clocks, NEW unit \in NewUnits, SetUnit(obj, unit)
  PROVE  KInv' /\ AgendaStep
<1> DEFINE left == c_settime[obj] - sys_time
           setticks == sys_time + (left * UnitLength(unit)) \div UnitLength(c_unit[obj])
<1>1. c_unit' \in [Clocks -> Int \ {0}]
  BY PdClockAssumption DEF SetUnit, KInv, KTypeOK
<1>2. CASE c_settime[obj] # NoTime /\ (c_unit[obj] > 0 \/ left = 0)
  <2>1. clock_set(obj, setticks)
    BY <1>2 DEF SetUnit
  <2>2. setticks \in Int
    <3>1. UnitLength(unit) \in Nat /\ UnitLength(c_unit[obj]) \in Nat \ {0}
      BY UnitLengthType, PdClockAssumption DEF KInv, KTypeOK
    <3>2. left \in Int /\ sys_time \in Int
      <4>1. c_settime[obj] \in (0..MaxTime) \cup {NoTime} /\ sys_time \in 0..MaxTime
        BY DEF KInv, KTypeOK, ClockTypeOK
      <4> QED
        BY <4>1 DEF NoTime
    <3>3. left * UnitLength(unit) \in Int
      BY <3>1, <3>2
    <3>4. (left * UnitLength(unit)) \div UnitLength(c_unit[obj]) \in Int
      BY <3>1, <3>3
    <3> QED
      BY <3>2, <3>4
  <2> HIDE DEF setticks
  <2>3. /\ c_settime' \in [Clocks -> (0..MaxTime) \cup {NoTime}]
        /\ c_settime'[obj] \in 0..MaxTime
        /\ ListInv'
    BY <2>1, <2>2, SetKeepsLists DEF KInv, KTypeOK
  <2>4. \A d \in Clocks : d # obj => c_settime'[d] = c_settime[d]
    BY <2>1 DEF clock_set, KInv, KTypeOK, ClockTypeOK
  <2>5. KTypeOK'
    BY <1>1, <2>3 DEF KInv, KTypeOK, ClockTypeOK, SetUnit
  <2>6. TickInv'
    BY DEF KInv, TickInv, SetUnit
  <2>7. MetroInv'
    BY <1>2, <2>3, <2>4, MetrosKept DEF KInv, SetUnit, NoTime
  <2>8. AgendaStep
    BY <2>1, <2>2, SettingStep DEF SetUnit, TheCalled
  <2> QED
    BY <2>3, <2>5, <2>6, <2>7, <2>8 DEF KInv
<1>3. CASE ~(c_settime[obj] # NoTime /\ (c_unit[obj] > 0 \/ left = 0))
  <2>1. UNCHANGED <<c_settime, clock_setlist, asked>>
    BY <1>3 DEF SetUnit
  <2>2. KTypeOK'
    BY <1>1, <2>1 DEF KInv, KTypeOK, ClockTypeOK, SetUnit
  <2>3. ListInv' /\ TickInv' /\ MetroInv'
    BY <2>1, SameLists DEF KInv, TickInv, MetroInv, Called, SetUnit
  <2>4. AgendaStep
    BY <2>1, SilentStep DEF SetUnit, TheCalled
  <2> QED
    BY <2>2, <2>3, <2>4 DEF KInv
<1> QED
  BY <1>2, <1>3

LEMMA FreeObjectStep ==
  ASSUME KInv, NEW obj \in objects, FreeObject(obj)
  PROVE  KInv' /\ AgendaStep
<1>1. obj \in Clocks
  BY DEF KInv, KTypeOK
<1>2. c_settime' \in [Clocks -> (0..MaxTime) \cup {NoTime}] /\ ListInv'
  BY <1>1, UnsetKeepsLists DEF FreeObject, KInv, KTypeOK
<1>3. KTypeOK'
  BY <1>2 DEF KInv, KTypeOK, ClockTypeOK, FreeObject
<1>4. TickInv'
  BY DEF KInv, TickInv, FreeObject
<1>5. MetroInv'
  <2>1. ASSUME NEW m \in Metros
        PROVE  (IF Called(m) /\ ~x_hit[m] THEN told[m] ELSE told[m] <=> c_settime[m] # NoTime)'
    <3>1. Called(m)' <=> Called(m)
      BY DEF FreeObject, Called
    <3>2. x_hit'[m] = x_hit[m] /\ told'[m] = (m # obj /\ told[m])
      BY DEF FreeObject, KInv, KTypeOK
    <3>3. CASE m = obj
      <4>1. ~Called(m) /\ c_settime'[m] = NoTime
        BY <1>1, <3>3 DEF FreeObject, Called, clock_unset, KInv, KTypeOK, ClockTypeOK
      <4> QED
        BY <3>1, <3>2, <3>3, <4>1
    <3>4. CASE m # obj
      <4>1. c_settime'[m] = c_settime[m]
        BY <3>4 DEF FreeObject, clock_unset, KInv, KTypeOK, ClockTypeOK, Clocks
      <4>2. told'[m] = told[m]
        BY <3>2, <3>4 DEF KInv, KTypeOK
      <4> QED
        BY <3>1, <3>2, <4>1, <4>2 DEF KInv, MetroInv
    <3> QED
      BY <3>3, <3>4
  <2> QED
    BY <2>1 DEF MetroInv
<1>6. AgendaStep
  BY <1>1, UnsettingStep DEF FreeObject
<1> QED
  BY <1>2, <1>3, <1>4, <1>5, <1>6 DEF KInv

LEMMA CallEndsStep ==
  ASSUME KInv, CallEnds
  PROVE  KInv' /\ AgendaStep
<1> DEFINE obj == Head(calls).obj
           t == c_settime'[obj]
<1>1. /\ calls # <<>> /\ calls' = Tail(calls)
      /\ UNCHANGED <<objects, sys_time, c_unit, next_sys_time, x_deltime, told>>
  BY DEF CallEnds
<1>2. /\ calls' \in Seq(CallRecords) /\ Head(calls) \in CallRecords
      /\ \A o : Called(o) <=> Called(o)' \/ o = obj
      /\ calls' = <<>> => Last(calls) = Head(calls)
      /\ calls' # <<>> => Last(calls') = Last(calls)
  BY <1>1, CallReturns DEF KInv
<1>3. obj \in Clocks /\ Called(obj)
  BY <1>2 DEF CallRecords
<1>4. x_hit' = IF Head(calls).by = "message" THEN [x_hit EXCEPT ![obj] = TRUE] ELSE x_hit
  BY DEF CallEnds
<1>5. x_hit' \in [Metros -> BOOLEAN] /\ \A m \in Metros : m # obj => x_hit'[m] = x_hit[m]
  BY <1>4 DEF KInv, KTypeOK
<1>6. x_deltime[obj] \in Nat
  BY <1>3 DEF KInv, KTypeOK
<1>7. sys_time + UnitLength(c_unit[obj]) * x_deltime[obj] \in Int
  <2>1. UnitLength(c_unit[obj]) \in Nat
    BY <1>3, UnitLengthType DEF KInv, KTypeOK
  <2>2. sys_time \in Int
    BY DEF KInv, KTypeOK, ClockTypeOK
  <2>3. \A a, b \in Nat : a * b \in Int
    OBVIOUS
  <2> QED
    BY <1>6, <2>1, <2>2, <2>3
<1> HIDE DEF obj
<1>8. /\ obj \in Metros /\ ~x_hit[obj] => clock_delay(obj, x_deltime[obj])
      /\ ~(obj \in Metros /\ ~x_hit[obj]) => UNCHANGED <<c_settime, clock_setlist, asked>>
  BY DEF CallEnds, GoesOn, obj
<1>9. TickInv'
  BY <1>1 DEF KInv, TickInv
\* Whether the call that ends is the one the scheduler made.
<1>10. \/ TheCalled' = TheCalled
       \/ TheCalled = obj /\ TheCalled # Nobody /\ TheCalled' = Nobody
  <2>1. obj # Nobody
    BY <1>3, PdClockAssumption DEF Clocks
  <2>2. CASE next_sys_time = NoTime
    BY <1>1, <2>2 DEF TheCalled
  <2>3. CASE next_sys_time # NoTime /\ calls' # <<>>
    BY <1>1, <1>2, <2>3 DEF TheCalled
  <2>4. CASE next_sys_time # NoTime /\ calls' = <<>>
    BY <1>1, <1>2, <2>1, <2>4 DEF TheCalled, obj
  <2> QED
    BY <2>2, <2>3, <2>4
<1>11. CASE obj \in Metros /\ ~x_hit[obj]
  <2>1. clock_delay(obj, x_deltime[obj])
    BY <1>8, <1>11
  <2>2. /\ c_settime' \in [Clocks -> (0..MaxTime) \cup {NoTime}]
        /\ t \in 0..MaxTime /\ sys_time <= t
        /\ \A d \in Clocks : d # obj => c_settime'[d] = c_settime[d]
        /\ ListInv'
        /\ TheAgenda' = ClockAgenda!With(obj, t)
    BY <1>3, <1>6, <2>1, DelayKeepsLists DEF KInv
  <2>3. KTypeOK'
    BY <1>1, <1>2, <1>5, <2>2 DEF KInv, KTypeOK, ClockTypeOK, CallRecords
  <2>4. MetroInv'
    <3>1. ASSUME NEW m \in Metros
          PROVE  (IF Called(m) /\ ~x_hit[m] THEN told[m] ELSE told[m] <=> c_settime[m] # NoTime)'
      <4>1. CASE m = obj
        <5>1. told[m] = TRUE
          BY <1>3, <1>11, <4>1 DEF KInv, MetroInv, KTypeOK
        <5>2. c_settime'[m] # NoTime
          BY <2>2, <4>1 DEF NoTime
        <5> QED
          BY <1>1, <5>1, <5>2
      <4>2. CASE m # obj
        <5>1. c_settime'[m] = c_settime[m] /\ x_hit'[m] = x_hit[m] /\ told'[m] = told[m]
          BY <1>1, <1>5, <2>2, <4>2 DEF Clocks
        <5>2. Called(m)' <=> Called(m)
          BY <1>2, <4>2
        <5> QED
          BY <5>1, <5>2 DEF KInv, MetroInv
      <4> QED
        BY <4>1, <4>2
    <3> QED
      BY <3>1 DEF MetroInv
  <2>5. AgendaStep
    <3>1. CASE TheCalled' = TheCalled
      BY <1>1, <1>3, <1>7, <2>1, <3>1, SettingStep DEF clock_delay
    <3>2. CASE TheCalled = obj /\ TheCalled # Nobody /\ TheCalled' = Nobody
      <4>1. t >= sys_time
        BY <2>2, PdClockAssumption DEF KInv, KTypeOK, ClockTypeOK
      <4>2. ClockAgenda!ReturnOf
        BY <1>1, <2>2, <3>2, <4>1 DEF ClockAgenda!ReturnOf
      <4> QED
        BY <4>2 DEF AgendaStep, ClockAgenda!ANext
    <3> QED
      BY <1>10, <3>1, <3>2
  <2> QED
    BY <1>9, <2>2, <2>3, <2>4, <2>5 DEF KInv
<1>12. CASE ~(obj \in Metros /\ ~x_hit[obj])
  <2>1. UNCHANGED <<c_settime, clock_setlist, asked>>
    BY <1>8, <1>12
  <2>2. KTypeOK'
    BY <1>1, <1>2, <1>5, <2>1 DEF KInv, KTypeOK, ClockTypeOK, CallRecords
  <2>3. ListInv'
    BY <2>1, SameLists DEF KInv
  <2>4. MetroInv'
    <3>1. ASSUME NEW m \in Metros
          PROVE  (IF Called(m) /\ ~x_hit[m] THEN told[m] ELSE told[m] <=> c_settime[m] # NoTime)'
      <4>1. CASE m = obj
        <5>1. x_hit'[m] = TRUE /\ x_hit[m] = TRUE
          BY <1>4, <1>12, <4>1 DEF KInv, KTypeOK
        <5> QED
          BY <1>1, <2>1, <5>1 DEF KInv, MetroInv
      <4>2. CASE m # obj
        <5>1. x_hit'[m] = x_hit[m] /\ (Called(m)' <=> Called(m))
          BY <1>2, <1>5, <4>2
        <5> QED
          BY <1>1, <2>1, <5>1 DEF KInv, MetroInv
      <4> QED
        BY <4>1, <4>2
    <3> QED
      BY <3>1 DEF MetroInv
  <2>5. AgendaStep
    <3>1. CASE TheCalled' = TheCalled
      BY <1>1, <2>1, <3>1, SilentStep
    <3>2. CASE TheCalled = obj /\ TheCalled # Nobody /\ TheCalled' = Nobody
      <4>1. TheAgenda' = TheAgenda
        BY <2>1 DEF TheAgenda
      <4>2. ClockAgenda!ReturnOf
        BY <1>1, <3>2, <4>1 DEF ClockAgenda!ReturnOf
      <4> QED
        BY <4>2 DEF AgendaStep, ClockAgenda!ANext
    <3> QED
      BY <1>10, <3>1, <3>2
  <2> QED
    BY <1>9, <2>2, <2>3, <2>4, <2>5 DEF KInv
<1> QED
  BY <1>11, <1>12

\* The first clock of the list is the next one of the agenda.
LEMMA HeadIsFirst ==
  ASSUME KInv, clock_setlist # <<>>
  PROVE  /\ Head(clock_setlist) \in SetClocks
         /\ \A d \in SetClocks : d # Head(clock_setlist) =>
              \/ c_settime[Head(clock_setlist)] < c_settime[d]
              \/ c_settime[Head(clock_setlist)] = c_settime[d] /\ Before(asked, Head(clock_setlist), d)
<1> DEFINE c == Head(clock_setlist)
<1>1. /\ clock_setlist \in Seq(Clocks) /\ Elements(clock_setlist) = SetClocks
      /\ DOMAIN clock_setlist = 1..Len(clock_setlist) /\ Len(clock_setlist) \in Nat
  BY LenProperties DEF KInv, ListInv
<1>2. c = clock_setlist[1] /\ 1 \in DOMAIN clock_setlist
  BY <1>1, EmptySeq
<1> HIDE DEF c
<1>3. c \in SetClocks
  BY <1>1, <1>2 DEF Elements
<1>4. ASSUME NEW d \in SetClocks, d # c
      PROVE  Before(clock_setlist, c, d)
  <2>1. PICK k \in DOMAIN clock_setlist : clock_setlist[k] = d
    BY <1>1 DEF Elements
  <2>2. 1 < k
    BY <1>1, <1>2, <1>4, <2>1
  <2> QED
    BY <1>2, <2>1, <2>2 DEF Before
<1> QED
  BY <1>3, <1>4 DEF KInv, ListInv, Sorted, c

LEMMA SetTimes ==
  ASSUME KInv, NEW c \in SetClocks
  PROVE  c \in Clocks /\ c_settime[c] \in 0..MaxTime /\ c_settime[c] \in Nat
BY DEF SetClocks, KInv, KTypeOK, ClockTypeOK, NoTime

LEMMA AskedEntries ==
  ASSUME KInv
  PROVE  /\ DOMAIN TheAgenda = DOMAIN asked
         /\ \A k \in DOMAIN asked : /\ asked[k] \in SetClocks
                                   /\ TheAgenda[k].clock = asked[k]
                                   /\ TheAgenda[k].time = c_settime[asked[k]]
<1>1. \A k \in DOMAIN asked : asked[k] \in SetClocks
  BY DEF KInv, ListInv, Elements
<1> QED
  BY <1>1 DEF TheAgenda, Entries

LEMMA TickBeginsStep ==
  ASSUME KInv, TickBegins
  PROVE  KInv' /\ AgendaStep
<1>1. sys_time' \in 0..MaxTime /\ next_sys_time' \in 0..MaxTime /\ sys_time' <= next_sys_time'
  BY PdClockAssumption DEF TickBegins, KInv, KTypeOK, ClockTypeOK
<1>2. KTypeOK'
  BY <1>1 DEF TickBegins, KInv, KTypeOK, ClockTypeOK
<1>3. ListInv' /\ TickInv' /\ MetroInv'
  BY <1>1, SameLists DEF TickBegins, KInv, TickInv, MetroInv, Called
<1>4. AgendaStep
  BY SilentStep DEF TickBegins, TheCalled
<1> QED
  BY <1>2, <1>3, <1>4 DEF KInv

LEMMA TickEndsStep ==
  ASSUME KInv, TickEnds
  PROVE  KInv' /\ AgendaStep
<1>1. /\ next_sys_time # NoTime /\ calls = <<>> /\ ~Due
      /\ sys_time' = next_sys_time /\ next_sys_time' = NoTime
      /\ UNCHANGED <<objects, c_settime, c_unit, clock_setlist, x_deltime, x_hit, calls, told, asked>>
  BY DEF TickEnds
<1>2. next_sys_time \in 0..MaxTime /\ sys_time <= next_sys_time
  BY <1>1 DEF KInv, KTypeOK, TickInv
<1>3. KTypeOK'
  BY <1>1, <1>2 DEF KInv, KTypeOK, ClockTypeOK
<1>4. ListInv' /\ TickInv' /\ MetroInv'
  BY <1>1, SameLists DEF KInv, TickInv, MetroInv, Called
<1>5. ASSUME NEW k \in DOMAIN TheAgenda
      PROVE  TheAgenda[k].time >= next_sys_time
  <2>1. asked[k] \in SetClocks /\ TheAgenda[k].time = c_settime[asked[k]]
    BY AskedEntries
  <2>2. clock_setlist # <<>>
    BY <2>1 DEF KInv, ListInv, Elements
  <2>3. ~(c_settime[Head(clock_setlist)] < next_sys_time)
    BY <1>1, <2>2 DEF Due
  <2>4. Head(clock_setlist) \in SetClocks
    BY <2>2, HeadIsFirst
  <2>5. c_settime[Head(clock_setlist)] \in Nat /\ c_settime[asked[k]] \in Nat
    BY <2>1, <2>4, SetTimes
  <2>6. c_settime[Head(clock_setlist)] <= c_settime[asked[k]]
    BY <2>1, <2>2, <2>5, HeadIsFirst
  <2> QED
    BY <1>2, <2>1, <2>3, <2>5, <2>6
<1>6. TheAgenda' = TheAgenda /\ TheCalled = Nobody /\ TheCalled' = Nobody
  BY <1>1 DEF TheAgenda, TheCalled
<1>7. next_sys_time >= sys_time
  BY <1>2, PdClockAssumption DEF KInv, KTypeOK, ClockTypeOK
<1>8. ClockAgenda!PassTo(next_sys_time)
  BY <1>1, <1>5, <1>6, <1>7 DEF ClockAgenda!PassTo
<1>9. AgendaStep
  BY <1>2, <1>8 DEF AgendaStep, ClockAgenda!ANext
<1> QED
  BY <1>3, <1>4, <1>9 DEF KInv

LEMMA CallClockStep ==
  ASSUME KInv, CallClock
  PROVE  KInv' /\ AgendaStep
<1> DEFINE c == Head(clock_setlist)
<1>1. /\ next_sys_time # NoTime /\ calls = <<>> /\ Due
      /\ sys_time' = c_settime[c]
      /\ clock_unset(c)
      /\ Bangs(c, "scheduler")
      /\ x_hit' = IF c \in Metros THEN [x_hit EXCEPT ![c] = FALSE] ELSE x_hit
      /\ UNCHANGED <<objects, c_unit, next_sys_time, x_deltime, told>>
  BY DEF CallClock
<1>2. clock_setlist # <<>> /\ c_settime[c] < next_sys_time
  BY <1>1 DEF Due
<1>3. /\ c \in SetClocks
      /\ \A d \in SetClocks : d # c =>
           \/ c_settime[c] < c_settime[d]
           \/ c_settime[c] = c_settime[d] /\ Before(asked, c, d)
  BY <1>2, HeadIsFirst
<1> HIDE DEF c
<1>4. c \in Clocks /\ c_settime[c] \in 0..MaxTime
  BY <1>3, SetTimes
<1>5. /\ c_settime' \in [Clocks -> (0..MaxTime) \cup {NoTime}] /\ ListInv'
      /\ TheAgenda' = ClockAgenda!Without(c)
  BY <1>1, <1>4, UnsetKeepsLists, UnsetOnAgenda DEF KInv, KTypeOK
<1>6. /\ calls' \in Seq(CallRecords) /\ calls' # <<>>
      /\ \A o : Called(o)' <=> Called(o) \/ o = c
      /\ Last(calls').obj = c
  BY <1>1, <1>4, CallBegins DEF KInv
<1>7. KTypeOK'
  BY <1>1, <1>4, <1>5, <1>6 DEF KInv, KTypeOK, ClockTypeOK, CallRecords
<1>8. TickInv'
  <2>1. next_sys_time \in 0..MaxTime
    BY <1>1 DEF KInv, KTypeOK
  <2> QED
    BY <1>1, <1>2, <1>4, <2>1 DEF TickInv
<1>9. MetroInv'
  <2>1. ASSUME NEW m \in Metros
        PROVE  (IF Called(m) /\ ~x_hit[m] THEN told[m] ELSE told[m] <=> c_settime[m] # NoTime)'
    <3>1. told[m] <=> c_settime[m] # NoTime
      BY <1>1 DEF KInv, MetroInv, Called
    <3>2. CASE m = c
      <4>1. told'[m] = TRUE
        BY <1>1, <1>3, <3>1, <3>2 DEF SetClocks, KInv, KTypeOK
      <4>2. Called(m)' /\ x_hit'[m] = FALSE
        BY <1>1, <1>6, <3>2 DEF KInv, KTypeOK
      <4> QED
        BY <4>1, <4>2
    <3>3. CASE m # c
      <4>0. ~Called(m)
        BY <1>1 DEF Called
      <4>1. ~Called(m)'
        BY <1>6, <3>3, <4>0
      <4>2. c_settime'[m] = c_settime[m]
        BY <1>1, <3>3 DEF clock_unset, KInv, KTypeOK, ClockTypeOK, Clocks
      <4> QED
        BY <1>1, <3>1, <4>1, <4>2
    <3> QED
      BY <3>2, <3>3
  <2> QED
    BY <2>1 DEF MetroInv
<1>10. TheCalled = Nobody /\ TheCalled' = c
  BY <1>1, <1>6 DEF TheCalled
<1>11. PICK k \in DOMAIN asked : asked[k] = c
  BY <1>3 DEF KInv, ListInv, Elements
<1>12. /\ DOMAIN TheAgenda = DOMAIN asked
       /\ \A j \in DOMAIN asked : /\ asked[j] \in SetClocks
                                 /\ TheAgenda[j].clock = asked[j]
                                 /\ TheAgenda[j].time = c_settime[asked[j]]
  BY AskedEntries
<1>13. Distinct(asked) /\ DOMAIN asked = 1..Len(asked) /\ Len(asked) \in Nat
  BY LenProperties DEF KInv, ListInv
<1>14. ClockAgenda!IsNext(k)
  <2>1. ASSUME NEW j \in DOMAIN asked
        PROVE  c_settime[c] <= c_settime[asked[j]]
    BY <1>3, <1>12, SetTimes
  <2>2. ASSUME NEW j \in 1..(k - 1)
        PROVE  c_settime[c] < c_settime[asked[j]]
    <3>1. j \in DOMAIN asked /\ j < k
      BY <1>13
    <3>2. asked[j] # c
      BY <1>11, <1>13, <3>1 DEF Distinct
    <3>3. ~Before(asked, c, asked[j])
      <4>1. ASSUME NEW p \in DOMAIN asked, NEW q \in DOMAIN asked,
                   p < q, asked[p] = c, asked[q] = asked[j]
            PROVE  FALSE
        <5>1. p = k /\ q = j
          BY <1>11, <1>13, <3>1, <4>1 DEF Distinct
        <5> QED
          BY <1>13, <3>1, <4>1, <5>1
      <4> QED
        BY <4>1 DEF Before
    <3> QED
      BY <1>3, <1>12, <3>1, <3>2, <3>3
  <2>3. \A j \in 1..(k - 1) : j \in DOMAIN asked
    BY <1>13
  <2> QED
    BY <1>11, <1>12, <2>1, <2>2, <2>3 DEF ClockAgenda!IsNext
<1>15. ClockAgenda!Without(c) = ClockAgenda!RemoveAt(TheAgenda, k)
  <2>1. ClockAgenda!Indexed(c) = {k}
    BY <1>11, <1>12, <1>13 DEF ClockAgenda!Indexed, Distinct
  <2>2. (CHOOSE j \in ClockAgenda!Indexed(c) : TRUE) = k
    BY <2>1
  <2> QED
    BY <2>1, <2>2 DEF ClockAgenda!Without
<1>16. ClockAgenda!CallOf(k)
  BY <1>1, <1>5, <1>10, <1>11, <1>12, <1>14, <1>15 DEF ClockAgenda!CallOf
<1>17. AgendaStep
  BY <1>12, <1>16 DEF AgendaStep, ClockAgenda!ANext
<1> QED
  BY <1>5, <1>7, <1>8, <1>9, <1>17 DEF KInv

LEMMA EachStep ==
  ASSUME KInv, [KNext]_pdvars
  PROVE  KInv' /\ AgendaStep
<1>1. CASE Message
  <2>1. ASSUME NEW d \in Delays \cap objects, DelayStop(d)
        PROVE  KInv' /\ AgendaStep
    BY <2>1, DelayStopStep
  <2>2. ASSUME NEW d \in Delays \cap objects, NEW t \in DelTimes, DelayBang(d, t)
        PROVE  KInv' /\ AgendaStep
    BY <2>2, DelayBangStep
  <2>3. ASSUME NEW m \in Metros \cap objects, MetroStart(m)
        PROVE  KInv' /\ AgendaStep
    BY <1>1, <2>3, MetroStartStep DEF Message
  <2>4. ASSUME NEW m \in Metros \cap objects, MetroStop(m)
        PROVE  KInv' /\ AgendaStep
    BY <2>4, MetroStopStep
  <2>5. ASSUME NEW obj \in objects
        PROVE  /\ \A t \in DelTimes : SetDelTime(obj, t) => KInv' /\ AgendaStep
               /\ \A unit \in NewUnits : SetUnit(obj, unit) => KInv' /\ AgendaStep
               /\ FreeObject(obj) => KInv' /\ AgendaStep
    <3>1. obj \in Clocks
      BY DEF KInv, KTypeOK
    <3> QED
      BY <3>1, SetDelTimeStep, SetUnitStep, FreeObjectStep
  <2> QED
    BY <1>1, <2>1, <2>2, <2>3, <2>4, <2>5 DEF Message
<1>2. CASE CallEnds
  BY <1>2, CallEndsStep
<1>3. CASE TickBegins
  BY <1>3, TickBeginsStep
<1>4. CASE CallClock
  BY <1>4, CallClockStep
<1>5. CASE TickEnds
  BY <1>5, TickEndsStep
<1>6. CASE UNCHANGED pdvars
  <2> USE <1>6 DEF pdvars
  <2>1. KTypeOK'
    BY DEF KInv, KTypeOK, ClockTypeOK
  <2>2. ListInv' /\ TickInv' /\ MetroInv'
    BY SameLists DEF KInv, TickInv, MetroInv, Called
  <2>3. AgendaStep
    BY SilentStep DEF TheCalled
  <2> QED
    BY <2>1, <2>2, <2>3 DEF KInv
<1> QED
  BY <1>1, <1>2, <1>3, <1>4, <1>5, <1>6 DEF KNext

-----------------------------------------------------------------------------
(* Theorems.                                                               *)

LEMMA ClockInvariant == KSpec => []KInv
<1>1. KInv /\ [KNext]_pdvars => KInv'
  BY EachStep
<1> QED
  BY InvInit, <1>1, PTL DEF KSpec

\* The clocks that are set are in the list that sched_tick walks, each once and by
\* their times, and the variables keep their types.
THEOREM ListIsTrue == KSpec => [](KTypeOK /\ ListInv)
<1>1. KInv => KTypeOK /\ ListInv
  BY DEF KInv
<1> QED
  BY <1>1, ClockInvariant, PTL

\* Whatever is sent to a metro, from within whatever bang, it goes on if the last
\* message has started it and is silent if it has stopped it.
THEOREM MetrosDoAsTold == KSpec => []MetroDoesAsTold
<1>1. KInv => MetroDoesAsTold
  BY DEF KInv, MetroInv, MetroDoesAsTold, Called
<1> QED
  BY <1>1, ClockInvariant, PTL

\* Every clock that is set is called once, at its time, in the order of the times and
\* for one time in the order they were set.
THEOREM ImplementsAgenda == KSpec => KeepsTheAgenda
<1>1. KInit => ClockAgenda!AInit
  <2>1. SUFFICES ASSUME KInit PROVE ClockAgenda!AInit
    OBVIOUS
  <2>2. TheAgenda = <<>>
    BY <2>1 DEF KInit, TheAgenda, Entries
  <2>3. TheCalled = Nobody
    BY <2>1 DEF KInit, TheCalled
  <2> QED
    BY <2>1, <2>2, <2>3 DEF KInit, ClockAgenda!AInit
<1>2. KInv /\ [KNext]_pdvars => [ClockAgenda!ANext]_(ClockAgenda!agendavars)
  BY EachStep DEF AgendaStep
<1> QED
  BY <1>1, <1>2, ClockInvariant, PTL DEF KSpec, KeepsTheAgenda, ClockAgenda!ASpec

-----------------------------------------------------------------------------
(* pipe.                                                                   *)

Wait == [clock : Lists, time : Nat]

PipeFrame == [kind : {"flush", "clock", "flushed"}, list : Lists \cup {0}, left : 0..x_n]

PipeTypeOK ==
  /\ now \in Nat
  /\ x_hang \in Seq(Lists)
  /\ doing \in Seq(PipeFrame)
  /\ given \subseteq Lists /\ forgotten \subseteq given
  /\ due \in [Lists -> Nat]
  /\ out \in [Lists -> Seq([outlet : Int, at : Int])]

OnePerClock(a) == \A j, k \in DOMAIN a : a[j].clock = a[k].clock => j = k

ClocksOf(a) == {e.clock : e \in Elements(a)}

\* The lists that flush is putting out: their clocks are still set.
Flushes == {doing[k].list : k \in {j \in DOMAIN doing : doing[j].kind = "flushed"}}

\* Each list that is held, or that flush is putting out, has its clock set for its time,
\* and no other clock is set.
HangsInv ==
  /\ agenda \in Seq(Wait) /\ OnePerClock(agenda)
  /\ \A e \in Elements(agenda) : e.time = due[e.clock] /\ e.time >= now
  /\ ClocksOf(agenda) = Elements(x_hang) \cup Flushes

\* What is being put out.
Puts == {k \in DOMAIN doing : doing[k].kind # "flush"}

\* The first n numbers of a list are out, in time.
Numbers(o, time, n) ==
  /\ Len(o) = n
  /\ \A i \in 1..n : o[i].outlet = x_n + 1 - i /\ o[i].at <= time

Kept == Elements(x_hang) \cup forgotten

\* Each list is held, forgotten or put out by one call, to which it is left, or whole.
ListsInv ==
  /\ Distinct(x_hang)
  /\ Elements(x_hang) \subseteq given /\ Elements(x_hang) \cap forgotten = {}
  /\ \A k \in Puts :
       /\ doing[k].list \in given \ Kept
       /\ Numbers(out[doing[k].list], due[doing[k].list], x_n - doing[k].left)
       /\ now <= due[doing[k].list]
  /\ \A j, k \in Puts : doing[j].list = doing[k].list => j = k
  /\ \A h \in Lists : h \notin given \/ h \in Kept => out[h] = <<>>
  /\ \A h \in given \ Kept : (\A k \in Puts : doing[k].list # h) => Numbers(out[h], due[h], x_n)

PipeInv == PipeTypeOK /\ HangsInv /\ ListsInv

-----------------------------------------------------------------------------
(* The agenda of a pipe.                                                   *)

LEMMA OneLess ==
  ASSUME NEW a \in Seq(Wait), OnePerClock(a), NEW t \in Seq(Wait), NEW k \in DOMAIN a, Part(t, a, {k})
  PROVE  /\ OnePerClock(t)
         /\ Elements(t) = {e \in Elements(a) : e.clock # a[k].clock}
<1>1. OnePerClock(t)
  BY DEF OnePerClock, Part
<1>2. Elements(t) = {a[i] : i \in DOMAIN a \ {k}}
  BY DEF Part
<1>3. \A i \in DOMAIN a : i # k <=> a[i].clock # a[k].clock
  BY DEF OnePerClock
<1> QED
  BY <1>1, <1>2, <1>3 DEF Elements

LEMMA WithoutProperties ==
  ASSUME agenda \in Seq(Wait), OnePerClock(agenda), NEW h
  PROVE  /\ Without(h) \in Seq(Wait) /\ OnePerClock(Without(h))
         /\ Elements(Without(h)) = {e \in Elements(agenda) : e.clock # h}
<1>1. CASE Indexed(h) = {}
  <2>1. \A k \in DOMAIN agenda : agenda[k].clock # h
    BY <1>1 DEF Indexed
  <2> QED
    BY <1>1, <2>1 DEF Without, Elements
<1>2. CASE Indexed(h) # {}
  <2> DEFINE k == CHOOSE j \in Indexed(h) : TRUE
  <2>1. k \in Indexed(h) /\ Without(h) = RemoveAt(agenda, k)
    BY <1>2 DEF Without
  <2> HIDE DEF k
  <2>2. k \in DOMAIN agenda /\ agenda[k].clock = h
    BY <2>1 DEF Indexed
  <2>3. RemoveAt(agenda, k) \in Seq(Wait) /\ Part(RemoveAt(agenda, k), agenda, {k})
    BY <2>2, RemoveAtIsPart
  <2>4. OnePerClock(RemoveAt(agenda, k))
        /\ Elements(RemoveAt(agenda, k)) = {e \in Elements(agenda) : e.clock # agenda[k].clock}
    BY <2>2, <2>3, OneLess
  <2> QED
    BY <2>1, <2>2, <2>3, <2>4
<1> QED
  BY <1>1, <1>2

LEMMA OneMore ==
  ASSUME NEW a \in Seq(Wait), OnePerClock(a), NEW e \in Wait, e.clock \notin ClocksOf(a)
  PROVE  /\ Append(a, e) \in Seq(Wait) /\ OnePerClock(Append(a, e))
         /\ Elements(Append(a, e)) = Elements(a) \cup {e}
<1> DEFINE t == Append(a, e)
           n == Len(a)
<1>1. DOMAIN a = 1..n /\ n \in Nat
  BY LenProperties
<1>2. /\ t \in Seq(Wait) /\ Len(t) = n + 1
      /\ \A i \in 1..n : t[i] = a[i]
      /\ t[n + 1] = e
  BY AppendProperties
<1> HIDE DEF t
<1>3. DOMAIN t = 1..n \cup {n + 1} /\ n + 1 \notin 1..n
  BY <1>1, <1>2, LenProperties
<1>4. \A i \in 1..n : a[i].clock # e.clock
  BY <1>1 DEF ClocksOf, Elements
<1>5. OnePerClock(t)
  BY <1>1, <1>2, <1>3, <1>4 DEF OnePerClock
<1>6. Elements(t) = Elements(a) \cup {e}
  BY <1>1, <1>2, <1>3 DEF Elements
<1> QED
  BY <1>2, <1>5, <1>6 DEF t

\* What is being put out was given.
LEMMA FlushesAreGiven ==
  ASSUME PipeInv
  PROVE  Flushes \subseteq given \ Kept /\ ClocksOf(agenda) \subseteq given
<1>1. Flushes \subseteq given \ Kept
  BY DEF PipeInv, ListsInv, Flushes, Puts
<1> QED
  BY <1>1 DEF PipeInv, HangsInv, ListsInv

\* Who is in the agenda.
LEMMA HasAClock ==
  ASSUME NEW h, h \in ClocksOf(agenda)
  PROVE  \E e \in Elements(agenda) : e.clock = h
  BY DEF ClocksOf

-----------------------------------------------------------------------------
(* The steps of pipe.                                                      *)

LEMMA PipeBegins == AInit /\ PipeInit => PipeInv
<1> SUFFICES ASSUME AInit, PipeInit PROVE PipeInv
  OBVIOUS
<1>1. /\ agenda = <<>> /\ now = 0 /\ x_hang = <<>> /\ doing = <<>> /\ given = {} /\ forgotten = {}
      /\ due = [h \in Lists |-> 0] /\ out = [h \in Lists |-> <<>>]
  BY DEF AInit, PipeInit
<1>2. PipeTypeOK
  BY <1>1 DEF PipeTypeOK
<1>3. Elements(agenda) = {} /\ Elements(x_hang) = {} /\ Flushes = {} /\ Puts = {} /\ Kept = {}
      /\ ClocksOf(agenda) = {}
  BY <1>1 DEF Elements, Flushes, Puts, Kept, ClocksOf
<1>4. HangsInv
  <2>1. agenda \in Seq(Wait) /\ OnePerClock(agenda)
    BY <1>1 DEF OnePerClock
  <2> QED
    BY <1>3, <2>1 DEF HangsInv
<1>5. ListsInv
  BY <1>1, <1>3 DEF ListsInv, Distinct
<1> QED
  BY <1>2, <1>4, <1>5 DEF PipeInv

LEMMA ListStep ==
  ASSUME PipeInv, NEW h \in Lists, NEW t, pipe_list(h, t) PROVE PipeInv'
<1> DEFINE time == now + (IF t >= 0 THEN t ELSE 0)
           e == [clock |-> h, time |-> time]
<1>1. /\ h \notin given /\ time \in Times /\ time >= now
      /\ agenda' = Append(Without(h), e) /\ now' = now
      /\ due' = [due EXCEPT ![h] = time]
      /\ x_hang' = <<h>> \o x_hang /\ given' = given \cup {h}
      /\ UNCHANGED <<doing, out, forgotten>>
  BY DEF pipe_list, SetFor, With
<1>2. PipeTypeOK /\ HangsInv /\ ListsInv
  BY DEF PipeInv
<1>3. time \in Nat /\ e \in Wait /\ e.clock = h /\ e.time = time
  BY <1>1, PipeAssumption DEF Wait
<1> HIDE DEF e, time
<1>4. h \notin ClocksOf(agenda) /\ h \notin Elements(x_hang) /\ h \notin Flushes
      /\ h \notin forgotten /\ \A k \in Puts : doing[k].list # h
  BY <1>1, <1>2, FlushesAreGiven DEF ListsInv, PipeTypeOK
<1>5. /\ Without(h) \in Seq(Wait) /\ OnePerClock(Without(h))
      /\ Elements(Without(h)) = {d \in Elements(agenda) : d.clock # h}
  BY <1>2, WithoutProperties DEF HangsInv
<1>6. h \notin ClocksOf(Without(h)) /\ Elements(Without(h)) = Elements(agenda)
  BY <1>4, <1>5 DEF ClocksOf
<1>7. agenda' \in Seq(Wait) /\ OnePerClock(agenda') /\ Elements(agenda') = Elements(agenda) \cup {e}
  BY <1>1, <1>3, <1>5, <1>6, OneMore
<1>8. x_hang' \in Seq(Lists) /\ Distinct(x_hang') /\ Elements(x_hang') = Elements(x_hang) \cup {h}
  BY <1>1, <1>2, <1>4, PushedProperties, PushedDistinct DEF PipeTypeOK, ListsInv
<1>9. /\ due' \in [Lists -> Nat] /\ due'[h] = time
      /\ \A g \in Lists : g # h => due'[g] = due[g]
  BY <1>1, <1>2, <1>3 DEF PipeTypeOK
<1>10. PipeTypeOK'
  BY <1>1, <1>2, <1>8, <1>9 DEF PipeTypeOK
<1>11. Flushes' = Flushes /\ Puts' = Puts
  BY <1>1 DEF Flushes, Puts
<1>12. HangsInv'
  <2>1. ClocksOf(agenda)' = ClocksOf(agenda) \cup {h}
    BY <1>3, <1>7 DEF ClocksOf
  <2>2. \A d \in Elements(agenda') : d.time = due'[d.clock] /\ d.time >= now'
    <3>1. \A d \in Elements(agenda) : d.clock # h /\ d.clock \in Lists
      BY <1>2, <1>4, FlushesAreGiven DEF ClocksOf, PipeTypeOK
    <3> QED
      BY <1>1, <1>2, <1>3, <1>7, <1>9, <3>1 DEF HangsInv
  <2> QED
    BY <1>2, <1>7, <1>8, <1>11, <2>1, <2>2 DEF HangsInv
<1>13. Kept' = Kept \cup {h} /\ given' \ Kept' = given \ Kept
  BY <1>1, <1>8 DEF Kept
<1>14. ListsInv'
  <2>1. \A k \in Puts' :
          /\ doing'[k].list \in given' \ Kept'
          /\ Numbers(out'[doing'[k].list], due'[doing'[k].list], x_n - doing'[k].left)
          /\ now' <= due'[doing'[k].list]
    <3> SUFFICES ASSUME NEW k \in Puts
                 PROVE  /\ doing[k].list \in given \ Kept
                        /\ Numbers(out[doing[k].list], due'[doing[k].list], x_n - doing[k].left)
                        /\ now <= due'[doing[k].list]
      BY <1>1, <1>11, <1>13
    <3>1. doing[k].list \in given \ Kept /\ doing[k].list \in Lists /\ doing[k].list # h
      BY <1>1, <1>2 DEF ListsInv, PipeTypeOK
    <3> QED
      BY <1>2, <1>9, <3>1 DEF ListsInv
  <2>2. \A g \in Lists : g \notin given' \/ g \in Kept' => out'[g] = <<>>
    BY <1>1, <1>2, <1>13 DEF ListsInv
  <2>3. \A g \in given' \ Kept' :
          (\A k \in Puts' : doing'[k].list # g) => Numbers(out'[g], due'[g], x_n)
    BY <1>1, <1>2, <1>9, <1>11, <1>13 DEF ListsInv, PipeTypeOK
  <2>4. Elements(x_hang') \subseteq given' /\ Elements(x_hang') \cap forgotten' = {}
    BY <1>1, <1>2, <1>4, <1>8 DEF ListsInv
  <2>5. \A j, k \in Puts' : doing'[j].list = doing'[k].list => j = k
    BY <1>1, <1>2, <1>11 DEF ListsInv
  <2> QED
    BY <1>8, <2>1, <2>2, <2>3, <2>4, <2>5 DEF ListsInv
<1> QED
  BY <1>10, <1>12, <1>14 DEF PipeInv

LEMMA ClearStep ==
  ASSUME PipeInv, pipe_clear PROVE PipeInv'
<1> DEFINE gone == {k \in DOMAIN agenda : agenda[k].clock \in Elements(x_hang)}
<1>1. /\ agenda' = Omit(agenda, gone) /\ x_hang' = <<>>
      /\ forgotten' = forgotten \cup Elements(x_hang)
      /\ UNCHANGED <<now, doing, given, due, out>>
  BY DEF pipe_clear, ToSet, Elements
<1>2. PipeTypeOK /\ HangsInv /\ ListsInv
  BY DEF PipeInv
<1>3. agenda' \in Seq(Wait) /\ Part(agenda', agenda, gone)
  BY <1>1, <1>2, OmitIsPart DEF HangsInv
<1>4. OnePerClock(agenda')
  <2> HIDE DEF gone
  <2> QED
    BY <1>2, <1>3 DEF HangsInv, OnePerClock, Part
<1>5. Elements(agenda') = {e \in Elements(agenda) : e.clock \notin Elements(x_hang)}
  <2>1. Elements(agenda') = {agenda[i] : i \in DOMAIN agenda \ gone}
    BY <1>3 DEF Part
  <2>2. \A i \in DOMAIN agenda : i \notin gone <=> agenda[i].clock \notin Elements(x_hang)
    OBVIOUS
  <2> HIDE DEF gone
  <2> QED
    BY <2>1, <2>2 DEF Elements
<1>6. Elements(x_hang') = {} /\ Distinct(x_hang') /\ x_hang' \in Seq(Lists)
  BY <1>1 DEF Elements, Distinct
<1>7. Flushes' = Flushes /\ Puts' = Puts /\ Kept' = Kept
  BY <1>1, <1>6 DEF Flushes, Puts, Kept
<1>8. PipeTypeOK'
  BY <1>1, <1>2, <1>6 DEF PipeTypeOK, ListsInv
<1>9. HangsInv'
  <2>1. ClocksOf(agenda)' = Flushes
    BY <1>2, <1>5, FlushesAreGiven DEF ClocksOf, HangsInv, Kept
  <2>2. \A d \in Elements(agenda') : d.time = due'[d.clock] /\ d.time >= now'
    BY <1>1, <1>2, <1>5 DEF HangsInv
  <2> QED
    BY <1>3, <1>4, <1>6, <1>7, <2>1, <2>2 DEF HangsInv
<1>10. ListsInv'
  BY <1>1, <1>2, <1>6, <1>7 DEF ListsInv
<1> QED
  BY <1>8, <1>9, <1>10 DEF PipeInv

\* A frame of flush comes or goes.
LEMMA FlushFrameStep ==
  ASSUME PipeInv, pipe_flush \/ (FlushGoesOn /\ x_hang = <<>>) PROVE PipeInv'
<1>1. /\ UNCHANGED <<now, agenda, x_hang, given, due, out, forgotten>>
      /\ \/ doing' = <<Flushing>> \o doing
         \/ doing # <<>> /\ Head(doing).kind = "flush" /\ doing' = Tail(doing)
  BY DEF pipe_flush, FlushGoesOn, agendavars
<1>2. PipeTypeOK /\ HangsInv /\ ListsInv
  BY DEF PipeInv
<1>3. Flushing \in PipeFrame /\ Flushing.kind = "flush"
  BY PipeAssumption DEF Flushing, PipeFrame
<1>4. PICK d \in {1, -1} :
        /\ doing' \in Seq(PipeFrame)
        /\ \A k \in Puts : k + d \in Puts' /\ doing'[k + d] = doing[k]
        /\ \A k \in Puts' : k - d \in Puts /\ doing'[k] = doing[k - d]
        /\ Puts \subseteq Int /\ Puts' \subseteq Int
  <2>1. DOMAIN doing \subseteq Int
    BY <1>2, LenProperties DEF PipeTypeOK
  <2>2. CASE doing' = <<Flushing>> \o doing
    <3>1. doing' \in Seq(PipeFrame)
      BY <1>2, <1>3, <2>2, PushedProperties DEF PipeTypeOK
    <3>2. DOMAIN doing' \subseteq Int
      BY <3>1, LenProperties
    <3>3. \A k \in Puts : k + 1 \in Puts' /\ doing'[k + 1] = doing[k]
      BY <1>2, <1>3, <2>2, PushedProperties DEF PipeTypeOK, Puts
    <3>4. \A k \in Puts' : k - 1 \in Puts /\ doing'[k] = doing[k - 1]
      BY <1>2, <1>3, <2>2, PushedProperties DEF PipeTypeOK, Puts
    <3> QED
      BY <2>1, <3>1, <3>2, <3>3, <3>4 DEF Puts
  <2>3. CASE doing # <<>> /\ Head(doing).kind = "flush" /\ doing' = Tail(doing)
    <3>1. /\ doing' \in Seq(PipeFrame) /\ doing[1].kind = "flush"
          /\ \A k \in DOMAIN doing' : k + 1 \in DOMAIN doing /\ doing'[k] = doing[k + 1]
          /\ \A k \in DOMAIN doing : k # 1 => k - 1 \in DOMAIN doing' /\ doing'[k - 1] = doing[k]
      BY <1>2, <2>3, PoppedProperties DEF PipeTypeOK
    <3>2. DOMAIN doing' \subseteq Int
      BY <3>1, LenProperties
    <3>3. \A k \in Puts : k + -1 \in Puts' /\ doing'[k + -1] = doing[k]
      <4>1. \A k \in Puts : k \in Int /\ k # 1 /\ k + -1 = k - 1
        BY <2>1, <3>1 DEF Puts
      <4> QED
        BY <3>1, <4>1 DEF Puts
    <3>4. \A k \in Puts' : k - -1 \in Puts /\ doing'[k] = doing[k - -1]
      <4>1. \A k \in Puts' : k \in Int /\ k - -1 = k + 1
        BY <3>2 DEF Puts
      <4> QED
        BY <3>1, <4>1 DEF Puts
    <3> QED
      BY <2>1, <3>1, <3>2, <3>3, <3>4 DEF Puts
  <2> QED
    BY <1>1, <2>2, <2>3
<1>5. PipeTypeOK'
  BY <1>1, <1>2, <1>4 DEF PipeTypeOK
<1>6. Kept' = Kept
  BY <1>1 DEF Kept
<1>7. Flushes' = Flushes
  <2>1. Flushes = {doing[k].list : k \in {j \in Puts : doing[j].kind = "flushed"}}
    BY DEF Flushes, Puts
  <2>2. Flushes' = {doing'[k].list : k \in {j \in Puts' : doing'[j].kind = "flushed"}}
    BY DEF Flushes, Puts
  <2>3. Flushes \subseteq Flushes'
    BY <1>4, <2>1, <2>2
  <2>4. Flushes' \subseteq Flushes
    BY <1>4, <2>1, <2>2
  <2> QED
    BY <2>3, <2>4
<1>8. HangsInv'
  BY <1>1, <1>2, <1>7 DEF HangsInv
<1>9. ListsInv'
  <2>1. \A k \in Puts' :
          /\ doing'[k].list \in given' \ Kept'
          /\ Numbers(out'[doing'[k].list], due'[doing'[k].list], x_n - doing'[k].left)
          /\ now' <= due'[doing'[k].list]
    BY <1>1, <1>2, <1>4, <1>6 DEF ListsInv
  <2>2. \A j, k \in Puts' : doing'[j].list = doing'[k].list => j = k
    <3>1. ASSUME NEW j \in Puts', NEW k \in Puts', doing'[j].list = doing'[k].list
          PROVE  j = k
      <4>1. /\ j - d \in Puts /\ doing'[j] = doing[j - d]
            /\ k - d \in Puts /\ doing'[k] = doing[k - d]
        BY <1>4
      <4>2. doing[j - d].list = doing[k - d].list
        BY <3>1, <4>1
      <4>3. j - d = k - d
        BY <1>2, <4>1, <4>2 DEF ListsInv
      <4> QED
        BY <1>4, <4>3
    <3> QED
      BY <3>1
  <2>3. \A g \in given' \ Kept' :
          (\A k \in Puts' : doing'[k].list # g) => Numbers(out'[g], due'[g], x_n)
    BY <1>1, <1>2, <1>4, <1>6 DEF ListsInv
  <2> QED
    BY <1>1, <1>2, <1>6, <2>1, <2>2, <2>3 DEF ListsInv
<1> QED
  BY <1>5, <1>8, <1>9 DEF PipeInv

LEMMA HangCalledStep ==
  ASSUME PipeInv, HangCalled PROVE PipeInv'
<1>1. PICK k \in DOMAIN agenda :
        /\ CallOf(k) /\ agenda[k].clock \in Lists
        /\ x_hang' = RemoveFirst(x_hang, agenda[k].clock)
        /\ doing' = <<Putting(agenda[k].clock, "clock")>>
  BY DEF HangCalled
<1>2. doing = <<>> /\ UNCHANGED <<given, due, out, forgotten>>
  BY DEF HangCalled
<1>3. PipeTypeOK /\ HangsInv /\ ListsInv
  BY DEF PipeInv
<1> DEFINE h == agenda[k].clock
           f == Putting(h, "clock")
<1>4. agenda[k] \in Elements(agenda) /\ agenda[k] \in Wait /\ h \in Lists
      /\ agenda[k].time = due[h] /\ agenda[k].time >= now /\ agenda[k].time \in Nat
  <2>1. agenda[k] \in Wait
    BY <1>3, ElementOfSeq, LenProperties DEF HangsInv
  <2>2. agenda[k] \in Elements(agenda)
    BY DEF Elements
  <2> QED
    BY <1>3, <2>1, <2>2 DEF HangsInv, Wait
<1>5. /\ now' = agenda[k].time /\ agenda' = RemoveAt(agenda, k)
      /\ \A e \in Elements(agenda) : agenda[k].time <= e.time
  BY <1>1 DEF CallOf, IsNext, Elements
<1>6. agenda' \in Seq(Wait) /\ OnePerClock(agenda')
      /\ Elements(agenda') = {e \in Elements(agenda) : e.clock # h}
  <2>1. agenda' \in Seq(Wait) /\ Part(agenda', agenda, {k})
    BY <1>3, <1>5, RemoveAtIsPart DEF HangsInv
  <2> QED
    BY <1>3, <2>1, OneLess DEF HangsInv
<1>7. Puts = {} /\ Flushes = {} /\ ClocksOf(agenda) = Elements(x_hang)
  <2>1. DOMAIN doing = {}
    BY <1>2
  <2>2. Puts = {} /\ Flushes = {}
    BY <2>1 DEF Puts, Flushes
  <2> QED
    BY <1>3, <2>2 DEF HangsInv
<1>8. h \in Elements(x_hang)
  BY <1>4, <1>7 DEF ClocksOf
<1>9. x_hang' \in Seq(Lists) /\ Distinct(x_hang') /\ Elements(x_hang') = Elements(x_hang) \ {h}
  <2>1. x_hang \in Seq(Lists) /\ Distinct(x_hang)
    BY <1>3 DEF PipeTypeOK, ListsInv
  <2>2. PICK i \in DOMAIN x_hang : x_hang[i] = h /\ x_hang' = RemoveAt(x_hang, i)
    BY <1>1, <1>8, <2>1, RemoveFirstProperties
  <2>3. x_hang' \in Seq(Lists) /\ Part(x_hang', x_hang, {i})
    BY <2>1, <2>2, RemoveAtIsPart
  <2> QED
    BY <2>1, <2>2, <2>3, DistinctPart
<1>10. f \in PipeFrame /\ f.kind = "clock" /\ f.list = h /\ f.left = x_n
  BY <1>4, PipeAssumption DEF Putting, PipeFrame
<1>11. doing' = <<f>>
  BY <1>1
<1> HIDE DEF f
<1>12. doing' \in Seq(PipeFrame) /\ DOMAIN doing' = {1} /\ doing'[1] = f
  BY <1>10, <1>11
<1>13. Puts' = {1} /\ Flushes' = {}
  BY <1>10, <1>12 DEF Puts, Flushes
<1>14. PipeTypeOK'
  BY <1>2, <1>3, <1>4, <1>5, <1>9, <1>12 DEF PipeTypeOK
<1>15. HangsInv'
  <2>1. ClocksOf(agenda)' = Elements(x_hang) \ {h}
    BY <1>6, <1>7 DEF ClocksOf
  <2>2. \A d \in Elements(agenda') : d.time = due'[d.clock] /\ d.time >= now'
    BY <1>2, <1>3, <1>5, <1>6 DEF HangsInv
  <2> QED
    BY <1>6, <1>9, <1>13, <2>1, <2>2 DEF HangsInv
<1>16. Kept' = Kept \ {h} /\ h \in given /\ h \notin forgotten /\ h \in Kept
  BY <1>2, <1>3, <1>8, <1>9 DEF Kept, ListsInv
<1>17. ListsInv'
  <2>1. Numbers(out[h], due[h], x_n - x_n)
    <3>1. out[h] = <<>> /\ Len(out[h]) = 0 /\ x_n - x_n = 0
      BY <1>3, <1>4, <1>16, PipeAssumption DEF ListsInv
    <3> QED
      BY <3>1 DEF Numbers
  <2>2. \A i \in Puts' :
          /\ doing'[i].list \in given' \ Kept'
          /\ Numbers(out'[doing'[i].list], due'[doing'[i].list], x_n - doing'[i].left)
          /\ now' <= due'[doing'[i].list]
    BY <1>2, <1>4, <1>5, <1>10, <1>12, <1>13, <1>16, <2>1
  <2>3. \A g \in given' \ Kept' :
          (\A i \in Puts' : doing'[i].list # g) => Numbers(out'[g], due'[g], x_n)
    BY <1>2, <1>3, <1>7, <1>10, <1>12, <1>13, <1>16 DEF ListsInv
  <2>4. \A g \in Lists : g \notin given' \/ g \in Kept' => out'[g] = <<>>
    BY <1>2, <1>3, <1>16 DEF ListsInv
  <2> QED
    BY <1>2, <1>3, <1>9, <1>13, <2>2, <2>3, <2>4 DEF ListsInv
<1> QED
  BY <1>14, <1>15, <1>17 DEF PipeInv

\* flush takes the latest of the lists that are held.
LEMMA FlushTakesStep ==
  ASSUME PipeInv, FlushGoesOn, x_hang # <<>> PROVE PipeInv'
<1> DEFINE h == x_hang[1]
           f == Putting(h, "flushed")
<1>1. /\ x_hang' = Tail(x_hang) /\ doing' = <<Putting(Head(x_hang), "flushed")>> \o doing
      /\ UNCHANGED <<now, agenda, given, due, out, forgotten>>
  BY DEF FlushGoesOn, agendavars
<1>2. PipeTypeOK /\ HangsInv /\ ListsInv
  BY DEF PipeInv
<1>3. 1 \in DOMAIN x_hang /\ Head(x_hang) = h /\ h \in Lists /\ h \in Elements(x_hang)
  BY <1>2, PoppedProperties DEF PipeTypeOK, Elements
<1>4. x_hang' \in Seq(Lists) /\ Distinct(x_hang') /\ Elements(x_hang') = Elements(x_hang) \ {h}
  <2>1. x_hang \in Seq(Lists) /\ Distinct(x_hang)
    BY <1>2 DEF PipeTypeOK, ListsInv
  <2>2. x_hang' \in Seq(Lists) /\ Part(x_hang', x_hang, {1})
    BY <1>1, <2>1, TailIsPart
  <2> QED
    BY <1>3, <2>1, <2>2, DistinctPart
<1>5. f \in PipeFrame /\ f.kind = "flushed" /\ f.list = h /\ f.left = x_n /\ doing' = <<f>> \o doing
  BY <1>1, <1>3, PipeAssumption DEF Putting, PipeFrame
<1> HIDE DEF f
<1>6. /\ doing' \in Seq(PipeFrame) /\ 1 \in DOMAIN doing' /\ doing'[1] = f
      /\ \A k \in DOMAIN doing' : k # 1 => k - 1 \in DOMAIN doing /\ doing'[k] = doing[k - 1]
      /\ \A k \in DOMAIN doing : k + 1 \in DOMAIN doing' /\ k + 1 # 1 /\ doing'[k + 1] = doing[k]
  BY <1>2, <1>5, PushedProperties DEF PipeTypeOK
<1>7. 1 \in Puts' /\ \A k \in Puts' : k # 1 => k - 1 \in Puts /\ doing'[k] = doing[k - 1]
  BY <1>5, <1>6 DEF Puts
<1>8. \A k \in Puts : k + 1 \in Puts' /\ doing'[k + 1] = doing[k]
  BY <1>6 DEF Puts
<1>9. Flushes' = Flushes \cup {h}
  <2>1. h \in Flushes'
    <3>1. 1 \in {j \in DOMAIN doing' : doing'[j].kind = "flushed"} /\ doing'[1].list = h
      BY <1>5, <1>6
    <3> HIDE DEF h
    <3> QED
      BY <3>1 DEF Flushes
  <2>2. Flushes \subseteq Flushes'
    BY <1>6 DEF Flushes
  <2>3. Flushes' \subseteq Flushes \cup {h}
    BY <1>5, <1>6 DEF Flushes
  <2> QED
    BY <2>1, <2>2, <2>3
<1>10. PipeTypeOK'
  BY <1>1, <1>2, <1>4, <1>6 DEF PipeTypeOK
<1>11. HangsInv'
  BY <1>1, <1>2, <1>3, <1>4, <1>9 DEF HangsInv
<1>12. Kept' = Kept \ {h} /\ h \in given /\ h \notin forgotten /\ h \in Kept
  BY <1>1, <1>2, <1>3, <1>4 DEF Kept, ListsInv
<1>13. now <= due[h]
  <2>1. PICK e \in Elements(agenda) : e.clock = h
    BY <1>2, <1>3, HasAClock DEF HangsInv
  <2>2. e.time = due[h] /\ e.time >= now /\ due[h] \in Nat
    BY <1>2, <1>3, <2>1 DEF HangsInv, PipeTypeOK
  <2> QED
    BY <1>2, <2>2 DEF PipeTypeOK
<1>14. ListsInv'
  <2>1. Numbers(out[h], due[h], x_n - x_n)
    <3>1. out[h] = <<>> /\ Len(out[h]) = 0 /\ x_n - x_n = 0
      BY <1>2, <1>3, <1>12, PipeAssumption DEF ListsInv
    <3> QED
      BY <3>1 DEF Numbers
  <2>2. ASSUME NEW k \in Puts'
        PROVE  /\ doing'[k].list \in given' \ Kept'
               /\ Numbers(out'[doing'[k].list], due'[doing'[k].list], x_n - doing'[k].left)
               /\ now' <= due'[doing'[k].list]
    <3>1. CASE k = 1
      BY <1>1, <1>5, <1>6, <1>12, <1>13, <2>1, <3>1
    <3>2. CASE k # 1
      BY <1>1, <1>2, <1>7, <1>12, <3>2 DEF ListsInv
    <3> QED
      BY <3>1, <3>2
  <2>3. ASSUME NEW j \in Puts', NEW k \in Puts', doing'[j].list = doing'[k].list
        PROVE  j = k
    <3>1. ASSUME NEW i \in Puts', i # 1
          PROVE  doing'[i].list # doing'[1].list
      <4>1. i - 1 \in Puts /\ doing'[i] = doing[i - 1]
        BY <1>7, <3>1
      <4>2. doing[i - 1].list \notin Kept
        BY <1>2, <4>1 DEF ListsInv
      <4> QED
        BY <1>5, <1>6, <1>12, <4>1, <4>2
    <3>2. CASE j # 1 /\ k # 1
      <4>1. j - 1 = k - 1
        BY <1>2, <1>7, <2>3, <3>2 DEF ListsInv
      <4>2. j \in Int /\ k \in Int
        BY <1>6, LenProperties DEF Puts
      <4> QED
        BY <4>1, <4>2
    <3> QED
      BY <2>3, <3>1, <3>2
  <2>4. ASSUME NEW g \in given' \ Kept', \A k \in Puts' : doing'[k].list # g
        PROVE  Numbers(out'[g], due'[g], x_n)
    <3>1. g # h
      BY <1>5, <1>6, <1>7, <2>4
    <3>2. g \in given \ Kept
      BY <1>1, <1>12, <3>1
    <3>3. \A k \in Puts : doing[k].list # g
      BY <1>8, <2>4
    <3> QED
      BY <1>1, <1>2, <3>2, <3>3 DEF ListsInv
  <2>5. \A g \in Lists : g \notin given' \/ g \in Kept' => out'[g] = <<>>
    BY <1>1, <1>2, <1>12 DEF ListsInv
  <2>6. Elements(x_hang') \subseteq given' /\ Elements(x_hang') \cap forgotten' = {}
    BY <1>1, <1>2, <1>4 DEF ListsInv
  <2> QED
    BY <1>4, <2>2, <2>3, <2>4, <2>5, <2>6 DEF ListsInv
<1> QED
  BY <1>10, <1>11, <1>14 DEF PipeInv

LEMMA PutsOutStep ==
  ASSUME PipeInv, PutsOutNumber PROVE PipeInv'
<1> DEFINE h == doing[1].list
           r == [doing[1] EXCEPT !.left = @ - 1]
           o == Append(out[h], [outlet |-> doing[1].left, at |-> now])
<1>1. PipeTypeOK /\ HangsInv /\ ListsInv
  BY DEF PipeInv
<1>2. /\ doing # <<>> /\ Head(doing) = doing[1] /\ 1 \in DOMAIN doing /\ doing[1] \in PipeFrame
      /\ doing \in Seq(PipeFrame)
  BY <1>1, PoppedProperties DEF PutsOutNumber, PipeTypeOK
<1>3. /\ doing[1].kind # "flush" /\ doing[1].left > 0
      /\ out' = [out EXCEPT ![h] = o] /\ doing' = [doing EXCEPT ![1] = r]
      /\ UNCHANGED <<now, agenda, x_hang, given, due, forgotten>>
  BY <1>2 DEF PutsOutNumber, agendavars
<1>4. /\ r \in PipeFrame /\ r.kind = doing[1].kind /\ r.list = h /\ r.left = doing[1].left - 1
      /\ doing[1].left \in 0..x_n
  BY <1>2, <1>3, PipeAssumption DEF PipeFrame
<1> HIDE DEF r
<1>5. /\ doing' \in Seq(PipeFrame) /\ DOMAIN doing' = DOMAIN doing /\ doing'[1] = r
      /\ \A k \in DOMAIN doing : k # 1 => doing'[k] = doing[k]
  BY <1>2, <1>3, <1>4, ChangedProperties
<1>6. /\ \A k \in DOMAIN doing : doing'[k].kind = doing[k].kind /\ doing'[k].list = doing[k].list
  BY <1>4, <1>5
<1>7. Puts' = Puts /\ Flushes' = Flushes /\ 1 \in Puts
  <2>1. {j \in DOMAIN doing' : doing'[j].kind = "flushed"} = {j \in DOMAIN doing : doing[j].kind = "flushed"}
    BY <1>5, <1>6
  <2>2. Flushes' = Flushes
    BY <1>6, <2>1 DEF Flushes
  <2> QED
    BY <1>2, <1>3, <1>5, <1>6, <2>2 DEF Puts
<1>8. /\ h \in given \ Kept /\ h \in Lists /\ now <= due[h] /\ now \in Nat /\ due[h] \in Nat
      /\ Numbers(out[h], due[h], x_n - doing[1].left)
      /\ out[h] \in Seq([outlet : Int, at : Int])
  BY <1>1, <1>7 DEF ListsInv, PipeTypeOK
<1>9. o \in Seq([outlet : Int, at : Int]) /\ Numbers(o, due[h], x_n - r.left)
  <2> DEFINE e == [outlet |-> doing[1].left, at |-> now]
             n == x_n - doing[1].left
  <2>1. e \in [outlet : Int, at : Int] /\ e.outlet = doing[1].left /\ e.at = now
    BY <1>4, <1>8
  <2>2. n \in Nat /\ x_n - r.left = n + 1 /\ doing[1].left = x_n + 1 - (n + 1)
    BY <1>4, PipeAssumption
  <2>3. Len(out[h]) = n /\ \A i \in 1..n : out[h][i].outlet = x_n + 1 - i /\ out[h][i].at <= due[h]
    BY <1>8 DEF Numbers
  <2>4. o = Append(out[h], e)
    OBVIOUS
  <2> HIDE DEF e, n, o
  <2>5. /\ o \in Seq([outlet : Int, at : Int]) /\ Len(o) = n + 1
        /\ \A i \in 1..n : o[i] = out[h][i]
        /\ o[n + 1] = e
    BY <1>8, <2>1, <2>3, <2>4, AppendProperties
  <2>6. 1..(n + 1) = 1..n \cup {n + 1}
    BY <2>2
  <2> QED
    BY <1>8, <2>1, <2>2, <2>3, <2>5, <2>6 DEF Numbers
<1> HIDE DEF o
<1>10. /\ out' \in [Lists -> Seq([outlet : Int, at : Int])] /\ out'[h] = o
       /\ \A g \in Lists : g # h => out'[g] = out[g]
  BY <1>1, <1>3, <1>8, <1>9 DEF PipeTypeOK
<1>11. PipeTypeOK'
  BY <1>1, <1>3, <1>5, <1>10 DEF PipeTypeOK
<1>12. HangsInv'
  BY <1>1, <1>3, <1>7 DEF HangsInv
<1>13. Kept' = Kept
  BY <1>3 DEF Kept
<1>14. ListsInv'
  <2>1. ASSUME NEW k \in Puts
        PROVE  /\ doing'[k].list \in given' \ Kept'
               /\ Numbers(out'[doing'[k].list], due'[doing'[k].list], x_n - doing'[k].left)
               /\ now' <= due'[doing'[k].list]
    <3>1. CASE k = 1
      BY <1>3, <1>4, <1>5, <1>8, <1>9, <1>10, <1>13, <3>1
    <3>2. CASE k # 1
      <4>1. doing'[k] = doing[k] /\ doing[k].list # h /\ doing[k].list \in Lists
        BY <1>1, <1>5, <1>7, <3>2 DEF ListsInv, PipeTypeOK, Puts
      <4>2. out'[doing[k].list] = out[doing[k].list]
        BY <1>10, <4>1
      <4> QED
        BY <1>1, <1>3, <1>13, <4>1, <4>2 DEF ListsInv
    <3> QED
      BY <3>1, <3>2
  <2>2. \A j, k \in Puts' : doing'[j].list = doing'[k].list => j = k
    BY <1>1, <1>6, <1>7 DEF ListsInv, Puts
  <2>3. ASSUME NEW g \in given \ Kept, \A k \in Puts : doing'[k].list # g
        PROVE  Numbers(out'[g], due'[g], x_n)
    <3>1. g # h /\ g \in Lists
      BY <1>1, <1>6, <1>7, <2>3 DEF PipeTypeOK, Puts
    <3>2. \A k \in Puts : doing[k].list # g
      BY <1>6, <2>3 DEF Puts
    <3> QED
      BY <1>1, <1>3, <1>10, <3>1, <3>2 DEF ListsInv
  <2>4. \A g \in Lists : g \notin given' \/ g \in Kept' => out'[g] = <<>>
    BY <1>1, <1>3, <1>8, <1>10, <1>13 DEF ListsInv
  <2> QED
    BY <1>1, <1>3, <1>7, <1>13, <2>1, <2>2, <2>3, <2>4 DEF ListsInv
<1> QED
  BY <1>11, <1>12, <1>14 DEF PipeInv

LEMMA HangReturnsStep ==
  ASSUME PipeInv, HangReturns PROVE PipeInv'
<1> DEFINE h == doing[1].list
<1>1. PipeTypeOK /\ HangsInv /\ ListsInv
  BY DEF PipeInv
<1>2. doing # <<>> /\ doing \in Seq(PipeFrame)
  BY <1>1 DEF HangReturns, PipeTypeOK
<1>3. /\ Head(doing) = doing[1] /\ 1 \in DOMAIN doing /\ doing[1] \in PipeFrame
      /\ Tail(doing) \in Seq(PipeFrame)
      /\ \A k \in DOMAIN Tail(doing) : k + 1 \in DOMAIN doing /\ k + 1 # 1 /\ Tail(doing)[k] = doing[k + 1]
      /\ \A k \in DOMAIN doing : k # 1 => k - 1 \in DOMAIN Tail(doing) /\ Tail(doing)[k - 1] = doing[k]
  BY <1>2, PoppedProperties
<1>4. /\ doing[1].kind # "flush" /\ doing[1].left = 0 /\ agenda' = Without(h) /\ doing' = Tail(doing)
      /\ UNCHANGED <<now, x_hang, given, due, out, forgotten>>
  BY <1>3 DEF HangReturns, hang_free, UnsetOf
<1>5. 1 \in Puts /\ h \in given \ Kept /\ \A k \in Puts : doing[k].list = h => k = 1
  BY <1>1, <1>3, <1>4 DEF ListsInv, Puts
<1>6. /\ agenda' \in Seq(Wait) /\ OnePerClock(agenda')
      /\ Elements(agenda') = {e \in Elements(agenda) : e.clock # h}
  BY <1>1, <1>4, WithoutProperties DEF HangsInv
<1>7. /\ \A k \in Puts' : k + 1 \in Puts /\ k + 1 # 1 /\ doing'[k] = doing[k + 1] /\ k \in Int
      /\ \A k \in Puts : k # 1 => k - 1 \in Puts' /\ doing'[k - 1] = doing[k]
  <2>1. DOMAIN Tail(doing) \subseteq Int
    BY <1>3, LenProperties
  <2> QED
    BY <1>3, <1>4, <2>1 DEF Puts
<1>8. Flushes' = Flushes \ {h}
  <2>1. Flushes = {doing[k].list : k \in {j \in Puts : doing[j].kind = "flushed"}}
    BY DEF Flushes, Puts
  <2>2. Flushes' = {doing'[k].list : k \in {j \in Puts' : doing'[j].kind = "flushed"}}
    BY DEF Flushes, Puts
  <2>3. Flushes' \subseteq Flushes \ {h}
    BY <1>5, <1>7, <2>1, <2>2
  <2>4. Flushes \ {h} \subseteq Flushes'
    BY <1>7, <2>1, <2>2
  <2> QED
    BY <2>3, <2>4
<1>9. PipeTypeOK'
  BY <1>1, <1>3, <1>4 DEF PipeTypeOK
<1>10. HangsInv'
  <2>1. ClocksOf(agenda)' = ClocksOf(agenda) \ {h}
    BY <1>6 DEF ClocksOf
  <2>2. \A d \in Elements(agenda') : d.time = due'[d.clock] /\ d.time >= now'
    BY <1>1, <1>4, <1>6 DEF HangsInv
  <2>3. h \notin Elements(x_hang)
    BY <1>5 DEF Kept
  <2> QED
    BY <1>1, <1>4, <1>6, <1>8, <2>1, <2>2, <2>3 DEF HangsInv
<1>11. Kept' = Kept
  BY <1>4 DEF Kept
<1>12. ListsInv'
  <2>1. \A k \in Puts' :
          /\ doing'[k].list \in given' \ Kept'
          /\ Numbers(out'[doing'[k].list], due'[doing'[k].list], x_n - doing'[k].left)
          /\ now' <= due'[doing'[k].list]
    BY <1>1, <1>4, <1>7, <1>11 DEF ListsInv
  <2>2. ASSUME NEW j \in Puts', NEW k \in Puts', doing'[j].list = doing'[k].list
        PROVE  j = k
    <3>1. j + 1 = k + 1
      BY <1>1, <1>7, <2>2 DEF ListsInv
    <3> QED
      BY <1>7, <3>1
  <2>3. ASSUME NEW g \in given \ Kept, \A k \in Puts' : doing'[k].list # g
        PROVE  Numbers(out[g], due[g], x_n)
    <3>1. CASE g = h
      <4>1. Numbers(out[h], due[h], x_n - 0)
        BY <1>1, <1>4, <1>5 DEF ListsInv
      <4>2. x_n - 0 = x_n
        BY PipeAssumption
      <4> QED
        BY <3>1, <4>1, <4>2
    <3>2. CASE g # h
      <4>1. \A k \in Puts : doing[k].list # g
        BY <1>7, <2>3, <3>2
      <4> QED
        BY <1>1, <4>1 DEF ListsInv
    <3> QED
      BY <3>1, <3>2
  <2> QED
    BY <1>1, <1>4, <1>11, <2>1, <2>2, <2>3 DEF ListsInv
<1> QED
  BY <1>9, <1>10, <1>12 DEF PipeInv

\* A time, the end of a call, or time that passes.
LEMMA PipeStays ==
  ASSUME PipeInv, UNCHANGED <<agenda, x_hang, doing, given, due, out, forgotten>>,
         \/ now' = now
         \/ /\ doing = <<>> /\ now' \in Nat
            /\ \A k \in DOMAIN agenda : agenda[k].time >= now'
  PROVE  PipeInv'
<1>1. PipeTypeOK /\ HangsInv /\ ListsInv
  BY DEF PipeInv
<1>2. PipeTypeOK'
  BY <1>1 DEF PipeTypeOK
<1>3. Flushes' = Flushes /\ Puts' = Puts /\ Kept' = Kept
  BY DEF Flushes, Puts, Kept
<1>4. \A e \in Elements(agenda) : e.time >= now'
  BY <1>1 DEF HangsInv, Elements
<1>5. HangsInv'
  BY <1>1, <1>3, <1>4 DEF HangsInv
<1>6. now' = now \/ Puts = {}
  BY DEF Puts
<1>7. ListsInv'
  BY <1>1, <1>3, <1>6 DEF ListsInv
<1> QED
  BY <1>2, <1>5, <1>7 DEF PipeInv

LEMMA PipeStep == PipeInv /\ [PipeNext]_<<agendavars, pipevars>> => PipeInv'
<1> SUFFICES ASSUME PipeInv, [PipeNext]_<<agendavars, pipevars>> PROVE PipeInv'
  OBVIOUS
<1>1. CASE UNCHANGED <<agendavars, pipevars>> \/ PipeCallEnds \/ \E t \in PipeTimes : PipeTime(t)
  BY <1>1, PipeStays DEF PipeCallEnds, PipeTime, agendavars, pipevars
<1>2. CASE PipeTimePasses
  BY <1>2, PipeStays, PipeAssumption DEF PipeTimePasses, PassTo, pipevars
<1>3. CASE FlushGoesOn
  BY <1>3, FlushTakesStep, FlushFrameStep
<1> QED
  BY <1>1, <1>2, <1>3, ListStep, ClearStep, FlushFrameStep, HangCalledStep, PutsOutStep, HangReturnsStep
  DEF PipeNext

\* Every list a pipe was sent is held with its clock set for its time, or is put out
\* once, each number in order and in time, or is forgotten: for any lists and times,
\* and whatever the patch sends the pipe from within what it puts out.
THEOREM PipePutsOutOnce == PipeSpec => []EachListOnce
<1>1. PipeInv => EachListOnce
  <2> SUFFICES ASSUME PipeInv PROVE EachListOnce
    OBVIOUS
  <2> DEFINE Held == ToSet(x_hang)
             Underway == {doing[k].list : k \in {j \in DOMAIN doing : doing[j].kind # "flush"}}
             Set == {h \in Lists : Indexed(h) # {}}
             Whole(h) == [k \in DOMAIN out[h] |-> out[h][k].outlet] = [k \in 1..x_n |-> x_n + 1 - k]
  <2>1. PipeTypeOK /\ HangsInv /\ ListsInv
    BY DEF PipeInv
  <2>2. Held = Elements(x_hang)
    BY DEF ToSet, Elements
  <2>3. IsInjective(x_hang) /\ Held \cap forgotten = {}
    BY <2>1, <2>2 DEF ListsInv, Distinct, IsInjective
  <2>4. \A k \in DOMAIN agenda : agenda[k] \in Elements(agenda) /\ agenda[k] \in Wait
    BY <2>1, ElementOfSeq, LenProperties DEF Elements, HangsInv
  <2>5. Set = ClocksOf(agenda)
    BY <2>4 DEF Indexed, ClocksOf, Elements, Wait
  <2>6. Set = Held \cup Flushes
    BY <2>1, <2>2, <2>5 DEF HangsInv
  <2>7. \A h \in Set : \A k \in Indexed(h) : agenda[k].time = due[h]
    BY <2>1, <2>4 DEF Indexed, HangsInv
  <2>8. Underway = {doing[k].list : k \in Puts}
    BY DEF Puts
  <2>9. ASSUME NEW h \in given
        PROVE  /\ h \in Held \cup forgotten => out[h] = <<>>
               /\ h \notin Held \cup forgotten \cup Underway => Whole(h)
               /\ \A k \in DOMAIN out[h] : out[h][k].at <= due[h]
    <3>1. out[h] \in Seq([outlet : Int, at : Int]) /\ DOMAIN out[h] = 1..Len(out[h]) /\ h \in Lists
      BY <2>1, LenProperties DEF PipeTypeOK
    <3>2. Held \cup forgotten = Kept
      BY <2>2 DEF Kept
    <3>3. PICK n \in Int :
            /\ Numbers(out[h], due[h], n)
            /\ h \notin Kept \cup Underway => n = x_n
      <4>1. CASE h \in Kept
        <5>1. out[h] = <<>>
          BY <2>1, <3>1, <4>1 DEF ListsInv
        <5>2. Numbers(out[h], due[h], 0) /\ 0 \in Int
          BY <5>1 DEF Numbers
        <5> HIDE DEF Underway
        <5> QED
          BY <4>1, <5>2
      <4>2. CASE h \notin Kept /\ h \in Underway
        <5>1. PICK k \in Puts : doing[k].list = h
          BY <2>8, <4>2
        <5>2. doing[k] \in PipeFrame
          BY <2>1, ElementOfSeq, LenProperties DEF PipeTypeOK, Puts
        <5>3. x_n - doing[k].left \in Int
          BY <5>2, PipeAssumption DEF PipeFrame
        <5>4. Numbers(out[h], due[h], x_n - doing[k].left)
          BY <2>1, <5>1 DEF ListsInv
        <5> HIDE DEF Underway
        <5> QED
          BY <4>2, <5>3, <5>4
      <4>3. CASE h \notin Kept /\ h \notin Underway
        <5>1. \A k \in Puts : doing[k].list # h
          BY <2>8, <4>3
        <5>2. Numbers(out[h], due[h], x_n) /\ x_n \in Int
          BY <2>1, <4>3, <5>1, PipeAssumption DEF ListsInv
        <5> QED
          BY <5>2
      <4> QED
        BY <4>1, <4>2, <4>3
    <3>4. /\ Len(out[h]) = n
          /\ \A k \in DOMAIN out[h] : out[h][k].outlet = x_n + 1 - k /\ out[h][k].at <= due[h]
      BY <3>1, <3>3 DEF Numbers
    <3>5. n = x_n => Whole(h)
      BY <3>1, <3>4
    <3>6. h \in Kept => out[h] = <<>>
      BY <2>1, <3>1 DEF ListsInv
    <3> HIDE DEF Held, Underway, Whole
    <3> QED
      BY <3>2, <3>3, <3>4, <3>5, <3>6
  <2> QED
    BY <2>3, <2>6, <2>7, <2>9 DEF EachListOnce, Flushes
<1> QED
  BY <1>1, PipeBegins, PipeStep, PTL DEF PipeSpec
=============================================================================
