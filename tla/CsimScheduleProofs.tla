------------------------- MODULE CsimScheduleProofs -------------------------
(***************************************************************************)
(* Proofs about CsimSchedule, for every set of events, every assignment of *)
(* periods and every bound.  The argument is about the chain: ChainOK      *)
(* gathers what the invariant says of it, and there is one lemma for each  *)
(* of the three ways the code changes it (linking an event, taking the     *)
(* head off, cancelling one).                                              *)
(*                                                                         *)
(* The second half proves that the pointers of CsimEventList implement     *)
(* that chain: IsChain says when they do, there is one lemma for each of   *)
(* the two ways they change (an event is inserted, an event is removed),   *)
(* and one for each action.                                                *)
(***************************************************************************)
EXTENDS CsimSchedule, SequenceTheorems, FunctionTheorems, FiniteSetTheorems,
        WellFoundedInduction, TLAPS

(* What ScheduleInv says of a chain q, with back pointers p, dates t,      *)
(* deadlines u, no deadline being before n.                                *)
ChainOK(q, p, t, u, n) ==
  /\ q \in Seq(Event)
  /\ p \in [Event -> Event \cup {NULL}]
  /\ t \in [Event -> Nat]
  /\ u \in [Event -> Nat]
  /\ \A i, j \in 1..Len(q) : q[i] = q[j] => i = j
  /\ \A i \in 1..Len(q) : p[q[i]] # NULL => i > 1 /\ p[q[i]] = q[i - 1]
  /\ \A e \in Event : p[e] # NULL => \E i \in 1..Len(q) : q[i] = e
  /\ \A i, j \in 1..Len(q) : i <= j => t[q[i]] <= u[q[j]]
  /\ \A i \in 1..Len(q) : u[q[i]] >= n

(* Where InsertAt puts the element and where it moves the others. *)
LEMMA InsertAtProperties ==
  ASSUME NEW S, NEW q \in Seq(S), NEW e \in S, NEW k \in 0..Len(q)
  PROVE  /\ InsertAt(q, k + 1, e) \in Seq(S)
         /\ Len(InsertAt(q, k + 1, e)) = Len(q) + 1
         /\ InsertAt(q, k + 1, e)[k + 1] = e
         /\ \A i \in 1..k : InsertAt(q, k + 1, e)[i] = q[i]
         /\ \A i \in (k + 1)..Len(q) : InsertAt(q, k + 1, e)[i + 1] = q[i]
<1> DEFINE a == SubSeq(q, 1, k)
           b == SubSeq(q, k + 1, Len(q))
<1>1. Len(q) \in Nat /\ \A i \in 1..Len(q) : q[i] \in S
  BY ElementOfSeq, LenProperties
<1>2. /\ a \in Seq(S) /\ Len(a) = k
      /\ \A i \in 1..k : a[i] = q[i]
  <2>1. \A i \in 1..k : q[i] \in S  BY <1>1
  <2>2. k - 1 + 1 = k /\ (1 <= k => k - 1 + 1 = k) /\ k \in Int  BY <1>1
  <2> QED  BY <2>1, <2>2, <1>1, SubSeqProperties
<1>3. /\ b \in Seq(S) /\ Len(b) = Len(q) - k
      /\ \A i \in 1..(Len(q) - k) : b[i] = q[k + i]
  <2>1. \A i \in (k + 1)..Len(q) : q[i] \in S  BY <1>1
  <2>2. k + 1 \in Int /\ Len(q) \in Int  BY <1>1
  <2>3. /\ b \in Seq(S)
        /\ Len(b) = IF k + 1 <= Len(q) THEN Len(q) - (k + 1) + 1 ELSE 0
        /\ \A i \in 1..(Len(q) - (k + 1) + 1) : b[i] = q[(k + 1) + i - 1]
    BY <2>1, <2>2, SubSeqProperties
  <2> QED  BY <2>3, <1>1
<1>4. InsertAt(q, k + 1, e) = (a \o <<e>>) \o b
  <2>1. (k + 1) - 1 = k  BY <1>1
  <2> QED  BY <2>1 DEF InsertAt
<1>5. <<e>> \in Seq(S) /\ Len(<<e>>) = 1 /\ <<e>>[1] = e
  OBVIOUS
<1> HIDE DEF a, b
<1>6. /\ a \o <<e>> \in Seq(S)
      /\ Len(a \o <<e>>) = k + 1
      /\ \A i \in 1..(k + 1) : (a \o <<e>>)[i] = IF i <= k THEN a[i] ELSE e
  BY <1>1, <1>2, <1>5, ConcatProperties
<1>7. /\ (a \o <<e>>) \o b \in Seq(S)
      /\ Len((a \o <<e>>) \o b) = Len(q) + 1
      /\ \A i \in 1..(Len(q) + 1) :
           ((a \o <<e>>) \o b)[i] =
              IF i <= k + 1 THEN (a \o <<e>>)[i] ELSE b[i - (k + 1)]
  BY <1>1, <1>3, <1>6, ConcatProperties
<1> DEFINE r == (a \o <<e>>) \o b
<1>8. r[k + 1] = e
  <2>1. k + 1 \in 1..(Len(q) + 1) /\ k + 1 \in 1..(k + 1)  BY <1>1
  <2> QED  BY <2>1, <1>6, <1>7
<1>9. \A i \in 1..k : r[i] = q[i]
  BY <1>1, <1>2, <1>6, <1>7
<1>10. \A i \in (k + 1)..Len(q) : r[i + 1] = q[i]
  <2> SUFFICES ASSUME NEW i \in (k + 1)..Len(q)  PROVE r[i + 1] = q[i]
    OBVIOUS
  <2>1. i + 1 \in 1..(Len(q) + 1) /\ ~(i + 1 <= k + 1)  BY <1>1
  <2>2. r[i + 1] = b[i + 1 - (k + 1)]  BY <2>1, <1>7
  <2>3. i - k \in 1..(Len(q) - k) /\ i + 1 - (k + 1) = i - k /\ k + (i - k) = i
    BY <1>1
  <2> QED  BY <2>2, <2>3, <1>3
<1> QED
  BY <1>4, <1>7, <1>8, <1>9, <1>10

(* The sequence q without its i-th element. *)
Cut(q, i) == SubSeq(q, 1, i - 1) \o SubSeq(q, i + 1, Len(q))

LEMMA CutProperties ==
  ASSUME NEW S, NEW q \in Seq(S), NEW i \in 1..Len(q)
  PROVE  /\ Cut(q, i) \in Seq(S) /\ Len(Cut(q, i)) = Len(q) - 1
         /\ \A j \in 1..(i - 1) : Cut(q, i)[j] = q[j]
         /\ \A j \in i..(Len(q) - 1) : Cut(q, i)[j] = q[j + 1]
<1> DEFINE r == Cut(q, i)
           a == SubSeq(q, 1, i - 1)
           b == SubSeq(q, i + 1, Len(q))
<1>0. Len(q) \in Nat /\ \A j \in 1..Len(q) : q[j] \in S
  BY ElementOfSeq, LenProperties
<1>1. /\ a \in Seq(S) /\ Len(a) = i - 1
      /\ \A j \in 1..(i - 1) : a[j] = q[j]
  <2>1. \A j \in 1..(i - 1) : q[j] \in S  BY <1>0
  <2>2. /\ a \in Seq(S)
        /\ Len(a) = IF 1 <= i - 1 THEN (i - 1) - 1 + 1 ELSE 0
        /\ \A j \in 1..((i - 1) - 1 + 1) : a[j] = q[1 + j - 1]
    BY <2>1, SubSeqProperties
  <2>3. Len(a) = i - 1
    <3>1. Len(a) = IF 1 <= i - 1 THEN (i - 1) - 1 + 1 ELSE 0  BY <2>2
    <3> QED  BY <3>1
  <2>4. ASSUME NEW j \in 1..(i - 1)  PROVE a[j] = q[j]
    <3>1. j \in 1..((i - 1) - 1 + 1) /\ 1 + j - 1 = j  OBVIOUS
    <3> QED  BY <2>2, <3>1
  <2> QED  BY <2>2, <2>3, <2>4
<1>2. /\ b \in Seq(S) /\ Len(b) = Len(q) - i
      /\ \A j \in 1..(Len(q) - i) : b[j] = q[i + j]
  <2>1. \A j \in (i + 1)..Len(q) : q[j] \in S  BY <1>0
  <2>2. /\ b \in Seq(S)
        /\ Len(b) = IF i + 1 <= Len(q) THEN Len(q) - (i + 1) + 1 ELSE 0
        /\ \A j \in 1..(Len(q) - (i + 1) + 1) : b[j] = q[(i + 1) + j - 1]
    BY <1>0, <2>1, SubSeqProperties
  <2>3. Len(b) = Len(q) - i
    <3>1. Len(b) = IF i + 1 <= Len(q) THEN Len(q) - (i + 1) + 1 ELSE 0  BY <2>2
    <3> QED  BY <1>0, <3>1
  <2>4. ASSUME NEW j \in 1..(Len(q) - i)  PROVE b[j] = q[i + j]
    <3>1. j \in 1..(Len(q) - (i + 1) + 1) /\ (i + 1) + j - 1 = i + j  BY <1>0
    <3> QED  BY <2>2, <3>1
  <2> QED  BY <2>2, <2>3, <2>4
<1>3. r = a \o b
  BY DEF Cut
<1> HIDE DEF a, b, r
<1>4. /\ a \o b \in Seq(S) /\ Len(a \o b) = Len(a) + Len(b)
      /\ \A j \in 1..(Len(a) + Len(b)) :
            (a \o b)[j] = IF j <= Len(a) THEN a[j] ELSE b[j - Len(a)]
  BY <1>1, <1>2, ConcatProperties
<1>5. Len(r) = Len(q) - 1
  <2>1. Len(r) = Len(a) + Len(b)  BY <1>3, <1>4
  <2>2. Len(a) = i - 1 /\ Len(b) = Len(q) - i /\ i \in Nat
    BY <1>0, <1>1, <1>2
  <2>3. Len(r) = (i - 1) + (Len(q) - i)  BY <2>1, <2>2
  <2>4. (i - 1) + (Len(q) - i) = Len(q) - 1  BY <1>0, <2>2
  <2> QED  BY <2>3, <2>4
<1>6. ASSUME NEW j \in 1..(i - 1)  PROVE r[j] = q[j]
  <2>1. j \in 1..(Len(a) + Len(b)) /\ j <= Len(a)  BY <1>0, <1>1, <1>2
  <2> QED  BY <1>1, <1>3, <1>4, <2>1
<1>7. ASSUME NEW j \in i..(Len(q) - 1)  PROVE r[j] = q[j + 1]
  <2>1. j \in 1..(Len(a) + Len(b)) /\ ~(j <= Len(a))  BY <1>0, <1>1, <1>2
  <2>2. r[j] = b[j - (i - 1)]  BY <1>1, <1>3, <1>4, <2>1
  <2>3. j - (i - 1) \in 1..(Len(q) - i) /\ i + (j - (i - 1)) = j + 1
    BY <1>0
  <2> QED  BY <1>2, <2>2, <2>3
<1> QED  BY <1>3, <1>4, <1>5, <1>6, <1>7 DEF r

(* What is left when the head is taken off, said in the same way. *)
LEMMA TailIsCut ==
  ASSUME NEW S, NEW q \in Seq(S), q # <<>>
  PROVE  SubSeq(q, 2, Len(q)) = Cut(q, 1)
<1>1. Len(q) \in Nat /\ \A j \in 2..Len(q) : q[j] \in S
  BY ElementOfSeq, LenProperties
<1>2. SubSeq(q, 2, Len(q)) \in Seq(S)
  BY <1>1, SubSeqProperties
<1>3. SubSeq(q, 1, 0) = <<>>
  BY SubSeqEmpty
<1>4. 1 - 1 = 0 /\ 1 + 1 = 2
  OBVIOUS
<1>5. Cut(q, 1) = <<>> \o SubSeq(q, 2, Len(q))
  BY <1>3, <1>4 DEF Cut
<1> QED  BY <1>2, <1>5, ConcatEmptySeq

(* The events of r are those of q and e. *)
With(r, q, e) ==
  \A x : (\E i \in 1..Len(r) : r[i] = x) <=> (x = e \/ \E i \in 1..Len(q) : q[i] = x)

(* A head insertion or an insertion after an event dated no earlier, and   *)
(* every position in between: Link keeps the chain sound, adds e and       *)
(* nothing else, and keeps the head when e is not dated before it.         *)
LEMMA LinkKeepsChain ==
  ASSUME NEW q, NEW p, NEW t, NEW e \in Event, NEW n \in Nat,
         date \in Nat, n <= date + 1,
         ChainOK(q, p, t, due, n),
         \A i \in 1..Len(q) : q[i] # e,
         Link(q, p, t, e)
  PROVE  /\ ChainOK(evts', prev', t, due', n)
         /\ With(evts', q, e)
         /\ q # <<>> /\ t[q[1]] <= t[e] => evts'[1] = q[1]
<1>a. /\ q \in Seq(Event)
      /\ p \in [Event -> Event \cup {NULL}]
      /\ t \in [Event -> Nat]
      /\ due \in [Event -> Nat]
  BY DEF ChainOK
<1>b. \A i, j \in 1..Len(q) : q[i] = q[j] => i = j
  BY DEF ChainOK
<1>c. \A i \in 1..Len(q) : p[q[i]] # NULL => i > 1 /\ p[q[i]] = q[i - 1]
  BY DEF ChainOK
<1>d. \A x \in Event : p[x] # NULL => \E i \in 1..Len(q) : q[i] = x
  BY DEF ChainOK
<1>e. \A i, j \in 1..Len(q) : i <= j => t[q[i]] <= due[q[j]]
  BY DEF ChainOK
<1>f. \A i \in 1..Len(q) : due[q[i]] >= n
  BY DEF ChainOK
<1>1. PICK k \in 0..Len(q) :
        /\ InsertPoint(q, t, t[e], k)
        /\ evts' = InsertAt(q, k + 1, e)
        /\ prev' = [x \in Event |-> IF k > 0 /\ x = e THEN q[k]
                                    ELSE IF k > 0 /\ k < Len(q) /\ x = q[k + 1] THEN e
                                    ELSE p[x]]
        /\ due' = [due EXCEPT ![e] =
                     Later(IF k > 0 THEN Later(t[e], t[q[k]]) ELSE t[e], date + 1)]
  BY DEF Link
<1> DEFINE r == evts'
<1>2. /\ Len(q) \in Nat /\ k \in Nat
      /\ \A i \in 1..Len(q) : q[i] \in Event
  BY <1>a, ElementOfSeq, LenProperties
<1>3. /\ r \in Seq(Event) /\ Len(r) = Len(q) + 1
      /\ r[k + 1] = e
      /\ \A i \in 1..k : r[i] = q[i]
      /\ \A i \in (k + 1)..Len(q) : r[i + 1] = q[i]
  <2>1. InsertAt(q, k + 1, e) \in Seq(Event)  BY <1>a, InsertAtProperties
  <2>2. Len(InsertAt(q, k + 1, e)) = Len(q) + 1  BY <1>a, InsertAtProperties
  <2>3. InsertAt(q, k + 1, e)[k + 1] = e  BY <1>a, InsertAtProperties
  <2>4. \A i \in 1..k : InsertAt(q, k + 1, e)[i] = q[i]
    BY <1>a, InsertAtProperties
  <2>5. \A i \in (k + 1)..Len(q) : InsertAt(q, k + 1, e)[i + 1] = q[i]
    BY <1>a, InsertAtProperties
  <2> QED  BY <1>1, <2>1, <2>2, <2>3, <2>4, <2>5
<1> HIDE DEF r
<1>4. \A i \in 1..Len(r) : \/ i = k + 1 /\ r[i] = e
                           \/ i \in 1..k /\ r[i] = q[i]
                           \/ i - 1 \in (k + 1)..Len(q) /\ r[i] = q[i - 1]
  <2> SUFFICES ASSUME NEW i \in 1..Len(r), i # k + 1, ~(i \in 1..k)
               PROVE  i - 1 \in (k + 1)..Len(q) /\ r[i] = q[i - 1]
    BY <1>3
  <2>1. i \in 1..(Len(q) + 1)  BY <1>3
  <2>2. i - 1 \in (k + 1)..Len(q) /\ (i - 1) + 1 = i  BY <1>2, <2>1
  <2> QED  BY <2>2, <1>3
<1>5. \A i \in 1..k : t[q[i]] <= due'[e]
  <2> SUFFICES ASSUME NEW i \in 1..k  PROVE t[q[i]] <= due'[e]
    OBVIOUS
  <2>1. t[e] \in Nat /\ t[q[i]] \in Nat /\ t[q[k]] \in Nat  BY <1>2, <1>a
  <2>0. due'[e] = Later(Later(t[e], t[q[k]]), date + 1)
    <3>1. k > 0  BY <1>2
    <3> QED  BY <1>1, <1>a, <3>1
  <2>2. due'[e] >= t[e] /\ due'[e] >= t[q[k]]  BY <2>0, <2>1 DEF Later
  <2>3. i = k \/ t[q[i]] < t[e]  BY <1>1, <1>2 DEF InsertPoint
  <2>4. due'[e] \in Nat  BY <2>0, <2>1 DEF Later
  <2> QED  BY <2>1, <2>2, <2>3, <2>4
<1>6. \A i \in (k + 1)..Len(q) : t[e] <= due[q[i]]
  <2> SUFFICES ASSUME NEW i \in (k + 1)..Len(q)  PROVE t[e] <= due[q[i]]
    OBVIOUS
  <2>1. /\ t[e] \in Nat /\ t[q[1]] \in Nat /\ due[q[i]] \in Nat
        /\ i \in 1..Len(q) /\ 1 \in 1..Len(q)
    BY <1>2, <1>a
  <2>2. CASE k = 0
    <3>1. t[e] < t[q[1]]  BY <1>1, <1>2, <2>1, <2>2 DEF InsertPoint
    <3>0. 1 <= i  BY <1>2
    <3>2. t[q[1]] <= due[q[i]]  BY <2>1, <3>0, <1>e
    <3> QED  BY <3>1, <3>2, <2>1
  <2>3. CASE k > 0
    <3>1. t[e] <= t[q[k]]  BY <1>1, <1>2, <2>1, <2>3 DEF InsertPoint
    <3>2. k \in 1..Len(q) /\ k <= i /\ t[q[k]] \in Nat  BY <1>2, <2>3, <1>a
    <3>3. t[q[k]] <= due[q[i]]  BY <3>2, <2>1, <1>e
    <3> QED  BY <3>1, <3>2, <3>3, <2>1
  <2> QED  BY <1>2, <2>2, <2>3
<1>7. /\ due' \in [Event -> Nat] /\ due'[e] >= t[e] /\ due'[e] >= n
      /\ \A x \in Event : x # e => due'[x] = due[x]
  <2>1. t[e] \in Nat /\ (k > 0 => t[q[k]] \in Nat)  BY <1>2, <1>a
  <2> QED  BY <1>1, <1>a, <2>1 DEF Later
<1>8. prev' \in [Event -> Event \cup {NULL}]
  <2>1. k > 0 => q[k] \in Event  BY <1>2
  <2> QED  BY <1>1, <1>a, <2>1
<1>9. \A i, j \in 1..Len(r) : r[i] = r[j] => i = j
  <2> SUFFICES ASSUME NEW i \in 1..Len(r), NEW j \in 1..Len(r), r[i] = r[j]
               PROVE  i = j
    OBVIOUS
  <2> DEFINE Old(m) == \E l \in 1..Len(q) : r[m] = q[l] /\ l = IF m <= k THEN m ELSE m - 1
  <2>1. \A m \in 1..Len(r) : m # k + 1 => Old(m)
    <3> SUFFICES ASSUME NEW m \in 1..Len(r), m # k + 1  PROVE Old(m)
      OBVIOUS
    <3>1. CASE m \in 1..k /\ r[m] = q[m]  BY <1>2, <3>1
    <3>2. CASE m - 1 \in (k + 1)..Len(q) /\ r[m] = q[m - 1]
      <4>1. m - 1 \in 1..Len(q) /\ ~(m <= k)  BY <1>2, <3>2
      <4> QED  BY <3>2, <4>1
    <3> QED  BY <1>4, <3>1, <3>2
  <2>2. CASE i = k + 1 \/ j = k + 1  BY <1>3, <2>1, <2>2
  <2>3. CASE i # k + 1 /\ j # k + 1
    <3>1. PICK l \in 1..Len(q) : r[i] = q[l] /\ l = IF i <= k THEN i ELSE i - 1
      BY <2>1, <2>3
    <3>2. PICK m \in 1..Len(q) : r[j] = q[m] /\ m = IF j <= k THEN j ELSE j - 1
      BY <2>1, <2>3
    <3>3. l = m  BY <1>b, <3>1, <3>2
    <3>4. i \in Int /\ j \in Int  BY <1>2, <1>3
    <3> QED  BY <1>2, <2>3, <3>1, <3>2, <3>3, <3>4
  <2> QED  BY <2>2, <2>3
<1>10. \A x : (\E i \in 1..Len(r) : r[i] = x)
             <=> (x = e \/ \E i \in 1..Len(q) : q[i] = x)
  <2> TAKE x
  <2>1. ASSUME NEW i \in 1..Len(r), r[i] = x
        PROVE  x = e \/ \E j \in 1..Len(q) : q[j] = x
    <3>1. CASE i \in 1..k /\ r[i] = q[i]
      <4>1. i \in 1..Len(q)  BY <1>2, <3>1
      <4> QED  BY <2>1, <3>1, <4>1
    <3>2. CASE i - 1 \in (k + 1)..Len(q) /\ r[i] = q[i - 1]
      <4>1. i - 1 \in 1..Len(q)  BY <1>2, <3>2
      <4> QED  BY <2>1, <3>2, <4>1
    <3> QED  BY <1>4, <2>1, <3>1, <3>2
  <2>2. ASSUME NEW j \in 1..Len(q), q[j] = x
        PROVE  \E i \in 1..Len(r) : r[i] = x
    <3>1. CASE j <= k
      <4>1. j \in 1..k /\ j \in 1..Len(r)  BY <1>2, <1>3, <3>1
      <4> QED  BY <4>1, <1>3, <2>2
    <3>2. CASE j > k
      <4>1. j \in (k + 1)..Len(q) /\ j + 1 \in 1..Len(r)  BY <1>2, <1>3, <3>2
      <4> QED  BY <4>1, <1>3, <2>2
    <3> QED  BY <1>2, <3>1, <3>2
  <2>3. k + 1 \in 1..Len(r)  BY <1>2, <1>3
  <2> QED  BY <1>3, <2>1, <2>2, <2>3
<1>11. \A i \in 1..Len(r) : prev'[r[i]] # NULL => i > 1 /\ prev'[r[i]] = r[i - 1]
  <2> SUFFICES ASSUME NEW i \in 1..Len(r), prev'[r[i]] # NULL
               PROVE  i > 1 /\ prev'[r[i]] = r[i - 1]
    OBVIOUS
  <2>0. p[e] = NULL  BY <1>d
  <2>1. CASE i = k + 1 /\ r[i] = e
    <3>1. k > 0  BY <1>1, <1>2, <2>0, <2>1
    <3>2. prev'[e] = q[k]  BY <1>1, <3>1
    <3>3. i - 1 = k /\ k \in 1..k  BY <1>2, <2>1, <3>1
    <3> QED  BY <1>2, <1>3, <2>1, <3>1, <3>2, <3>3
  <2>2. CASE i \in 1..k /\ r[i] = q[i]
    <3>1. i \in 1..Len(q) /\ q[i] \in Event /\ q[i] # e  BY <1>2, <2>2
    <3>2. k < Len(q) => q[i] # q[k + 1]
      BY <1>2, <1>b, <2>2, <3>1
    <3>3. prev'[q[i]] = p[q[i]]  BY <1>1, <1>2, <3>1, <3>2
    <3>4. i > 1 /\ p[q[i]] = q[i - 1]  BY <1>c, <2>2, <3>1, <3>3
    <3>5. i - 1 \in 1..k  BY <1>2, <2>2, <3>4
    <3> QED  BY <1>3, <2>2, <3>3, <3>4, <3>5
  <2>3. CASE i - 1 \in (k + 1)..Len(q) /\ r[i] = q[i - 1]
    <3> DEFINE j == i - 1
    <3>1. /\ j \in 1..Len(q) /\ q[j] \in Event /\ q[j] # e /\ i > 1
          /\ r[i] = q[j]
      BY <1>2, <2>3
    <3>2. CASE j = k + 1
      <4>1. k > 0 => prev'[q[j]] = e  BY <1>1, <1>2, <3>1, <3>2
      <4>2. k = 0 => prev'[q[j]] = p[q[j]]  BY <1>1, <1>2, <3>1, <3>2
      <4>3. k > 0  BY <4>2, <1>2, <1>c, <3>1, <3>2
      <4> QED  BY <4>1, <4>3, <1>3, <3>1, <3>2
    <3>3. CASE j # k + 1
      <4>1. prev'[q[j]] = p[q[j]]
        <5>1. k < Len(q) => k + 1 \in 1..Len(q)  BY <1>2
        <5>2. k < Len(q) => q[j] # q[k + 1]  BY <1>b, <3>1, <3>3, <5>1
        <5> QED  BY <1>1, <3>1, <5>2
      <4>2. p[q[j]] = q[j - 1]  BY <1>c, <3>1, <4>1
      <4>3. j - 1 \in (k + 1)..Len(q) /\ (j - 1) + 1 = i - 1
        <5>1. j \in (k + 1)..Len(q) /\ j # k + 1 /\ i \in Int  BY <1>2, <1>3, <2>3, <3>3
        <5> QED  BY <1>2, <5>1
      <4>4. r[i - 1] = q[j - 1]  BY <1>3, <4>3
      <4> QED  BY <4>1, <4>2, <4>4, <3>1
    <3> QED  BY <3>2, <3>3
  <2> QED  BY <1>4, <2>1, <2>2, <2>3
<1>12. \A x \in Event : prev'[x] # NULL => \E i \in 1..Len(r) : r[i] = x
  <2> SUFFICES ASSUME NEW x \in Event, prev'[x] # NULL
               PROVE  x = e \/ \E i \in 1..Len(q) : q[i] = x
    BY <1>10
  <2>1. CASE k > 0 /\ k < Len(q) /\ x = q[k + 1]  BY <1>2, <2>1
  <2>2. CASE ~(k > 0 /\ k < Len(q) /\ x = q[k + 1]) /\ x # e
    <3>1. prev'[x] = p[x]  BY <1>1, <2>2
    <3> QED  BY <1>d, <3>1
  <2> QED  BY <2>1, <2>2
<1>13. \A i, j \in 1..Len(r) : i <= j => t[r[i]] <= due'[r[j]]
  <2> SUFFICES ASSUME NEW i \in 1..Len(r), NEW j \in 1..Len(r), i <= j
               PROVE  t[r[i]] <= due'[r[j]]
    OBVIOUS
  <2>1. CASE r[j] = e /\ j = k + 1
    <3>1. CASE i = k + 1  BY <1>7, <2>1, <3>1
                             DEF ChainOK
    <3>2. CASE i # k + 1
      <4>1. i \in 1..k  BY <1>2, <1>3, <2>1, <3>2
      <4> QED  BY <1>3, <1>5, <2>1, <4>1
    <3> QED  BY <3>1, <3>2
  <2>2. ASSUME NEW jj \in 1..Len(q), r[j] = q[jj], jj = j \/ (jj = j - 1 /\ jj > k)
        PROVE  t[r[i]] <= due'[r[j]]
    <3>0. q[jj] \in Event /\ q[jj] # e  BY <1>2, <2>2
    <3>1. due'[r[j]] = due[q[jj]]  BY <1>7, <2>2, <3>0
    <3>2. CASE r[i] = e /\ i = k + 1
      <4>1. jj \in (k + 1)..Len(q)  BY <1>2, <2>2, <3>2
      <4> QED  BY <3>1, <3>2, <4>1, <1>6
    <3>3. CASE i \in 1..k /\ r[i] = q[i]
      <4>1. i \in Int /\ j \in Int /\ jj \in Int  BY <1>2, <1>3
      <4>2. i \in 1..Len(q) /\ i <= jj  BY <1>2, <2>2, <3>3, <4>1
      <4> QED  BY <1>e, <3>1, <3>3, <4>2
    <3>4. CASE i - 1 \in (k + 1)..Len(q) /\ r[i] = q[i - 1]
      <4>1. i \in Int /\ j \in Int /\ jj \in Int  BY <1>2, <1>3
      <4>2. i - 1 \in 1..Len(q) /\ i - 1 <= jj  BY <1>2, <2>2, <3>4, <4>1
      <4> QED  BY <1>e, <3>1, <3>4, <4>2
    <3> QED  BY <1>4, <3>2, <3>3, <3>4
  <2>3. CASE j \in 1..k /\ r[j] = q[j]
    <3>1. j \in 1..Len(q)  BY <1>2, <2>3
    <3> QED  BY <2>2, <2>3, <3>1
  <2>4. CASE j - 1 \in (k + 1)..Len(q) /\ r[j] = q[j - 1]
    <3>0. j \in Int  BY <1>2, <1>3
    <3>1. j - 1 \in 1..Len(q) /\ j - 1 > k  BY <1>2, <2>4, <3>0
    <3> QED  BY <2>2, <2>4, <3>1
  <2> QED  BY <1>4, <2>1, <2>3, <2>4
<1>14. \A i \in 1..Len(r) : due'[r[i]] >= n
  <2> SUFFICES ASSUME NEW i \in 1..Len(r)  PROVE due'[r[i]] >= n
    OBVIOUS
  <2>1. ASSUME NEW j \in 1..Len(q), r[i] = q[j]  PROVE due'[r[i]] >= n
    <3>1. q[j] \in Event /\ q[j] # e  BY <1>2
    <3> QED  BY <1>7, <1>f, <2>1, <3>1
  <2>2. i # k + 1 => \E j \in 1..Len(q) : r[i] = q[j]
    BY <1>2, <1>4
  <2> QED  BY <1>4, <1>7, <2>1, <2>2
<1>15. q # <<>> /\ t[q[1]] <= t[e] => r[1] = q[1]
  <2> SUFFICES ASSUME q # <<>>, t[q[1]] <= t[e]  PROVE r[1] = q[1]
    OBVIOUS
  <2>1. Len(q) > 0  BY <1>2, <1>a, EmptySeq
  <2>2. t[q[1]] \in Nat /\ t[e] \in Nat  BY <1>2, <1>a, <2>1
  <2>3. k \in 1..Len(q)  BY <1>1, <2>2 DEF InsertPoint
  <2> QED  BY <1>2, <1>3, <2>3
<1>16. ChainOK(r, prev', t, due', n)
  BY <1>a, <1>3, <1>7, <1>8, <1>9, <1>11, <1>12, <1>13, <1>14 DEF ChainOK
<1> QED
  BY <1>10, <1>15, <1>16 DEF r, With

(* The event at position i of q leaves: r is what remains, and the back    *)
(* pointers b differ from p for that event and the next one at most.       *)
Removal(q, p, i, r, b) ==
  /\ i \in 1..Len(q)
  /\ r \in Seq(Event)
  /\ Len(r) = Len(q) - 1
  /\ \A j \in 1..(i - 1) : r[j] = q[j]
  /\ \A j \in i..(Len(q) - 1) : r[j] = q[j + 1]
  /\ b \in [Event -> Event \cup {NULL}]
  /\ b[q[i]] = NULL
  /\ i < Len(q) => \/ b[q[i + 1]] = NULL
                   \/ i > 1 /\ b[q[i + 1]] = q[i - 1]
  /\ \A x \in Event : x # q[i] /\ (i < Len(q) => x # q[i + 1]) => b[x] = p[x]

(* The events of r are those of q but e. *)
Without(r, q, e) ==
  \A x : (\E j \in 1..Len(r) : r[j] = x) <=> (x # e /\ \E j \in 1..Len(q) : q[j] = x)

LEMMA RemovalKeepsChain ==
  ASSUME NEW q, NEW p, NEW t, NEW u, NEW n, NEW i, NEW r, NEW b,
         ChainOK(q, p, t, u, n), Removal(q, p, i, r, b)
  PROVE  ChainOK(r, b, t, u, n) /\ Without(r, q, q[i])
<1>0. /\ i \in 1..Len(q)
      /\ r \in Seq(Event)
      /\ Len(r) = Len(q) - 1
      /\ \A j \in 1..(i - 1) : r[j] = q[j]
      /\ \A j \in i..(Len(q) - 1) : r[j] = q[j + 1]
  BY DEF Removal
<1>00. /\ b \in [Event -> Event \cup {NULL}]
       /\ b[q[i]] = NULL
       /\ i < Len(q) => \/ b[q[i + 1]] = NULL
                        \/ i > 1 /\ b[q[i + 1]] = q[i - 1]
       /\ \A x \in Event : x # q[i] /\ (i < Len(q) => x # q[i + 1]) => b[x] = p[x]
  BY DEF Removal
<1>a. /\ q \in Seq(Event)
      /\ t \in [Event -> Nat]
      /\ u \in [Event -> Nat]
  BY DEF ChainOK
<1>b. \A j, k \in 1..Len(q) : q[j] = q[k] => j = k
  BY DEF ChainOK
<1>c. \A j \in 1..Len(q) : p[q[j]] # NULL => j > 1 /\ p[q[j]] = q[j - 1]
  BY DEF ChainOK
<1>d. \A x \in Event : p[x] # NULL => \E j \in 1..Len(q) : q[j] = x
  BY DEF ChainOK
<1>e. \A j, k \in 1..Len(q) : j <= k => t[q[j]] <= u[q[k]]
  BY DEF ChainOK
<1>f. \A j \in 1..Len(q) : u[q[j]] >= n
  BY DEF ChainOK
<1>1. Len(q) \in Nat /\ i \in Nat /\ \A j \in 1..Len(q) : q[j] \in Event
  BY <1>0, <1>a, ElementOfSeq, LenProperties
<1> DEFINE old(j) == IF j < i THEN j ELSE j + 1
<1>2. \A j \in 1..Len(r) : old(j) \in 1..Len(q) /\ old(j) # i /\ r[j] = q[old(j)]
  BY <1>0, <1>1
<1>3. \A k \in 1..Len(q) : k # i => \E j \in 1..Len(r) : old(j) = k
  <2> SUFFICES ASSUME NEW k \in 1..Len(q), k # i
               PROVE  \E j \in 1..Len(r) : old(j) = k
    OBVIOUS
  <2>1. CASE k < i
    <3>1. k \in 1..Len(r) /\ old(k) = k  BY <1>0, <1>1, <2>1
    <3> QED  BY <3>1
  <2>2. CASE k > i
    <3>1. k - 1 \in 1..Len(r) /\ old(k - 1) = k  BY <1>0, <1>1, <2>2
    <3> QED  BY <3>1
  <2> QED  BY <1>1, <2>1, <2>2
<1>4. \A j, k \in 1..Len(r) : /\ old(j) = old(k) => j = k
                              /\ j <= k => old(j) <= old(k)
  BY <1>0, <1>1
<1> HIDE DEF old
<1>5. \A j, k \in 1..Len(r) : r[j] = r[k] => j = k
  BY <1>2, <1>4, <1>b
<1>6. \A x : (\E j \in 1..Len(r) : r[j] = x)
             <=> (x # q[i] /\ \E j \in 1..Len(q) : q[j] = x)
  <2> TAKE x
  <2>1. ASSUME NEW j \in 1..Len(r), r[j] = x
        PROVE  x # q[i] /\ \E k \in 1..Len(q) : q[k] = x
    BY <1>0, <1>2, <1>b, <2>1
  <2>2. ASSUME NEW k \in 1..Len(q), q[k] = x, x # q[i]
        PROVE  \E j \in 1..Len(r) : r[j] = x
    <3>1. PICK j \in 1..Len(r) : old(j) = k  BY <1>3, <2>2
    <3> QED  BY <1>2, <2>2, <3>1
  <2> QED  BY <2>1, <2>2
<1>7. \A j \in 1..Len(r) : b[r[j]] # NULL => j > 1 /\ b[r[j]] = r[j - 1]
  <2> SUFFICES ASSUME NEW j \in 1..Len(r), b[r[j]] # NULL
               PROVE  j > 1 /\ b[r[j]] = r[j - 1]
    OBVIOUS
  <2>1. CASE j = i
    <3>1. i < Len(q) /\ r[j] = q[i + 1]  BY <1>0, <1>1, <2>1
    <3>2. i > 1 /\ b[q[i + 1]] = q[i - 1]  BY <1>00, <2>1, <3>1
    <3>3. i - 1 \in 1..(i - 1)  BY <1>1, <3>2
    <3> QED  BY <1>0, <2>1, <3>1, <3>2, <3>3
  <2>2. CASE j # i
    <3>1. /\ old(j) \in 1..Len(q) /\ old(j) # i /\ r[j] = q[old(j)]
          /\ q[old(j)] \in Event
      BY <1>0, <1>1, <1>2
    <3>2. i < Len(q) => i + 1 \in 1..Len(q) /\ old(j) # i + 1
      BY <1>0, <1>1, <2>2 DEF old
    <3>3. b[r[j]] = p[q[old(j)]]
      <4>1. q[old(j)] # q[i]  BY <1>0, <1>b, <3>1
      <4>2. i < Len(q) => q[old(j)] # q[i + 1]  BY <1>b, <3>1, <3>2
      <4> QED  BY <1>00, <3>1, <4>1, <4>2
    <3>4. old(j) > 1 /\ p[q[old(j)]] = q[old(j) - 1]  BY <1>c, <3>1, <3>3
    <3>5. CASE j < i
      <4>1. old(j) = j /\ j - 1 \in 1..(i - 1)  BY <1>0, <1>1, <3>4, <3>5 DEF old
      <4> QED  BY <1>0, <1>1, <3>3, <3>4, <4>1
    <3>6. CASE j > i
      <4>1. /\ old(j) = j + 1 /\ j - 1 \in i..(Len(q) - 1)
            /\ (j - 1) + 1 = old(j) - 1
        BY <1>0, <1>1, <3>6 DEF old
      <4>2. r[j - 1] = q[old(j) - 1]  BY <1>0, <4>1
      <4>3. j > 1  BY <1>0, <1>1, <3>6
      <4> QED  BY <3>3, <3>4, <4>2, <4>3
    <3> QED  BY <1>0, <1>1, <2>2, <3>5, <3>6
  <2> QED  BY <2>1, <2>2
<1>8. \A x \in Event : b[x] # NULL => \E j \in 1..Len(r) : r[j] = x
  <2> SUFFICES ASSUME NEW x \in Event, b[x] # NULL
               PROVE  x # q[i] /\ \E j \in 1..Len(q) : q[j] = x
    BY <1>6
  <2>1. CASE i < Len(q) /\ x = q[i + 1]
    <3>1. i + 1 \in 1..Len(q)  BY <1>1, <2>1
    <3>2. q[i + 1] # q[i]  BY <1>0, <1>1, <1>b, <3>1
    <3> QED  BY <2>1, <3>1, <3>2
  <2>2. CASE ~(i < Len(q) /\ x = q[i + 1])
    <3>1. x # q[i]  BY <1>00
    <3>2. b[x] = p[x]  BY <1>00, <2>2, <3>1
    <3> QED  BY <1>d, <3>1, <3>2
  <2> QED  BY <2>1, <2>2
<1>9. \A j, k \in 1..Len(r) : j <= k => t[r[j]] <= u[r[k]]
  BY <1>2, <1>4, <1>e
<1>10. \A j \in 1..Len(r) : u[r[j]] >= n
  BY <1>2, <1>f
<1> QED
  BY <1>0, <1>00, <1>a, <1>5, <1>6, <1>7, <1>8, <1>9, <1>10 DEF ChainOK, Without

(* The date of an event that is out of the chain is free to change. *)
LEMMA DateKeepsChain ==
  ASSUME NEW q, NEW p, NEW t, NEW u, NEW n, NEW e \in Event, NEW d \in Nat,
         ChainOK(q, p, t, u, n),
         \A i \in 1..Len(q) : q[i] # e
  PROVE  ChainOK(q, p, [t EXCEPT ![e] = d], u, n)
<1>1. \A i \in 1..Len(q) : q[i] \in Event /\ [t EXCEPT ![e] = d][q[i]] = t[q[i]]
  BY ElementOfSeq DEF ChainOK
<1>2. [t EXCEPT ![e] = d] \in [Event -> Nat]
  BY DEF ChainOK
<1> QED
  BY <1>1, <1>2 DEF ChainOK

(* The head is taken off and the back pointer of the new head is cleared. *)
LEMMA HeadLeavesChain ==
  ASSUME NEW q, NEW p, NEW t, NEW u, NEW n \in Nat,
         ChainOK(q, p, t, u, n), q # <<>>,
         NEW r, r = ChainAfter(q, q[1]),
         NEW b, b = IF r = <<>> THEN p ELSE [p EXCEPT ![r[1]] = NULL]
  PROVE  ChainOK(r, b, t, u, n) /\ Without(r, q, q[1])
<1>a. q \in Seq(Event) /\ p \in [Event -> Event \cup {NULL}]
  BY DEF ChainOK
<1>b. \A j, k \in 1..Len(q) : q[j] = q[k] => j = k
  BY DEF ChainOK
<1>c. \A j \in 1..Len(q) : p[q[j]] # NULL => j > 1 /\ p[q[j]] = q[j - 1]
  BY DEF ChainOK
<1>1. Len(q) \in Nat /\ Len(q) > 0 /\ \A j \in 1..Len(q) : q[j] \in Event
  BY <1>a, ElementOfSeq, LenProperties, EmptySeq
<1>2. r = SubSeq(q, 2, Len(q))
  <2>1. (CHOOSE j \in 1..Len(q) : q[j] = q[1]) = 1
    <3>1. 1 \in 1..Len(q)  BY <1>1
    <3> QED  BY <1>b, <3>1
  <2>2. ChainAfter(q, q[1]) = SubSeq(q, 1 + 1, Len(q))  BY <2>1 DEF ChainAfter
  <2> QED  BY <2>2
<1>3. /\ r \in Seq(Event) /\ Len(r) = Len(q) - 1
      /\ \A j \in 1..(Len(q) - 1) : r[j] = q[j + 1]
  <2>1. r = Cut(q, 1) /\ 1 \in 1..Len(q)  BY <1>1, <1>2, <1>a, TailIsCut
  <2>2. r \in Seq(Event) /\ Len(r) = Len(q) - 1
    BY <1>a, <2>1, CutProperties
  <2>3. \A j \in 1..(Len(q) - 1) : r[j] = q[j + 1]
    BY <1>a, <2>1, CutProperties
  <2> QED  BY <2>2, <2>3
<1>4. /\ b \in [Event -> Event \cup {NULL}]
      /\ 1 < Len(q) => b = [p EXCEPT ![q[2]] = NULL]
      /\ ~(1 < Len(q)) => b = p
  <2>1. CASE 1 < Len(q)
    <3>1. r # <<>> /\ r[1] = q[2]  BY <1>1, <1>3, <2>1, EmptySeq
    <3> QED  BY <1>a, <2>1, <3>1
  <2>2. CASE ~(1 < Len(q))
    <3>1. r = <<>>  BY <1>1, <1>3, <2>2, EmptySeq
    <3> QED  BY <1>a, <2>2, <3>1
  <2> QED  BY <2>1, <2>2
<1>5. p[q[1]] = NULL /\ b[q[1]] = NULL
  <2>1. p[q[1]] = NULL  BY <1>1, <1>c
  <2> QED  BY <1>1, <1>4, <1>a, <2>1
<1>6. 1 < Len(q) => b[q[1 + 1]] = NULL
  BY <1>1, <1>4, <1>a
<1>7. \A x \in Event : x # q[1] /\ (1 < Len(q) => x # q[1 + 1]) => b[x] = p[x]
  BY <1>4, <1>a
<1>8. Removal(q, p, 1, r, b)
  <2>1. /\ 1 \in 1..Len(q)
        /\ \A j \in 1..(1 - 1) : r[j] = q[j]
    BY <1>1
  <2> QED  BY <1>3, <1>4, <1>5, <1>6, <1>7, <2>1 DEF Removal
<1> QED
  BY <1>8, RemovalKeepsChain

-----------------------------------------------------------------------------
(* The least deadline InTime allows. *)
Floor == date + (IF pc = "cores" THEN 1 ELSE 0)

(* The part of ScheduleInv that is not about the chain alone. *)
NestOK ==
  /\ \A i, j \in 1..Len(nest) : nest[i] = nest[j] => i = j
  /\ \A i \in 1..Len(evts), j \in 1..Len(nest) : evts[i] # nest[j]

ChainInv ==
  /\ TypeOK
  /\ ChainOK(evts, prev, at, due, Floor)
  /\ NestOK
  /\ RunningIsHead

LEMMA ChainInvIsScheduleInv == ChainInv <=> ScheduleInv
BY DEF ScheduleInv, TypeOK, Linked, PrevSound, DueCovers, InTime, ChainOK,
       NestOK, Floor, ChainInv

LEMMA InactiveMeansNone ==
  ASSUME nest \in Seq(Event), running \in Event \cup {NULL}, Active = {}
  PROVE  running = NULL /\ nest = <<>>
<1>1. running = NULL  BY DEF Active
<1>2. Range(nest) = {}  BY DEF Active
<1>3. {nest[i] : i \in 1..Len(nest)} = {}  BY <1>2, RangeEquality
<1>4. Len(nest) = 0  BY <1>3, LenProperties
<1> QED  BY <1>1, <1>4, EmptySeq

(* What ClientRecord and ClientCancel exclude with their guards. *)
LEMMA InactiveEvent ==
  ASSUME TypeOK, NEW e \in Event, e \notin Active
  PROVE  e # running /\ \A i \in 1..Len(nest) : nest[i] # e
<1>1. Range(nest) = {nest[i] : i \in 1..Len(nest)}  BY RangeEquality DEF TypeOK
<1> QED  BY <1>1, NULLAssumption DEF Active, TypeOK

LEMMA UnlinkedEvent ==
  ASSUME TypeOK, NEW e
  PROVE  e \in Range(evts) <=> \E i \in 1..Len(evts) : evts[i] = e
BY RangeEquality DEF TypeOK

(* Every event of q but e is still in r. *)
KeepsBut(r, q, e) ==
  \A x : x # e /\ (\E i \in 1..Len(q) : q[i] = x) => \E j \in 1..Len(r) : r[j] = x

-----------------------------------------------------------------------------
(* The inductive step, one lemma per action. *)
LEMMA InitInv == Init => ChainInv
<1> SUFFICES ASSUME Init  PROVE ChainInv
  OBVIOUS
<1>1. TypeOK
  <2>1. evts \in Seq(Event) /\ nest \in Seq(Event)  BY EmptySeq DEF Init
  <2>2. at \in [Event -> Nat]  BY DEF Init
  <2> QED  BY <2>1, <2>2 DEF Init, TypeOK
<1>2. Len(evts) = 0 /\ Len(nest) = 0  BY DEF Init
<1>3. ScheduleInv
  BY <1>1, <1>2, NULLAssumption
     DEF Init, ScheduleInv, Linked, RunningIsHead, PrevSound, DueCovers, InTime
<1> QED
  BY <1>3, ChainInvIsScheduleInv

(* The actions that leave the chain alone. *)
LEMMA RunInv == ASSUME ChainInv, NEW t \in 1..Horizon, Run(t)  PROVE ChainInv'
<1>1. running = NULL /\ nest = <<>>  BY InactiveMeansNone DEF ChainInv, TypeOK, Run
<1>2. TypeOK'  BY DEF ChainInv, TypeOK, Run
<1>3. ChainOK(evts, prev, at, due, Floor)'
  BY DEF ChainInv, ChainOK, Run, Floor
<1>4. NestOK' /\ RunningIsHead'
  BY <1>1 DEF ChainInv, NestOK, RunningIsHead, Run
<1> QED  BY <1>2, <1>3, <1>4 DEF ChainInv

LEMMA RunTriggerInv == ASSUME ChainInv, RunTrigger  PROVE ChainInv'
<1>1. running = NULL /\ nest = <<>>
  BY InactiveMeansNone DEF ChainInv, TypeOK, RunTrigger
<1>2. evts[1] \in Event
  <2>1. Len(evts) > 0
    BY EmptySeq, LenProperties DEF ChainInv, TypeOK, RunTrigger, HeadDue
  <2> QED  BY <2>1, ElementOfSeq, LenProperties DEF ChainInv, TypeOK
<1>3. TypeOK'  BY <1>2 DEF ChainInv, TypeOK, RunTrigger
<1>4. ChainOK(evts, prev, at, due, Floor)'
  BY DEF ChainInv, ChainOK, RunTrigger, Floor
<1>5. NestOK'
  BY DEF ChainInv, NestOK, RunTrigger
<1>6. RunningIsHead'
  <2>1. Len(nest') = 0  BY <1>1 DEF RunTrigger
  <2> QED  BY <2>1 DEF RunningIsHead, RunTrigger, HeadDue
<1> QED  BY <1>3, <1>4, <1>5, <1>6 DEF ChainInv

LEMMA EventsDoneInv == ASSUME ChainInv, EventsDone  PROVE ChainInv'
<1>1. running = NULL /\ nest = <<>>
  BY InactiveMeansNone DEF ChainInv, TypeOK, EventsDone
<1>2. TypeOK'  BY DEF ChainInv, TypeOK, EventsDone
<1>3. \A j \in 1..Len(evts) : due[evts[j]] >= date + 1
  <2> SUFFICES ASSUME NEW j \in 1..Len(evts)  PROVE due[evts[j]] >= date + 1
    OBVIOUS
  <2>1. Len(evts) \in Nat /\ 1 \in 1..Len(evts) /\ evts # <<>>
    BY LenProperties, EmptySeq DEF ChainInv, TypeOK
  <2>2. evts[1] \in Event /\ evts[j] \in Event
    BY <2>1, ElementOfSeq DEF ChainInv, TypeOK
  <2>3. at[evts[1]] \in Nat /\ due[evts[j]] \in Nat /\ date \in Nat
    BY <2>2 DEF ChainInv, TypeOK
  <2>4. at[evts[1]] > date  BY <2>1, <2>3 DEF EventsDone, HeadDue
  <2>5. at[evts[1]] <= due[evts[j]]
    BY <2>1 DEF ChainInv, ChainOK
  <2> QED  BY <2>3, <2>4, <2>5
<1>4. ChainOK(evts, prev, at, due, Floor)'
  BY <1>3 DEF ChainInv, ChainOK, EventsDone, Floor
<1>5. NestOK' /\ RunningIsHead'
  BY <1>1 DEF ChainInv, NestOK, RunningIsHead, EventsDone
<1> QED  BY <1>2, <1>4, <1>5 DEF ChainInv

LEMMA TickInv == ASSUME ChainInv, Tick  PROVE ChainInv'
<1>1. running = NULL /\ nest = <<>>
  BY InactiveMeansNone DEF ChainInv, TypeOK, Tick
<1>2. TypeOK'  BY DEF ChainInv, TypeOK, Tick
<1>3. Floor' = Floor  BY DEF Floor, Tick, ChainInv, TypeOK
<1>4. ChainOK(evts, prev, at, due, Floor)'
  BY <1>3 DEF ChainInv, ChainOK, Tick
<1>5. NestOK' /\ RunningIsHead'
  BY <1>1 DEF ChainInv, NestOK, RunningIsHead, Tick
<1> QED  BY <1>2, <1>4, <1>5 DEF ChainInv

LEMMA StutterInv == ASSUME ChainInv, UNCHANGED vars  PROVE ChainInv'
<1>1. Floor' = Floor  BY DEF Floor, vars
<1> QED
  BY <1>1 DEF ChainInv, TypeOK, ChainOK, NestOK, RunningIsHead, vars

(* The actions that change the chain. *)
LEMMA ClientRecordInv ==
  ASSUME ChainInv, NEW e \in Event, NEW d \in date..Horizon, ClientRecord(e, d)
  PROVE  ChainInv' /\ KeepsBut(evts', evts, NULL)
<1>1. /\ e # running /\ \A i \in 1..Len(nest) : nest[i] # e
      /\ \A i \in 1..Len(evts) : evts[i] # e
  BY InactiveEvent, UnlinkedEvent DEF ChainInv, ClientRecord
<1>2. /\ date \in Nat /\ d \in Nat /\ date <= d /\ calls' \in Nat
      /\ at' = [at EXCEPT ![e] = d] /\ at' \in [Event -> Nat]
      /\ UNCHANGED <<date, end, pc, running, fault>>
  BY BoundsAssumption DEF ChainInv, TypeOK, ClientRecord
<1>3. ChainOK(evts, prev, at', due, Floor)
  BY <1>1, <1>2, DateKeepsChain DEF ChainInv
<1>4. Floor' = Floor /\ Floor \in Nat /\ Floor <= date + 1
  BY <1>2 DEF Floor
<1>5. RecordEvent(evts, prev, at', e)
  BY DEF ClientRecord
<1>6. running # NULL => /\ pc = "events" /\ evts # <<>> /\ evts[1] = running
                        /\ at'[running] <= date
                        /\ \A i \in 1..Len(nest) : at'[nest[i]] = date
  <2>1. running # NULL => running \in Event  BY DEF ChainInv, TypeOK
  <2>2. \A i \in 1..Len(nest) : nest[i] \in Event
    BY ElementOfSeq DEF ChainInv, TypeOK
  <2>3. \A x \in Event : x # e => at'[x] = at[x]
    BY <1>2 DEF ChainInv, TypeOK
  <2> QED  BY <1>1, <2>1, <2>2, <2>3 DEF ChainInv, RunningIsHead
<1>7. CASE d <= date
  <2>1. /\ nest' = Append(nest, e) /\ evts' = evts /\ prev' = prev /\ due' = due
        /\ at'[e] = date
    BY <1>2, <1>5, <1>7 DEF RecordEvent, ChainInv, TypeOK
  <2>2. /\ nest' \in Seq(Event) /\ Len(nest') = Len(nest) + 1
        /\ \A i \in 1..Len(nest) : nest'[i] = nest[i]
        /\ nest'[Len(nest) + 1] = e
        /\ Len(nest) \in Nat
    BY <2>1, AppendProperties, LenProperties DEF ChainInv, TypeOK
  <2>3. \A i \in 1..Len(nest') : \/ i \in 1..Len(nest) /\ nest'[i] = nest[i]
                                 \/ i = Len(nest) + 1 /\ nest'[i] = e
    BY <2>2
  <2>4. TypeOK'  BY <1>2, <2>1, <2>2 DEF ChainInv, TypeOK
  <2>5. ChainOK(evts, prev, at, due, Floor)'
    BY <1>3, <1>4, <2>1 DEF ChainOK
  <2>6. NestOK'  BY <1>1, <2>1, <2>3 DEF ChainInv, NestOK
  <2>7. RunningIsHead'
    BY <1>2, <1>6, <2>1, <2>3 DEF RunningIsHead
  <2> QED  BY <2>1, <2>4, <2>5, <2>6, <2>7 DEF ChainInv, KeepsBut
<1>8. CASE ~(d <= date)
  <2>1. Link(evts, prev, at', e) /\ nest' = nest /\ at'[e] = d
    BY <1>2, <1>5, <1>8 DEF RecordEvent, ChainInv, TypeOK
  <2>2. ChainOK(evts', prev', at', due', Floor) /\ With(evts', evts, e)
    BY <1>1, <1>2, <1>3, <1>4, <2>1, LinkKeepsChain
  <2>3. running # NULL => evts'[1] = running
    <3>1. running # NULL => at'[evts[1]] <= at'[e]
      <4> SUFFICES ASSUME running # NULL  PROVE at'[evts[1]] <= at'[e]
        OBVIOUS
      <4>1. running \in Event  BY DEF ChainInv, TypeOK
      <4>2. at'[running] \in Nat  BY <1>2, <4>1
      <4> QED  BY <1>2, <1>6, <1>8, <2>1, <4>2
    <3> QED  BY <1>1, <1>2, <1>3, <1>4, <1>6, <2>1, <3>1, LinkKeepsChain
  <2>4. evts' # <<>>
    <3>1. \E i \in 1..Len(evts') : evts'[i] = e  BY <2>2 DEF With
    <3> QED  BY <3>1, EmptySeq
  <2>5. TypeOK'  BY <1>2, <2>1, <2>2 DEF ChainInv, TypeOK, ChainOK
  <2>6. ChainOK(evts, prev, at, due, Floor)'
    BY <1>4, <2>2 DEF ChainOK
  <2>7. NestOK'  BY <1>1, <2>1, <2>2 DEF ChainInv, NestOK, With
  <2>8. RunningIsHead'
    BY <1>2, <1>6, <2>1, <2>3, <2>4 DEF RunningIsHead
  <2> QED  BY <2>2, <2>5, <2>6, <2>7, <2>8 DEF ChainInv, KeepsBut, With
<1> QED  BY <1>7, <1>8

(* Front drops the last element only. *)
LEMMA FrontProperties ==
  ASSUME NEW S, NEW s \in Seq(S), s # <<>>
  PROVE  /\ Len(s) \in Nat \ {0} /\ Last(s) = s[Len(s)] /\ Last(s) \in S
         /\ Front(s) \in Seq(S) /\ Len(Front(s)) = Len(s) - 1
         /\ \A i \in 1..(Len(s) - 1) : Front(s)[i] = s[i]
<1>1. Len(s) \in Nat \ {0}  BY EmptySeq, LenProperties
<1>2. Last(s) = s[Len(s)] /\ Last(s) \in S  BY <1>1, ElementOfSeq DEF Last
<1>3. \A i \in 1..(Len(s) - 1) : s[i] \in S  BY <1>1, ElementOfSeq
<1>4. /\ Front(s) \in Seq(S)
      /\ Len(Front(s)) = IF 1 <= Len(s) - 1 THEN (Len(s) - 1) - 1 + 1 ELSE 0
      /\ \A i \in 1..((Len(s) - 1) - 1 + 1) : Front(s)[i] = s[1 + i - 1]
  BY <1>1, <1>3, SubSeqProperties DEF Front
<1>5. Len(Front(s)) = Len(s) - 1
  <2>1. Len(Front(s)) = IF 1 <= Len(s) - 1 THEN (Len(s) - 1) - 1 + 1 ELSE 0
    BY <1>4
  <2>2. CASE Len(s) = 1  BY <2>1, <2>2
  <2>3. CASE Len(s) > 1
    <3>1. 1 <= Len(s) - 1 /\ (Len(s) - 1) - 1 + 1 = Len(s) - 1  BY <1>1, <2>3
    <3> QED  BY <2>1, <3>1
  <2>4. Len(s) = 1 \/ Len(s) > 1
    <3>1. \A l \in Nat \ {0} : l = 1 \/ l > 1  OBVIOUS
    <3> QED  BY <1>1, <3>1
  <2> QED  BY <2>2, <2>3, <2>4
<1>6. ASSUME NEW i \in 1..(Len(s) - 1)  PROVE Front(s)[i] = s[i]
  <2>1. i \in 1..((Len(s) - 1) - 1 + 1) /\ 1 + i - 1 = i  BY <1>1
  <2> QED  BY <1>4, <2>1
<1> QED  BY <1>1, <1>2, <1>4, <1>5, <1>6

LEMMA RecordTriggerReturnsInv ==
  ASSUME ChainInv, RecordTriggerReturns
  PROVE  ChainInv' /\ KeepsBut(evts', evts, NULL)
<1> DEFINE e == Last(nest)
<1>0. nest \in Seq(Event) /\ nest # <<>>
  BY DEF ChainInv, TypeOK, RecordTriggerReturns
<1>1. /\ Len(nest) \in Nat \ {0} /\ e = nest[Len(nest)] /\ e \in Event
      /\ nest' \in Seq(Event) /\ Len(nest') = Len(nest) - 1
      /\ \A i \in 1..(Len(nest) - 1) : nest'[i] = nest[i]
  BY <1>0, FrontProperties DEF RecordTriggerReturns
<1>2. \A i \in 1..Len(nest') : i \in 1..Len(nest) /\ nest'[i] = nest[i] /\ nest'[i] # e
  <2>1. Len(nest) \in 1..Len(nest)  BY <1>1
  <2>2. \A i \in 1..Len(nest') : i \in 1..Len(nest) /\ i # Len(nest)  BY <1>1
  <2> QED  BY <1>1, <2>1, <2>2 DEF ChainInv, NestOK
<1>3. \A i \in 1..Len(evts) : evts[i] # e
  <2>1. Len(nest) \in 1..Len(nest)  BY <1>1
  <2> QED  BY <1>1, <2>1 DEF ChainInv, NestOK
<1>4. /\ date \in Nat /\ UNCHANGED <<date, end, pc, running, fault, calls>>
      /\ Floor' = Floor /\ Floor \in Nat /\ Floor <= date + 1
  BY DEF ChainInv, TypeOK, RecordTriggerReturns, Floor
<1>5. CASE Period[e] = 0
  <2>1. UNCHANGED <<at, evts, prev, due>>  BY <1>5 DEF RecordTriggerReturns
  <2>2. TypeOK'  BY <1>1, <1>4, <2>1 DEF ChainInv, TypeOK
  <2>3. ChainOK(evts, prev, at, due, Floor)'
    BY <1>4, <2>1 DEF ChainInv, ChainOK
  <2>4. NestOK'  BY <1>2, <2>1 DEF ChainInv, NestOK
  <2>5. RunningIsHead'
    BY <1>2, <1>4, <2>1 DEF ChainInv, RunningIsHead
  <2> QED  BY <2>1, <2>2, <2>3, <2>4, <2>5 DEF ChainInv, KeepsBut
<1>6. CASE Period[e] # 0
  <2> HIDE DEF e
  <2>0. Period[e] \in Nat /\ at[e] \in Nat
    BY <1>1, PeriodAssumption DEF ChainInv, TypeOK
  <2>1. at' = [at EXCEPT ![e] = @ + Period[e]] /\ Link(evts, prev, at', e)
    BY <1>6 DEF RecordTriggerReturns, e
  <2>2. at' = [at EXCEPT ![e] = at[e] + Period[e]] /\ at[e] + Period[e] \in Nat
    BY <2>0, <2>1
  <2>3. ChainOK(evts, prev, at', due, Floor)
    BY <1>1, <1>3, <2>2, DateKeepsChain DEF ChainInv
  <2>4. ChainOK(evts', prev', at', due', Floor) /\ With(evts', evts, e)
    BY <1>1, <1>3, <1>4, <2>1, <2>3, LinkKeepsChain
  <2>5. \A x \in Event : x # e => at'[x] = at[x]
    BY <2>2 DEF ChainInv, TypeOK
  <2>6. running # NULL => /\ running \in Event /\ running # e
                          /\ at[e] = date /\ at'[e] > date
    <3>1. running # NULL => running \in Event  BY DEF ChainInv, TypeOK
    <3>2. running # NULL => running # e
      <4>1. running # NULL => Len(evts) \in Nat \ {0}
        BY EmptySeq, LenProperties DEF ChainInv, TypeOK, RunningIsHead
      <4> QED  BY <1>3, <4>1 DEF ChainInv, RunningIsHead
    <3>3. running # NULL => at[e] = date
      <4>1. Len(nest) \in 1..Len(nest)  BY <1>1
      <4> QED  BY <1>1, <4>1 DEF ChainInv, RunningIsHead
    <3>4. at'[e] = at[e] + Period[e]  BY <1>1, <2>2 DEF ChainInv, TypeOK
    <3> QED  BY <1>4, <1>6, <2>0, <3>1, <3>2, <3>3, <3>4
  <2>7. running # NULL => evts'[1] = running /\ at'[running] = at[running]
    <3> SUFFICES ASSUME running # NULL
                 PROVE  evts'[1] = running /\ at'[running] = at[running]
      OBVIOUS
    <3>1. at'[running] = at[running]  BY <2>5, <2>6
    <3>2. evts # <<>> /\ evts[1] = running /\ at[running] <= date
      BY DEF ChainInv, RunningIsHead
    <3>3. at[running] \in Nat /\ at'[e] \in Nat
      BY <2>6, <2>3, <1>1 DEF ChainInv, TypeOK, ChainOK
    <3>4. at'[evts[1]] <= at'[e]  BY <1>4, <2>6, <3>1, <3>2, <3>3
    <3> QED  BY <1>1, <1>3, <1>4, <2>1, <2>3, <3>1, <3>2, <3>4, LinkKeepsChain
  <2>8. evts' # <<>>
    <3>1. \E i \in 1..Len(evts') : evts'[i] = e  BY <2>4 DEF With
    <3> QED  BY <3>1, EmptySeq
  <2>9. TypeOK'  BY <1>1, <1>4, <2>4 DEF ChainInv, TypeOK, ChainOK
  <2>10. ChainOK(evts, prev, at, due, Floor)'  BY <1>4, <2>4 DEF ChainOK
  <2>11. NestOK'
    <3>1. \A i, j \in 1..Len(nest') : nest'[i] = nest'[j] => i = j
      BY <1>2 DEF ChainInv, NestOK
    <3>2. ASSUME NEW i \in 1..Len(evts'), NEW j \in 1..Len(nest')
          PROVE  evts'[i] # nest'[j]
      <4>1. evts'[i] = e \/ \E k \in 1..Len(evts) : evts[k] = evts'[i]
        BY <2>4 DEF With
      <4> QED  BY <1>2, <4>1 DEF ChainInv, NestOK
    <3> QED  BY <3>1, <3>2 DEF NestOK
  <2>12. RunningIsHead'
    <3>1. \A i \in 1..Len(nest') : nest'[i] \in Event  BY <1>1, ElementOfSeq
    <3>2. running # NULL => \A i \in 1..Len(nest') : at'[nest'[i]] = date
      BY <1>2, <2>5, <3>1 DEF ChainInv, RunningIsHead
    <3> QED  BY <1>4, <2>7, <2>8, <3>2 DEF ChainInv, RunningIsHead
  <2> QED  BY <2>4, <2>9, <2>10, <2>11, <2>12 DEF ChainInv, KeepsBut, With
<1> QED  BY <1>5, <1>6

(* csim_cancel_event, the back pointer being sound, takes out e alone. *)
LEMMA UnlinkRemoves ==
  ASSUME ChainInv, NEW e \in Event, e \notin Active, Unlink(e),
         ~(e # evts[1] /\ prev[e] = NULL)
  PROVE  /\ ChainOK(evts', prev', at, due, Floor)
         /\ Without(evts', evts, e)
         /\ running # NULL => evts' # <<>> /\ evts'[1] = running
<1>1. /\ evts \in Seq(Event) /\ Len(evts) \in Nat
      /\ prev \in [Event -> Event \cup {NULL}]
      /\ \A i \in 1..Len(evts) : evts[i] \in Event
  BY ElementOfSeq, LenProperties DEF ChainInv, TypeOK
<1>2. PICK i \in 1..Len(evts) - 1 :
        /\ evts[i] = e
        /\ IF i = 1
           THEN /\ evts' = SubSeq(evts, 2, Len(evts))
                /\ prev' = [prev EXCEPT ![evts[2]] = NULL]
           ELSE \E k \in 1..Len(evts) :
                  /\ evts[k] = prev[e]
                  /\ evts' = SubSeq(evts, 1, k) \o SubSeq(evts, i + 1, Len(evts))
                  /\ prev' = [prev EXCEPT ![evts[i + 1]] = prev[e], ![e] = NULL]
  BY DEF Unlink
<1>3. /\ i \in 1..Len(evts) /\ i + 1 \in 1..Len(evts) /\ i < Len(evts)
      /\ evts[i + 1] \in Event /\ evts[i + 1] # e
  <2>1. i \in 1..Len(evts) /\ i + 1 \in 1..Len(evts) /\ i < Len(evts)  BY <1>1
  <2>2. evts[i + 1] # evts[i]  BY <2>1 DEF ChainInv, ChainOK
  <2> QED  BY <1>1, <1>2, <2>1, <2>2
<1>4. \A j \in 1..Len(evts) : prev[evts[j]] # NULL => j > 1 /\ prev[evts[j]] = evts[j - 1]
  BY DEF ChainInv, ChainOK
<1>5. \A j, k \in 1..Len(evts) : evts[j] = evts[k] => j = k
  BY DEF ChainInv, ChainOK
<1>6. i # 1 => prev[e] # NULL
  <2>1. 1 \in 1..Len(evts)  BY <1>1, <1>3
  <2> QED  BY <1>2, <1>3, <1>5, <2>1
<1>7. evts' = Cut(evts, i)
  <2>1. CASE i = 1
    <3>1. evts # <<>> /\ evts' = SubSeq(evts, 2, Len(evts))
      BY <1>2, <1>3, <2>1
    <3> QED  BY <1>1, <2>1, <3>1, TailIsCut
  <2>2. CASE i # 1
    <3>1. PICK k \in 1..Len(evts) :
            /\ evts[k] = prev[e]
            /\ evts' = SubSeq(evts, 1, k) \o SubSeq(evts, i + 1, Len(evts))
      BY <1>2, <2>2
    <3>2. i - 1 \in 1..Len(evts)  BY <1>1, <1>3, <2>2
    <3>3. prev[e] = evts[i - 1]  BY <1>2, <1>3, <1>4, <1>6, <2>2
    <3>4. k = i - 1  BY <1>5, <3>1, <3>2, <3>3
    <3> QED  BY <3>1, <3>4 DEF Cut
  <2> QED  BY <2>1, <2>2
<1>8. /\ evts' \in Seq(Event) /\ Len(evts') = Len(evts) - 1
      /\ \A j \in 1..(i - 1) : evts'[j] = evts[j]
      /\ \A j \in i..(Len(evts) - 1) : evts'[j] = evts[j + 1]
  <2>1. evts' \in Seq(Event) /\ Len(evts') = Len(evts) - 1
    BY <1>1, <1>3, <1>7, CutProperties
  <2>2. \A j \in 1..(i - 1) : evts'[j] = evts[j]
    BY <1>1, <1>3, <1>7, CutProperties
  <2>3. \A j \in i..(Len(evts) - 1) : evts'[j] = evts[j + 1]
    BY <1>1, <1>3, <1>7, CutProperties
  <2> QED  BY <2>1, <2>2, <2>3
<1>9. /\ prev' \in [Event -> Event \cup {NULL}]
      /\ prev'[e] = NULL
      /\ \/ prev'[evts[i + 1]] = NULL
         \/ i > 1 /\ prev'[evts[i + 1]] = evts[i - 1]
      /\ \A x \in Event : x # e /\ x # evts[i + 1] => prev'[x] = prev[x]
  <2>1. CASE i = 1
    <3>1. prev' = [prev EXCEPT ![evts[i + 1]] = NULL]  BY <1>2, <2>1
    <3>2. prev[e] = NULL  BY <1>2, <1>3, <1>4, <2>1
    <3> QED  BY <1>1, <1>3, <3>1, <3>2
  <2>2. CASE i # 1
    <3>1. prev' = [prev EXCEPT ![evts[i + 1]] = prev[e], ![e] = NULL]
      BY <1>2, <2>2
    <3>2. prev[e] = evts[i - 1] /\ prev[e] \in Event \cup {NULL} /\ i > 1
      BY <1>1, <1>2, <1>3, <1>4, <1>6, <2>2
    <3> QED  BY <1>1, <1>3, <3>1, <3>2
  <2> QED  BY <2>1, <2>2
<1>10. Removal(evts, prev, i, evts', prev')
  BY <1>2, <1>3, <1>8, <1>9 DEF Removal
<1>11. ChainOK(evts', prev', at, due, Floor) /\ Without(evts', evts, e)
  BY <1>2, <1>10, RemovalKeepsChain DEF ChainInv
<1>12. running # NULL => evts' # <<>> /\ evts'[1] = running
  <2> SUFFICES ASSUME running # NULL
               PROVE  evts' # <<>> /\ evts'[1] = running
    OBVIOUS
  <2>1. evts[1] = running /\ running # e
    BY InactiveEvent DEF ChainInv, RunningIsHead
  <2>2. 1 \in 1..(i - 1) /\ Len(evts') > 0
    <3>1. i # 1  BY <1>2, <2>1
    <3> QED  BY <1>1, <1>3, <1>8, <3>1
  <2> QED  BY <1>8, <2>1, <2>2, EmptySeq
<1> QED  BY <1>11, <1>12

LEMMA ClientCancelInv ==
  ASSUME ChainInv, NEW e \in Event, ClientCancel(e)
  PROVE  ChainInv' /\ KeepsBut(evts', evts, e)
<1>1. /\ UNCHANGED <<date, end, pc, at, running, nest, due>>
      /\ fault' \in BOOLEAN /\ calls' \in Nat
      /\ Floor' = Floor
  BY DEF ChainInv, TypeOK, ClientCancel, CancelFaults, Floor
<1>2. CASE CancelFaults(e)
  <2>1. UNCHANGED <<evts, prev>>  BY <1>2 DEF ClientCancel
  <2>2. TypeOK'  BY <1>1, <2>1 DEF ChainInv, TypeOK
  <2>3. ChainOK(evts, prev, at, due, Floor)'  BY <1>1, <2>1 DEF ChainInv, ChainOK
  <2>4. NestOK' /\ RunningIsHead'
    BY <1>1, <2>1 DEF ChainInv, NestOK, RunningIsHead
  <2> QED  BY <2>1, <2>2, <2>3, <2>4 DEF ChainInv, KeepsBut
<1>3. CASE ~CancelFaults(e)
  <2>1. Unlink(e) /\ e \notin Active /\ ~(e # evts[1] /\ prev[e] = NULL)
    BY <1>3 DEF ClientCancel, CancelFaults
  <2>2. /\ ChainOK(evts', prev', at, due, Floor)
        /\ Without(evts', evts, e)
        /\ running # NULL => evts' # <<>> /\ evts'[1] = running
    BY <2>1, UnlinkRemoves
  <2>3. TypeOK'  BY <1>1, <2>2 DEF ChainInv, TypeOK, ChainOK
  <2>4. ChainOK(evts, prev, at, due, Floor)'  BY <1>1, <2>2 DEF ChainOK
  <2>5. NestOK'
    <3>1. \A i \in 1..Len(evts') : \E k \in 1..Len(evts) : evts[k] = evts'[i]
      BY <2>2 DEF Without
    <3> QED  BY <1>1, <3>1 DEF ChainInv, NestOK
  <2>6. RunningIsHead'
    BY <1>1, <2>2 DEF ChainInv, RunningIsHead
  <2> QED  BY <2>2, <2>3, <2>4, <2>5, <2>6 DEF ChainInv, KeepsBut, Without
<1> QED  BY <1>2, <1>3

LEMMA RunTriggerReturnsInv ==
  ASSUME ChainInv, RunTriggerReturns
  PROVE  ChainInv' /\ KeepsBut(evts', evts, running)
<1> DEFINE e == running
           rest == ChainAfter(evts, e)
           p == IF rest = <<>> THEN prev ELSE [prev EXCEPT ![rest[1]] = NULL]
<1>1. /\ nest = <<>> /\ Len(nest) = 0 /\ e \in Event /\ pc = "events"
      /\ evts # <<>> /\ e = evts[1] /\ running' = NULL
      /\ UNCHANGED <<date, end, pc, fault, calls>>
      /\ date \in Nat /\ Floor' = Floor /\ Floor \in Nat /\ Floor <= date + 1
  BY DEF ChainInv, TypeOK, RunningIsHead, RunTriggerReturns, Floor
<1>2. ChainOK(rest, p, at, due, Floor) /\ Without(rest, evts, e)
  BY <1>1, HeadLeavesChain DEF ChainInv
<1>3. \A i \in 1..Len(rest) : rest[i] # e
  BY <1>2 DEF Without
<1>4. IF Period[e] = 0
      THEN evts' = rest /\ prev' = p /\ UNCHANGED <<at, nest, due>>
      ELSE /\ at' = [at EXCEPT ![e] = @ + Period[e]]
           /\ RecordEvent(rest, p, at', e)
  BY DEF RunTriggerReturns
<1> HIDE DEF e, rest, p
<1>5. RunningIsHead'  BY <1>1 DEF RunningIsHead
<1>6. ASSUME evts' = rest, prev' = p, due' = due, at' \in [Event -> Nat],
             ChainOK(rest, p, at', due, Floor),
             nest' = <<>> \/ nest' = <<e>>
      PROVE  ChainInv' /\ KeepsBut(evts', evts, running)
  <2>1. /\ nest' \in Seq(Event)
        /\ \A i \in 1..Len(nest') : i = 1 /\ nest'[i] = e
    <3>1. CASE nest' = <<>>
      <4>1. Len(nest') = 0 /\ nest' \in Seq(Event)  BY <3>1, EmptySeq
      <4> QED  BY <4>1
    <3>2. CASE nest' = <<e>>
      <4>1. Len(nest') = 1 /\ nest' \in Seq(Event) /\ nest'[1] = e  BY <1>1, <3>2
      <4> QED  BY <4>1
    <3> QED  BY <1>6, <3>1, <3>2
  <2>2. TypeOK'
    BY <1>1, <1>6, <2>1 DEF ChainInv, TypeOK, ChainOK
  <2>3. ChainOK(evts, prev, at, due, Floor)'
    BY <1>1, <1>6 DEF ChainOK
  <2>4. NestOK'  BY <1>3, <1>6, <2>1 DEF NestOK
  <2>5. KeepsBut(evts', evts, running)  BY <1>2, <1>6 DEF Without, KeepsBut, e
  <2> QED  BY <1>5, <2>2, <2>3, <2>4, <2>5 DEF ChainInv
<1>7. CASE Period[e] = 0
  <2>1. at' \in [Event -> Nat]  BY <1>4, <1>7 DEF ChainInv, TypeOK
  <2> QED  BY <1>1, <1>2, <1>4, <1>6, <1>7, <2>1
<1>8. CASE Period[e] # 0
  <2>1. /\ at' = [at EXCEPT ![e] = at[e] + Period[e]]
        /\ at[e] + Period[e] \in Nat /\ at' \in [Event -> Nat]
        /\ RecordEvent(rest, p, at', e)
    <3>1. Period[e] \in Nat /\ at[e] \in Nat /\ at \in [Event -> Nat]
      BY <1>1, PeriodAssumption DEF ChainInv, TypeOK
    <3>2. at' = [at EXCEPT ![e] = at[e] + Period[e]] /\ RecordEvent(rest, p, at', e)
      BY <1>4, <1>8
    <3> QED  BY <1>1, <3>1, <3>2
  <2>2. ChainOK(rest, p, at', due, Floor)
    BY <1>1, <1>2, <1>3, <2>1, DateKeepsChain
  <2>3. CASE at'[e] <= date
    <3>1. /\ nest' = Append(nest, e) /\ evts' = rest /\ prev' = p /\ due' = due
      BY <2>1, <2>3 DEF RecordEvent
    <3>2. nest' = <<e>>  BY <1>1, <3>1
    <3> QED  BY <1>6, <2>1, <2>2, <3>1, <3>2
  <2>4. CASE ~(at'[e] <= date)
    <3>1. Link(rest, p, at', e) /\ nest' = nest
      BY <2>1, <2>4 DEF RecordEvent
    <3>2. ChainOK(evts', prev', at', due', Floor) /\ With(evts', rest, e)
      BY <1>1, <1>3, <2>2, <3>1, LinkKeepsChain
    <3>3. TypeOK'  BY <1>1, <2>1, <3>1, <3>2 DEF ChainInv, TypeOK, ChainOK
    <3>4. ChainOK(evts, prev, at, due, Floor)'  BY <1>1, <3>2 DEF ChainOK
    <3>5. NestOK'  BY <1>1, <3>1 DEF NestOK
    <3>6. KeepsBut(evts', evts, running)
      BY <1>2, <3>2 DEF With, Without, KeepsBut, e
    <3> QED  BY <1>5, <3>3, <3>4, <3>5, <3>6 DEF ChainInv
  <2> QED  BY <2>3, <2>4
<1> QED  BY <1>7, <1>8

LEMMA NextInv == ChainInv /\ [Next]_vars => ChainInv'
<1> SUFFICES ASSUME ChainInv, [Next]_vars  PROVE ChainInv'
  OBVIOUS
<1>1. CASE Scheduler
  <2>1. CASE RecordTriggerReturns  BY <2>1, RecordTriggerReturnsInv
  <2>2. CASE RunTriggerReturns  BY <2>2, RunTriggerReturnsInv
  <2>3. CASE RunTrigger  BY <2>3, RunTriggerInv
  <2>4. CASE EventsDone  BY <2>4, EventsDoneInv
  <2>5. CASE Tick  BY <2>5, TickInv
  <2> QED  BY <1>1, <2>1, <2>2, <2>3, <2>4, <2>5 DEF Scheduler
<1>2. CASE Client
  <2>1. PICK e \in Event :
          ClientCancel(e) \/ \E d \in date..Horizon : ClientRecord(e, d)
    BY <1>2 DEF Client
  <2>2. CASE ClientCancel(e)  BY <2>2, ClientCancelInv
  <2>3. CASE \E d \in date..Horizon : ClientRecord(e, d)  BY <2>3, ClientRecordInv
  <2> QED  BY <2>1, <2>2, <2>3
<1>3. CASE \E t \in 1..Horizon : Run(t)  BY <1>3, RunInv
<1>4. CASE UNCHANGED vars  BY <1>4, StutterInv
<1> QED  BY <1>1, <1>2, <1>3, <1>4 DEF Next

-----------------------------------------------------------------------------
(* The inductive invariant holds in every reachable state: the chain is    *)
(* acyclic, its back pointers are never wrong, the event being triggered   *)
(* is its head, and no deadline passes.                                    *)
THEOREM ScheduleInvariant == Spec => []ScheduleInv
<1>1. Spec => []ChainInv  BY InitInv, NextInv, PTL DEF Spec
<1> QED  BY <1>1, ChainInvIsScheduleInv, PTL

(* Type correctness. *)
THEOREM TypeCorrect == Spec => []TypeOK
<1>1. ScheduleInv => TypeOK  BY DEF ScheduleInv
<1> QED  BY <1>1, ScheduleInvariant, PTL

(* Bounded lateness, for any number of events, periods and client calls:   *)
(* no event is still in the chain when the cores step past its deadline.   *)
THEOREM DeliveredInTime == Spec => []InTime
<1>1. ScheduleInv => InTime  BY DEF ScheduleInv
<1> QED  BY <1>1, ScheduleInvariant, PTL

(* csim_cancel_event never follows a wrong back pointer. *)
THEOREM BackPointersSound == Spec => []PrevSound
<1>1. ScheduleInv => PrevSound  BY DEF ScheduleInv
<1> QED  BY <1>1, ScheduleInvariant, PTL

LEMMA StepLosesOne ==
  ASSUME ChainInv, [Next]_vars
  PROVE  \/ KeepsBut(evts', evts, NULL)
         \/ KeepsBut(evts', evts, running)
         \/ \E e \in Event : ClientCancel(e) /\ KeepsBut(evts', evts, e)
<1>1. CASE Scheduler
  <2>1. CASE RecordTriggerReturns  BY <2>1, RecordTriggerReturnsInv
  <2>2. CASE RunTriggerReturns  BY <2>2, RunTriggerReturnsInv
  <2>3. CASE RunTrigger \/ EventsDone \/ Tick
    BY <2>3 DEF RunTrigger, EventsDone, Tick, KeepsBut
  <2> QED  BY <1>1, <2>1, <2>2, <2>3 DEF Scheduler
<1>2. CASE Client
  <2>1. PICK e \in Event :
          ClientCancel(e) \/ \E d \in date..Horizon : ClientRecord(e, d)
    BY <1>2 DEF Client
  <2>2. CASE ClientCancel(e)  BY <2>2, ClientCancelInv
  <2>3. CASE \E d \in date..Horizon : ClientRecord(e, d)  BY <2>3, ClientRecordInv
  <2> QED  BY <2>1, <2>2, <2>3
<1>3. CASE \E t \in 1..Horizon : Run(t)  BY <1>3 DEF Run, KeepsBut
<1>4. CASE UNCHANGED vars  BY <1>4 DEF vars, KeepsBut
<1> QED  BY <1>1, <1>2, <1>3, <1>4 DEF Next

(* The chain loses one event at a time: the one whose trigger, called by   *)
(* csim_run, has returned, or the one csim_cancel_event is called on.      *)
THEOREM NothingIsLost == Spec => NothingLost
<1>1. ASSUME ChainInv, ChainInv', [Next]_vars
      PROVE  \A e \in Range(evts) \ Range(evts') :
               /\ e = running \/ ClientCancel(e)
               /\ Range(evts) \ Range(evts') = {e}
  <2> DEFINE Lost == Range(evts) \ Range(evts')
  <2> USE <1>1
  <2>1. \A x : x \in Range(evts) <=> \E i \in 1..Len(evts) : evts[i] = x
    <3>1. Range(evts) = {evts[i] : i \in 1..Len(evts)}
      BY RangeEquality DEF ChainInv, TypeOK
    <3> QED  BY <3>1
  <2>2. \A x : x \in Range(evts') <=> \E i \in 1..Len(evts') : evts'[i] = x
    <3>1. Range(evts') = {evts'[i] : i \in 1..Len(evts')}
      BY RangeEquality DEF ChainInv, TypeOK
    <3> QED  BY <3>1
  <2>3. Range(evts) \subseteq Event
    BY RangeOfSeq DEF ChainInv, TypeOK
  <2>4. ASSUME NEW y, KeepsBut(evts', evts, y)  PROVE Lost \subseteq {y}
    BY <2>1, <2>2, <2>4 DEF KeepsBut
  <2>5. CASE KeepsBut(evts', evts, NULL)
    <3>1. Lost = {}  BY <2>3, <2>4, <2>5, NULLAssumption
    <3> QED  BY <3>1
  <2>6. CASE KeepsBut(evts', evts, running)
    BY <2>4, <2>6
  <2>7. CASE \E e \in Event : ClientCancel(e) /\ KeepsBut(evts', evts, e)
    BY <2>4, <2>7
  <2> QED  BY <2>5, <2>6, <2>7, StepLosesOne
<1>2. Spec => []ChainInv  BY InitInv, NextInv, PTL DEF Spec
<1> QED  BY <1>1, <1>2, PTL DEF Spec, NothingLost

-----------------------------------------------------------------------------
(* The list behind the chain: board->evts, the field next of every event,  *)
(* and the fault that stopped the program, if any.                         *)
VARIABLES head, next, trap

List == INSTANCE CsimEventList WITH fault <- trap, May <- {}

(* The n-th event of a chain, NULL beyond its end. *)
Nth(q, n) == IF n \in 1..Len(q) THEN q[n] ELSE NULL

(* The list from h through nx is the chain q, and the events out of it     *)
(* have a null next.                                                       *)
IsChain(h, nx, q) ==
  /\ q \in Seq(Event)
  /\ \A i, j \in 1..Len(q) : q[i] = q[j] => i = j
  /\ nx \in [Event -> Event \cup {NULL}]
  /\ h = Nth(q, 1)
  /\ \A i \in 1..Len(q) : nx[q[i]] = Nth(q, i + 1)
  /\ \A e \in Event : (\A i \in 1..Len(q) : q[i] # e) => nx[e] = NULL

(* The operators of the libraries are the same through the instance. *)
LEMMA SameCardinality == \A S : List!Cardinality(S) = Cardinality(S)
BY DEF List!Cardinality, Cardinality

LEMMA SameSequences ==
  \A q : /\ List!Range(q) = Range(q)
         /\ List!Last(q) = Last(q)
         /\ List!Front(q) = Front(q)
BY DEF List!Range, Range, List!Last, Last, List!Front, Front

LEMMA SameActive == List!Active = Active
BY SameSequences DEF List!Active, Active

(* A set of numbers that is not empty has a least one. *)
LEMMA LeastOf ==
  ASSUME NEW S \in SUBSET Nat, S # {}
  PROVE  \E n \in S : \A m \in S : n <= m
<1>1. IsWellFoundedOn(OpToRel(<, Nat), Nat)
  BY NatLessThanWellFounded
<1> DEFINE R == OpToRel(<, Nat)
<1>2. \A m, n \in Nat : m < n => <<m, n>> \in R
  BY DEF OpToRel
<1> HIDE DEF R
<1>3. PICK n \in S : \A m \in S : ~(<<m, n>> \in R)
  <2>1. IsWellFoundedOn(R, Nat)  BY <1>1 DEF R
  <2> QED  BY <2>1, WFMin
<1>4. \A m \in S : n <= m
  <2> TAKE m \in S
  <2>1. n \in Nat /\ m \in Nat /\ ~(<<m, n>> \in R)  BY <1>3
  <2>2. ~(m < n)  BY <1>2, <2>1
  <2> QED  BY <2>1, <2>2
<1> QED  BY <1>4

(* A chain is no longer than there are events. *)
LEMMA ChainFits ==
  ASSUME IsFiniteSet(Event), NEW q \in Seq(Event),
         \A i, j \in 1..Len(q) : q[i] = q[j] => i = j
  PROVE  Cardinality(Event) \in Nat /\ Len(q) \in 0..Cardinality(Event)
<1>1. Len(q) \in Nat /\ q \in [1..Len(q) -> Event]
  BY LenProperties
<1>2. q \in Injection(1..Len(q), Event)
  BY <1>1, Fun_IsInj
<1>3. Cardinality(1..Len(q)) <= Cardinality(Event)
  BY <1>2, FS_Injection
<1>4. Cardinality(1..Len(q)) = Len(q)
  <2>1. Cardinality(1..Len(q)) = IF 1 > Len(q) THEN 0 ELSE Len(q) - 1 + 1
    BY <1>1, FS_Interval
  <2> QED  BY <1>1, <2>1
<1>5. Cardinality(Event) \in Nat
  BY FS_CardinalityType
<1> QED  BY <1>1, <1>3, <1>4, <1>5

(* Walking the list meets the events of the chain in their order. *)
LEMMA NodesAreChain ==
  ASSUME IsFiniteSet(Event), NEW h, NEW nx, NEW q, IsChain(h, nx, q)
  PROVE  List!Node(h, nx) = [n \in 0..Cardinality(Event) |-> Nth(q, n + 1)]
<1> DEFINE C == Cardinality(Event)
           nd == [n \in 0..C |-> Nth(q, n + 1)]
           step(f) == [n \in 0..C |-> IF n = 0 THEN h
                                      ELSE IF f[n - 1] = NULL THEN NULL ELSE nx[f[n - 1]]]
           f0 == CHOOSE f : f = step(f)
<1>1. C \in Nat /\ Len(q) \in Nat
  BY ChainFits DEF IsChain
<1> HIDE DEF C
<1>2. ASSUME NEW n \in 0..C, n # 0
      PROVE  nd[n] = IF nd[n - 1] = NULL THEN NULL ELSE nx[nd[n - 1]]
  <2>1. n - 1 \in 0..C /\ (n - 1) + 1 = n  BY <1>1, <1>2
  <2>2. nd[n] = Nth(q, n + 1) /\ nd[n - 1] = Nth(q, n)  BY <2>1
  <2>3. CASE n \in 1..Len(q)
    <3>1. Nth(q, n) = q[n] /\ q[n] \in Event  BY <2>3, ElementOfSeq DEF Nth, IsChain
    <3>2. q[n] # NULL  BY <3>1, NULLAssumption
    <3>3. nx[q[n]] = Nth(q, n + 1)  BY <2>3 DEF IsChain
    <3> QED  BY <2>2, <3>1, <3>2, <3>3
  <2>4. CASE n \notin 1..Len(q)
    <3>1. n + 1 \notin 1..Len(q)  BY <1>1, <1>2, <2>4
    <3>2. Nth(q, n) = NULL /\ Nth(q, n + 1) = NULL  BY <2>4, <3>1 DEF Nth
    <3> QED  BY <2>2, <3>2
  <2> QED  BY <2>3, <2>4
<1>3. nd[0] = h
  BY <1>1 DEF IsChain
<1>4. nd = step(nd)
  <2> HIDE DEF nd
  <2>1. \A n \in 0..C : nd[n] = step(nd)[n]  BY <1>1, <1>2, <1>3
  <2> QED  BY <2>1 DEF nd
<1>5. f0 = step(f0)
  <2> HIDE DEF nd, step
  <2> QED  BY <1>4
<1>6. f0 = nd
  <2> DEFINE g == f0
             S == {n \in 0..C : g[n] # nd[n]}
  <2>0. g = step(g)  BY <1>5
  <2> HIDE DEF f0, g
  <2>1. \A n \in 0..C : g[n] = IF n = 0 THEN h
                               ELSE IF g[n - 1] = NULL THEN NULL ELSE nx[g[n - 1]]
    BY <2>0
  <2>2. S = {}
    <3> SUFFICES ASSUME S # {}  PROVE FALSE
      OBVIOUS
    <3>1. S \in SUBSET Nat  BY <1>1
    <3>2. PICK n \in S : \A m \in S : n <= m
      <4> HIDE DEF S
      <4> QED  BY <3>1, LeastOf
    <3>3. n \in 0..C /\ n # 0  BY <1>1, <1>3, <2>1, <3>2
    <3>4. n - 1 \in 0..C /\ n - 1 \notin S  BY <1>1, <3>2, <3>3
    <3>5. g[n - 1] = nd[n - 1]  BY <3>4
    <3>6. g[n] = nd[n]
      <4> HIDE DEF nd
      <4> QED  BY <1>2, <2>1, <3>3, <3>5
    <3> QED  BY <3>2, <3>6
  <2>3. g = [n \in 0..C |-> g[n]]  BY <2>0
  <2>4. g = nd  BY <2>2, <2>3
  <2> QED  BY <2>4 DEF g
<1>7. List!Node(h, nx) = f0
  BY SameCardinality DEF List!Node, C
<1> QED  BY <1>6, <1>7 DEF C

LEMMA ChainIsWalk ==
  ASSUME IsFiniteSet(Event), NEW h, NEW nx, NEW q, IsChain(h, nx, q)
  PROVE  List!ChainFrom(h, nx) = q
<1> DEFINE C == Cardinality(Event)
           nd == [n \in 0..C |-> Nth(q, n + 1)]
<1>1. C \in Nat /\ Len(q) \in 0..C /\ q \in Seq(Event)
  BY ChainFits DEF IsChain
<1> HIDE DEF C
<1>2. {n \in 0..C : nd[n] # NULL} = 0..(Len(q) - 1)
  <2>1. \A n \in 0..C : nd[n] # NULL <=> n + 1 \in 1..Len(q)
    BY ElementOfSeq, NULLAssumption, <1>1 DEF Nth
  <2>2. \A n \in 0..C : n + 1 \in 1..Len(q) <=> n \in 0..(Len(q) - 1)
    BY <1>1
  <2>3. 0..(Len(q) - 1) \subseteq 0..C
    BY <1>1
  <2> HIDE DEF nd
  <2> QED  BY <2>1, <2>2, <2>3
<1>3. Cardinality(0..(Len(q) - 1)) = Len(q)
  <2>1. Cardinality(0..(Len(q) - 1))
          = IF 0 > Len(q) - 1 THEN 0 ELSE (Len(q) - 1) - 0 + 1
    <3>1. Len(q) - 1 \in Int /\ 0 \in Int  BY <1>1
    <3> QED  BY <3>1, FS_Interval
  <2> QED  BY <1>1, <2>1
<1>4. List!ChainFrom(h, nx) = [n \in 1..Len(q) |-> nd[n - 1]]
  <2>1. List!Node(h, nx) = nd  BY NodesAreChain DEF C
  <2> HIDE DEF nd
  <2> QED  BY <1>2, <1>3, <2>1, SameCardinality DEF List!ChainFrom, C
<1>5. \A n \in 1..Len(q) : nd[n - 1] = q[n]
  <2> TAKE n \in 1..Len(q)
  <2>1. n - 1 \in 0..C /\ (n - 1) + 1 = n  BY <1>1
  <2> QED  BY <2>1 DEF Nth
<1>6. q = [n \in 1..Len(q) |-> q[n]]
  BY <1>1, LenProperties
<1> HIDE DEF nd
<1> QED  BY <1>4, <1>5, <1>6

(* csim_record_event: e takes over the rest of the list after position k. *)
LEMMA InsertionIsChain ==
  ASSUME NEW h, NEW nx, NEW q, IsChain(h, nx, q),
         NEW e \in Event, \A i \in 1..Len(q) : q[i] # e,
         NEW k \in 0..Len(q)
  PROVE  IsChain(IF k = 0 THEN e ELSE h,
                 [x \in Event |-> IF x = e THEN Nth(q, k + 1)
                                  ELSE IF k > 0 /\ x = q[k] THEN e ELSE nx[x]],
                 InsertAt(q, k + 1, e))
<1> DEFINE r == InsertAt(q, k + 1, e)
           m == [x \in Event |-> IF x = e THEN Nth(q, k + 1)
                                 ELSE IF k > 0 /\ x = q[k] THEN e ELSE nx[x]]
<1>1. /\ q \in Seq(Event) /\ Len(q) \in Nat /\ k \in Nat
      /\ \A i \in 1..Len(q) : q[i] \in Event
  BY ElementOfSeq, LenProperties DEF IsChain
<1>2. /\ nx \in [Event -> Event \cup {NULL}]
      /\ \A i, j \in 1..Len(q) : q[i] = q[j] => i = j
      /\ \A i \in 1..Len(q) : nx[q[i]] = Nth(q, i + 1)
      /\ \A x \in Event : (\A i \in 1..Len(q) : q[i] # x) => nx[x] = NULL
      /\ h = Nth(q, 1)
  BY DEF IsChain
<1>3. /\ r \in Seq(Event) /\ Len(r) = Len(q) + 1
      /\ r[k + 1] = e
      /\ \A i \in 1..k : r[i] = q[i]
      /\ \A i \in (k + 1)..Len(q) : r[i + 1] = q[i]
  <2>1. r \in Seq(Event) /\ Len(r) = Len(q) + 1
    BY <1>1, InsertAtProperties
  <2>2. r[k + 1] = e
    BY <1>1, InsertAtProperties
  <2>3. \A i \in 1..k : r[i] = q[i]
    BY <1>1, InsertAtProperties
  <2>4. \A i \in (k + 1)..Len(q) : r[i + 1] = q[i]
    BY <1>1, InsertAtProperties
  <2> HIDE DEF r
  <2> QED  BY <2>1, <2>2, <2>3, <2>4
<1> HIDE DEF r
<1>4. \A i \in 1..Len(r) : \/ i = k + 1 /\ r[i] = e
                           \/ i \in 1..k /\ i \in 1..Len(q) /\ r[i] = q[i]
                           \/ i - 1 \in (k + 1)..Len(q) /\ i - 1 \in 1..Len(q)
                              /\ i \in Nat /\ r[i] = q[i - 1]
  <2> SUFFICES ASSUME NEW i \in 1..Len(r), i # k + 1, ~(i \in 1..k)
               PROVE  i - 1 \in (k + 1)..Len(q) /\ i - 1 \in 1..Len(q)
                      /\ i \in Nat /\ r[i] = q[i - 1]
    BY <1>1, <1>3
  <2>1. i \in 1..(Len(q) + 1)  BY <1>3
  <2>2. /\ i - 1 \in (k + 1)..Len(q) /\ i - 1 \in 1..Len(q)
        /\ i \in Nat /\ (i - 1) + 1 = i
    BY <1>1, <2>1
  <2> QED  BY <2>2, <1>3
<1>5. \A j \in 1..(Len(r) + 1) :
        Nth(r, j) = IF j <= k THEN q[j] ELSE IF j = k + 1 THEN e ELSE Nth(q, j - 1)
  <2> TAKE j \in 1..(Len(r) + 1)
  <2>1. j \in 1..(Len(q) + 2)  BY <1>3
  <2>2. CASE j <= k
    <3>1. j \in 1..k /\ j \in 1..(Len(q) + 1)  BY <1>1, <2>1, <2>2
    <3> QED  BY <3>1, <2>2, <1>3 DEF Nth
  <2>3. CASE j = k + 1
    <3>1. j \in 1..(Len(q) + 1) /\ ~(j <= k)  BY <1>1, <2>3
    <3> QED  BY <3>1, <2>3, <1>3 DEF Nth
  <2>4. CASE j > k + 1 /\ j <= Len(q) + 1
    <3>1. /\ j - 1 \in (k + 1)..Len(q) /\ j - 1 \in 1..Len(q) /\ (j - 1) + 1 = j
          /\ j \in 1..(Len(q) + 1) /\ ~(j <= k) /\ j # k + 1
      BY <1>1, <2>1, <2>4
    <3>2. r[j] = q[j - 1]  BY <3>1, <1>3
    <3> QED  BY <3>1, <3>2, <1>3 DEF Nth
  <2>5. CASE j > Len(q) + 1
    <3>1. /\ j \notin 1..(Len(q) + 1) /\ j - 1 \notin 1..Len(q)
          /\ ~(j <= k) /\ j # k + 1
      BY <1>1, <2>1, <2>5
    <3> QED  BY <3>1, <1>3 DEF Nth
  <2> QED  BY <1>1, <2>1, <2>2, <2>3, <2>4, <2>5
<1>6. \A i, j \in 1..Len(r) : r[i] = r[j] => i = j
  <2> SUFFICES ASSUME NEW i \in 1..Len(r), NEW j \in 1..Len(r), r[i] = r[j]
               PROVE  i = j
    OBVIOUS
  <2>0. i \in Nat /\ j \in Nat  BY <1>1, <1>3
  <2>1. CASE i = k + 1 \/ j = k + 1
    <3>1. \A a \in 1..Len(r) : a # k + 1 => r[a] # e
      <4> SUFFICES ASSUME NEW a \in 1..Len(r), a # k + 1  PROVE r[a] # e
        OBVIOUS
      <4>1. \/ a \in 1..Len(q) /\ r[a] = q[a]
            \/ a - 1 \in 1..Len(q) /\ r[a] = q[a - 1]
        BY <1>4
      <4> QED  BY <4>1
    <3> QED  BY <1>3, <2>1, <3>1
  <2>2. CASE i \in 1..k /\ j \in 1..k
    <3>1. i \in 1..Len(q) /\ j \in 1..Len(q)  BY <1>1, <2>2
    <3> QED  BY <1>2, <1>3, <2>2, <3>1
  <2>3. ASSUME NEW a \in 1..Len(r), NEW b \in 1..Len(r), a \in 1..k,
               b # k + 1, b \notin 1..k, r[a] = r[b]
        PROVE  FALSE
    <3>1. a \in 1..Len(q) /\ r[a] = q[a]  BY <1>1, <1>3, <2>3
    <3>2. b - 1 \in (k + 1)..Len(q) /\ b - 1 \in 1..Len(q) /\ r[b] = q[b - 1]
      BY <1>4, <2>3
    <3>3. a = b - 1  BY <1>2, <2>3, <3>1, <3>2
    <3> QED  BY <1>1, <2>3, <3>2, <3>3
  <2>4. CASE i # k + 1 /\ j # k + 1 /\ i \notin 1..k /\ j \notin 1..k
    <3>1. /\ i - 1 \in 1..Len(q) /\ r[i] = q[i - 1]
          /\ j - 1 \in 1..Len(q) /\ r[j] = q[j - 1]
      BY <1>4, <2>4
    <3>2. i - 1 = j - 1  BY <1>2, <3>1
    <3> QED  BY <2>0, <3>2
  <2> QED  BY <2>1, <2>2, <2>3, <2>4
<1>7. m \in [Event -> Event \cup {NULL}]
  <2>1. Nth(q, k + 1) \in Event \cup {NULL}  BY <1>1 DEF Nth
  <2> QED  BY <1>2, <2>1
<1>8. \A i \in 1..Len(r) : m[r[i]] = Nth(r, i + 1)
  <2> TAKE i \in 1..Len(r)
  <2>0. i \in Nat /\ i + 1 \in 1..(Len(r) + 1)  BY <1>1, <1>3
  <2>1. CASE i = k + 1 /\ r[i] = e
    <3>1. ~(i + 1 <= k) /\ i + 1 # k + 1 /\ (i + 1) - 1 = k + 1  BY <1>1, <2>1
    <3>2. Nth(r, i + 1) = Nth(q, k + 1)  BY <1>5, <2>0, <3>1
    <3> QED  BY <2>1, <3>2
  <2>2. CASE i \in 1..k /\ i \in 1..Len(q) /\ r[i] = q[i]
    <3>1. q[i] \in Event /\ q[i] # e  BY <1>1, <2>2
    <3>2. CASE i = k
      <4>1. Nth(r, i + 1) = e
        <5>1. ~(i + 1 <= k) /\ i + 1 = k + 1  BY <1>1, <3>2
        <5> QED  BY <1>5, <2>0, <5>1
      <4>2. k > 0  BY <2>2, <3>2
      <4> QED  BY <2>2, <3>1, <3>2, <4>1, <4>2
    <3>3. CASE i # k
      <4>1. i + 1 <= k /\ i + 1 \in 1..Len(q) /\ k \in 1..Len(q)
        BY <1>1, <2>2, <3>3
      <4>2. q[i] # q[k]  BY <1>2, <2>2, <3>3, <4>1
      <4>3. m[q[i]] = nx[q[i]]  BY <3>1, <4>2
      <4>4. Nth(q, i + 1) = q[i + 1]  BY <4>1 DEF Nth
      <4>5. Nth(r, i + 1) = q[i + 1]  BY <1>5, <2>0, <4>1
      <4> QED  BY <1>2, <2>2, <4>3, <4>4, <4>5
    <3> QED  BY <3>2, <3>3
  <2>3. CASE i - 1 \in (k + 1)..Len(q) /\ i - 1 \in 1..Len(q) /\ r[i] = q[i - 1]
    <3>1. q[i - 1] \in Event /\ q[i - 1] # e  BY <1>1, <2>3
    <3>2. k > 0 => q[k] # q[i - 1]
      <4> SUFFICES ASSUME k > 0  PROVE q[k] # q[i - 1]
        OBVIOUS
      <4>1. k \in 1..Len(q) /\ k # i - 1  BY <1>1, <2>3
      <4> QED  BY <1>2, <2>3, <4>1
    <3>3. m[q[i - 1]] = nx[q[i - 1]]  BY <3>1, <3>2
    <3>4. nx[q[i - 1]] = Nth(q, (i - 1) + 1)  BY <1>2, <2>3
    <3>5. (i - 1) + 1 = i /\ (i + 1) - 1 = i /\ ~(i + 1 <= k) /\ i + 1 # k + 1
      BY <1>1, <2>0, <2>3
    <3>6. Nth(r, i + 1) = Nth(q, i)  BY <1>5, <2>0, <3>5
    <3> QED  BY <2>3, <3>3, <3>4, <3>5, <3>6
  <2> QED  BY <1>4, <2>1, <2>2, <2>3
<1>9. \A x \in Event : (\A i \in 1..Len(r) : r[i] # x) => m[x] = NULL
  <2> SUFFICES ASSUME NEW x \in Event, \A i \in 1..Len(r) : r[i] # x
               PROVE  m[x] = NULL
    OBVIOUS
  <2>1. x # e
    <3>1. k + 1 \in 1..Len(r)  BY <1>1, <1>3
    <3> QED  BY <1>3, <3>1
  <2>2. \A i \in 1..Len(q) : q[i] # x
    <3> TAKE i \in 1..Len(q)
    <3>1. CASE i <= k
      <4>1. i \in 1..k /\ i \in 1..Len(r)  BY <1>1, <1>3, <3>1
      <4> QED  BY <1>3, <4>1
    <3>2. CASE i > k
      <4>1. i \in (k + 1)..Len(q) /\ i + 1 \in 1..Len(r)  BY <1>1, <1>3, <3>2
      <4> QED  BY <1>3, <4>1
    <3> QED  BY <1>1, <3>1, <3>2
  <2>3. ~(k > 0 /\ x = q[k])  BY <1>1, <2>2
  <2> QED  BY <1>2, <2>1, <2>2, <2>3
<1>10. (IF k = 0 THEN e ELSE h) = Nth(r, 1)
  <2>1. 1 \in 1..(Len(r) + 1)  BY <1>1, <1>3
  <2>2. CASE k = 0  BY <1>5, <2>1, <2>2
  <2>3. CASE k # 0
    <3>1. 1 <= k /\ 1 \in 1..Len(q)  BY <1>1, <2>3
    <3> QED  BY <1>2, <1>5, <2>1, <2>3, <3>1 DEF Nth
  <2> QED  BY <2>2, <2>3
<1>11. IsChain(IF k = 0 THEN e ELSE h, m, r)
  <2> HIDE DEF m
  <2> QED  BY <1>3, <1>6, <1>7, <1>8, <1>9, <1>10 DEF IsChain
<1> QED  BY <1>11 DEF r

(* An event leaves the list: the one before it, or the head pointer, takes *)
(* over the rest, and its own next is null.                                *)
LEMMA RemovalIsChain ==
  ASSUME NEW h, NEW nx, NEW q, IsChain(h, nx, q), NEW i \in 1..Len(q),
         NEW r \in Seq(Event), Len(r) = Len(q) - 1,
         \A j \in 1..(i - 1) : r[j] = q[j],
         \A j \in i..(Len(q) - 1) : r[j] = q[j + 1]
  PROVE  IsChain(IF i = 1 THEN Nth(q, 2) ELSE h,
                 [x \in Event |-> IF x = q[i] THEN NULL
                                  ELSE IF i > 1 /\ x = q[i - 1] THEN Nth(q, i + 1)
                                  ELSE nx[x]],
                 r)
<1> DEFINE m == [x \in Event |-> IF x = q[i] THEN NULL
                                 ELSE IF i > 1 /\ x = q[i - 1] THEN Nth(q, i + 1)
                                 ELSE nx[x]]
           old(j) == IF j < i THEN j ELSE j + 1
<1>1. /\ q \in Seq(Event) /\ Len(q) \in Nat /\ i \in Nat
      /\ \A j \in 1..Len(q) : q[j] \in Event
  BY ElementOfSeq, LenProperties DEF IsChain
<1>2. /\ nx \in [Event -> Event \cup {NULL}]
      /\ \A j, k \in 1..Len(q) : q[j] = q[k] => j = k
      /\ \A j \in 1..Len(q) : nx[q[j]] = Nth(q, j + 1)
      /\ \A x \in Event : (\A j \in 1..Len(q) : q[j] # x) => nx[x] = NULL
      /\ h = Nth(q, 1)
  BY DEF IsChain
<1>3. \A j \in 1..Len(r) : /\ old(j) \in 1..Len(q) /\ old(j) # i
                           /\ r[j] = q[old(j)]
  BY <1>1
<1>4. \A j, k \in 1..Len(r) : old(j) = old(k) => j = k
  BY <1>1
<1>5. \A k \in 1..Len(q) : k # i => \E j \in 1..Len(r) : old(j) = k
  <2> SUFFICES ASSUME NEW k \in 1..Len(q), k # i
               PROVE  \E j \in 1..Len(r) : old(j) = k
    OBVIOUS
  <2>1. CASE k < i
    <3>1. k \in 1..Len(r) /\ old(k) = k  BY <1>1, <2>1
    <3> QED  BY <3>1
  <2>2. CASE k > i
    <3>1. k - 1 \in 1..Len(r) /\ old(k - 1) = k  BY <1>1, <2>2
    <3> QED  BY <3>1
  <2> QED  BY <1>1, <2>1, <2>2
<1>6. \A j \in 1..(Len(r) + 1) : Nth(r, j) = Nth(q, old(j))
  <2> TAKE j \in 1..(Len(r) + 1)
  <2>1. CASE j \in 1..Len(r)
    BY <1>3, <2>1 DEF Nth
  <2>2. CASE j \notin 1..Len(r)
    <3>1. old(j) \notin 1..Len(q)  BY <1>1, <2>2
    <3> QED  BY <2>2, <3>1 DEF Nth
  <2> QED  BY <2>1, <2>2
<1>7. \A j, k \in 1..Len(r) : r[j] = r[k] => j = k
  <2> SUFFICES ASSUME NEW j \in 1..Len(r), NEW k \in 1..Len(r), r[j] = r[k]
               PROVE  j = k
    OBVIOUS
  <2> HIDE DEF old
  <2>1. old(j) = old(k)  BY <1>2, <1>3
  <2> QED  BY <1>4, <2>1
<1>8. m \in [Event -> Event \cup {NULL}]
  <2>1. Nth(q, i + 1) \in Event \cup {NULL}  BY <1>1 DEF Nth
  <2> QED  BY <1>2, <2>1
<1>9. \A j \in 1..Len(r) : m[r[j]] = Nth(r, j + 1)
  <2> TAKE j \in 1..Len(r)
  <2>0. /\ j \in Nat /\ j + 1 \in 1..(Len(r) + 1)
        /\ old(j) \in 1..Len(q) /\ old(j) # i /\ r[j] = q[old(j)]
        /\ r[j] \in Event /\ r[j] # q[i]
    <3>1. /\ j \in Nat /\ j + 1 \in 1..(Len(r) + 1)
          /\ old(j) \in 1..Len(q) /\ old(j) # i /\ r[j] = q[old(j)]
      BY <1>1, <1>3
    <3> HIDE DEF old
    <3>2. q[old(j)] \in Event /\ q[old(j)] # q[i]  BY <1>1, <1>2, <3>1
    <3> QED  BY <3>1, <3>2
  <2>1. Nth(r, j + 1) = Nth(q, old(j + 1))
    <3> HIDE DEF old
    <3> QED  BY <1>6, <2>0
  <2>2. CASE old(j) = i - 1
    <3>1. i > 1 /\ old(j + 1) = i + 1  BY <1>1, <2>0, <2>2
    <3>2. m[r[j]] = Nth(q, i + 1)
      <4> HIDE DEF old
      <4> QED  BY <2>0, <2>2, <3>1
    <3> QED  BY <2>1, <3>1, <3>2
  <2>3. CASE old(j) # i - 1
    <3>1. old(j + 1) = old(j) + 1  BY <1>1, <2>0, <2>3
    <3>2. i > 1 => i - 1 \in 1..Len(q)  BY <1>1
    <3> HIDE DEF old
    <3>3. i > 1 => r[j] # q[i - 1]  BY <1>2, <2>0, <2>3, <3>2
    <3>4. m[r[j]] = nx[q[old(j)]]  BY <2>0, <3>3
    <3>5. nx[q[old(j)]] = Nth(q, old(j) + 1)  BY <1>2, <2>0
    <3> QED  BY <2>1, <3>1, <3>4, <3>5
  <2> QED  BY <2>2, <2>3
<1>10. \A x \in Event : (\A j \in 1..Len(r) : r[j] # x) => m[x] = NULL
  <2> SUFFICES ASSUME NEW x \in Event, \A j \in 1..Len(r) : r[j] # x, x # q[i]
               PROVE  m[x] = NULL
    OBVIOUS
  <2>1. \A k \in 1..Len(q) : q[k] # x
    <3> TAKE k \in 1..Len(q)
    <3>1. CASE k = i  BY <3>1
    <3>2. CASE k # i
      <4> HIDE DEF old
      <4>1. PICK j \in 1..Len(r) : old(j) = k  BY <1>5, <3>2
      <4> QED  BY <1>3, <4>1
    <3> QED  BY <3>1, <3>2
  <2>2. i > 1 => i - 1 \in 1..Len(q)  BY <1>1
  <2>3. i > 1 => x # q[i - 1]  BY <2>1, <2>2
  <2> QED  BY <1>2, <2>1, <2>3
<1>11. (IF i = 1 THEN Nth(q, 2) ELSE h) = Nth(r, 1)
  <2>1. 1 \in 1..(Len(r) + 1)  BY <1>1
  <2>2. Nth(r, 1) = Nth(q, old(1))
    <3> HIDE DEF old
    <3> QED  BY <1>6, <2>1
  <2>3. old(1) = IF i = 1 THEN 2 ELSE 1  BY <1>1
  <2> QED  BY <1>2, <2>2, <2>3
<1> HIDE DEF m, old
<1>12. IsChain(IF i = 1 THEN Nth(q, 2) ELSE h, m, r)
  BY <1>7, <1>8, <1>9, <1>10, <1>11 DEF IsChain
<1> QED  BY <1>12 DEF m

(* The positions where the scan of csim_record_event may stop, from 0, and *)
(* the event where it does.                                                *)
Stops(h, nx, t, e) ==
  LET node == List!Node(h, nx)
  IN {n \in DOMAIN node : node[n] # NULL /\ List!ScanStops(nx, t, e, node[n])}

StopEvent(h, nx, t, e) ==
  List!Node(h, nx)[CHOOSE n \in Stops(h, nx, t, e) :
                     \A m \in Stops(h, nx, t, e) : n <= m]

(* Where the scan of csim_record_event stops is the insertion point of     *)
(* CsimSchedule, and it always stops.                                      *)
LEMMA ScanFindsPoint ==
  ASSUME IsFiniteSet(Event), NEW h, NEW nx, NEW q, IsChain(h, nx, q),
         NEW t \in [Event -> Nat], NEW e \in Event, ~List!AtHead(h, t, e)
  PROVE  /\ Stops(h, nx, t, e) # {}
         /\ \E k \in 1..Len(q) : /\ InsertPoint(q, t, t[e], k)
                                 /\ StopEvent(h, nx, t, e) = q[k]
                                 /\ nx[q[k]] = Nth(q, k + 1)
<1> DEFINE node == List!Node(h, nx)
           stop == Stops(h, nx, t, e)
           least == CHOOSE n \in stop : \A m \in stop : n <= m
           stops(n) == n + 1 = Len(q) \/ t[q[n + 1]] >= t[e]
<1>1. /\ q \in Seq(Event) /\ Len(q) \in Nat
      /\ \A i \in 1..Len(q) : q[i] \in Event /\ q[i] # NULL
      /\ \A i \in 1..Len(q) : nx[q[i]] = Nth(q, i + 1)
      /\ h = Nth(q, 1)
      /\ Len(q) \in 0..Cardinality(Event) /\ Cardinality(Event) \in Nat
  BY ElementOfSeq, LenProperties, ChainFits, NULLAssumption DEF IsChain
<1>2. Len(q) > 0 /\ ~(t[e] < t[q[1]]) /\ t[e] \in Nat
  <2>1. h # NULL /\ ~(t[e] < t[h])  BY DEF List!AtHead
  <2>2. 1 \in 1..Len(q) /\ h = q[1]  BY <1>1, <2>1 DEF Nth
  <2> QED  BY <1>1, <2>1, <2>2
<1>3. \A n : n \in stop <=> n \in 0..(Len(q) - 1) /\ stops(n)
  <2> SUFFICES ASSUME NEW n \in 0..Cardinality(Event)
               PROVE  (node[n] # NULL /\ List!ScanStops(nx, t, e, node[n]))
                        <=> n \in 0..(Len(q) - 1) /\ stops(n)
    <3>1. DOMAIN node = 0..Cardinality(Event)  BY NodesAreChain
    <3>2. 0..(Len(q) - 1) \subseteq 0..Cardinality(Event)  BY <1>1
    <3>3. stop = {n \in DOMAIN node : node[n] # NULL
                                      /\ List!ScanStops(nx, t, e, node[n])}
      BY DEF Stops
    <3> HIDE DEF node, stop, stops
    <3> QED  BY <3>1, <3>2, <3>3
  <2>0. node = [m \in 0..Cardinality(Event) |-> Nth(q, m + 1)]
    BY NodesAreChain
  <2> HIDE DEF node
  <2>1. node[n] = Nth(q, n + 1)  BY <2>0
  <2>2. CASE n + 1 \in 1..Len(q)
    <3>1. node[n] = q[n + 1] /\ node[n] # NULL  BY <1>1, <2>1, <2>2 DEF Nth
    <3>2. nx[node[n]] = Nth(q, (n + 1) + 1)  BY <1>1, <2>2, <3>1
    <3>3. nx[node[n]] = NULL <=> n + 1 = Len(q)
      <4>1. CASE (n + 1) + 1 \in 1..Len(q)
        <5>1. nx[node[n]] # NULL  BY <1>1, <3>2, <4>1 DEF Nth
        <5> QED  BY <1>1, <4>1, <5>1
      <4>2. CASE (n + 1) + 1 \notin 1..Len(q)
        <5>1. nx[node[n]] = NULL  BY <3>2, <4>2 DEF Nth
        <5> QED  BY <1>1, <2>2, <4>2, <5>1
      <4> QED  BY <4>1, <4>2
    <3>4. n \in 0..(Len(q) - 1)  BY <1>1, <2>2
    <3> QED  BY <3>1, <3>3, <3>4 DEF List!ScanStops
  <2>3. CASE n + 1 \notin 1..Len(q)
    <3>1. node[n] = NULL  BY <2>1, <2>3 DEF Nth
    <3>2. n \notin 0..(Len(q) - 1)  BY <1>1, <2>3
    <3> QED  BY <3>1, <3>2
  <2> QED  BY <2>2, <2>3
<1>4. stop # {}
  <2>1. Len(q) - 1 \in 0..(Len(q) - 1) /\ stops(Len(q) - 1)  BY <1>1, <1>2
  <2> HIDE DEF stop, stops
  <2> QED  BY <1>3, <2>1
<1>5. least \in stop /\ \A m \in stop : least <= m
  <2>1. stop \in SUBSET Nat
    <3> HIDE DEF stop, stops
    <3> QED  BY <1>1, <1>3
  <2> HIDE DEF stop
  <2> QED  BY <1>4, <2>1, LeastOf
<1> HIDE DEF stop, least
<1> DEFINE k == least + 1
<1>6. /\ least \in Nat /\ k \in 1..Len(q)
      /\ k = Len(q) \/ t[e] <= t[q[k]]
      /\ \A j \in 1..(k - 1) : t[q[j]] < t[e]
  <2>1. least \in 0..(Len(q) - 1) /\ stops(least)  BY <1>3, <1>5
  <2>2. least \in Nat /\ k \in 1..Len(q)  BY <1>1, <2>1
  <2>3. k = Len(q) \/ t[e] <= t[q[k]]
    <3>1. t[q[k]] \in Nat  BY <1>1, <2>2
    <3> QED  BY <1>2, <2>1, <3>1
  <2>4. ASSUME NEW j \in 1..(k - 1)  PROVE t[q[j]] < t[e]
    <3>1. /\ j - 1 \in 0..(Len(q) - 1) /\ ~(least <= j - 1) /\ (j - 1) + 1 = j
          /\ j \in 1..Len(q) /\ j # Len(q)
      BY <1>1, <2>2
    <3>2. j - 1 \notin stop  BY <1>5, <3>1
    <3>3. ~(t[q[j]] >= t[e])  BY <1>3, <3>1, <3>2
    <3>4. t[q[j]] \in Nat  BY <1>1, <3>1
    <3> QED  BY <1>2, <3>3, <3>4
  <2> QED  BY <2>2, <2>3, <2>4
<1>7. InsertPoint(q, t, t[e], k)
  <2>1. q # <<>>  BY <1>2
  <2> HIDE DEF k
  <2> QED  BY <1>2, <1>6, <2>1 DEF InsertPoint
<1>8. node[least] = q[k] /\ nx[node[least]] = Nth(q, k + 1)
  <2>1. least \in 0..Cardinality(Event)  BY <1>1, <1>6
  <2>0. node = [m \in 0..Cardinality(Event) |-> Nth(q, m + 1)]
    BY NodesAreChain
  <2> HIDE DEF node
  <2>2. node[least] = Nth(q, least + 1)  BY <2>0, <2>1
  <2>3. node[least] = q[k]  BY <1>6, <2>2 DEF Nth
  <2> QED  BY <1>1, <1>6, <2>3
<1> HIDE DEF k, node
<1>9. stop # {} /\ \E i \in 1..Len(q) : /\ InsertPoint(q, t, t[e], i)
                                        /\ node[least] = q[i]
                                        /\ nx[q[i]] = Nth(q, i + 1)
  BY <1>4, <1>6, <1>7, <1>8
<1> QED  BY <1>9 DEF node, stop, least, StopEvent

(* Linking an event into the list links it into the chain. *)
LEMMA LinkRefines ==
  ASSUME IsFiniteSet(Event), NEW h, NEW nx, NEW q, IsChain(h, nx, q),
         NEW p \in [Event -> Event \cup {NULL}], NEW t \in [Event -> Nat],
         NEW e \in Event, \A i \in 1..Len(q) : q[i] # e,
         date \in Nat, due \in [Event -> Nat],
         List!Link(h, nx, p, t, e),
         evts' = List!ChainFrom(head', next')
  PROVE  /\ Link(q, p, t, e)
         /\ trap' = "no"
         /\ IsChain(head', next', evts')
<1> DEFINE d == t[e]
           cur == StopEvent(h, nx, t, e)
           m(k) == [x \in Event |-> IF x = e THEN Nth(q, k + 1)
                                    ELSE IF k > 0 /\ x = q[k] THEN e ELSE nx[x]]
           b(k) == [x \in Event |-> IF k > 0 /\ x = e THEN q[k]
                                    ELSE IF k > 0 /\ k < Len(q) /\ x = q[k + 1] THEN e
                                    ELSE p[x]]
           u(k) == [due EXCEPT ![e] =
                      Later(IF k > 0 THEN Later(t[e], t[q[k]]) ELSE t[e], date + 1)]
<1>1. /\ q \in Seq(Event) /\ Len(q) \in Nat /\ d \in Nat
      /\ \A i \in 1..Len(q) : q[i] \in Event /\ q[i] # NULL
      /\ nx \in [Event -> Event \cup {NULL}]
      /\ h = Nth(q, 1)
  BY ElementOfSeq, LenProperties, NULLAssumption DEF IsChain
<1>2. ASSUME NEW k \in 0..Len(q), InsertPoint(q, t, t[e], k),
             head' = IF k = 0 THEN e ELSE h,
             next' = m(k), prev' = b(k), due' = u(k), trap' = "no"
      PROVE  /\ Link(q, p, t, e)
             /\ trap' = "no"
             /\ IsChain(head', next', evts')
  <2>1. IsChain(head', next', InsertAt(q, k + 1, e))
    BY <1>2, InsertionIsChain
  <2> HIDE DEF m
  <2>2. evts' = InsertAt(q, k + 1, e)
    BY <2>1, ChainIsWalk
  <2>3. Link(q, p, t, e)
    BY <1>2, <2>2 DEF Link
  <2> QED  BY <1>2, <2>1, <2>2, <2>3
<1>3. CASE List!AtHead(h, t, e)
  <2>1. /\ head' = e /\ next' = [nx EXCEPT ![e] = h] /\ prev' = p /\ trap' = "no"
        /\ due' = [due EXCEPT ![e] = IF d <= date THEN date + 1 ELSE d]
    BY <1>3 DEF List!Link
  <2>2. InsertPoint(q, t, t[e], 0)
    <3>1. CASE q = <<>>  BY <3>1 DEF InsertPoint
    <3>2. CASE q # <<>>
      <4>1. 1 \in 1..Len(q)  BY <1>1, <3>2, EmptySeq
      <4>2. h = q[1] /\ h # NULL  BY <1>1, <4>1 DEF Nth
      <4>3. t[e] < t[q[1]]  BY <1>3, <4>2 DEF List!AtHead
      <4> QED  BY <4>3 DEF InsertPoint
    <3> QED  BY <3>1, <3>2
  <2>3. next' = m(0)
    <3>1. Nth(q, 0 + 1) = h  BY <1>1
    <3>2. m(0) = [x \in Event |-> IF x = e THEN h ELSE nx[x]]  BY <3>1
    <3> QED  BY <1>1, <2>1, <3>2
  <2>4. prev' = b(0)  BY <2>1
  <2>5. due' = u(0)
    <3>1. (IF d <= date THEN date + 1 ELSE d) = Later(d, date + 1)
      BY <1>1 DEF Later
    <3>2. u(0) = [due EXCEPT ![e] = Later(d, date + 1)]  OBVIOUS
    <3> QED  BY <2>1, <3>1, <3>2
  <2>6. 0 \in 0..Len(q)  BY <1>1
  <2> HIDE DEF m, b, u
  <2> QED  BY <1>2, <2>1, <2>2, <2>3, <2>4, <2>5, <2>6
<1>4. CASE ~List!AtHead(h, t, e)
  <2>1. Stops(h, nx, t, e) # {}
    BY <1>4, ScanFindsPoint
  <2>2. PICK k \in 1..Len(q) : /\ InsertPoint(q, t, t[e], k)
                               /\ cur = q[k]
                               /\ nx[q[k]] = Nth(q, k + 1)
    BY <1>4, ScanFindsPoint
  <2>3. /\ head' = h
        /\ next' = [nx EXCEPT ![e] = nx[cur], ![cur] = e]
        /\ prev' = [x \in Event |-> IF x = e THEN cur
                                    ELSE IF x = nx[cur] THEN e ELSE p[x]]
        /\ due' = [due EXCEPT ![e] =
                     IF (IF t[e] < t[cur] THEN t[cur] ELSE t[e]) <= date
                     THEN date + 1 ELSE IF t[e] < t[cur] THEN t[cur] ELSE t[e]]
        /\ trap' = "no"
    BY <1>4, <2>1 DEF List!Link, Stops, StopEvent
  <2> HIDE DEF cur
  <2>4. k \in 0..Len(q) /\ k > 0 /\ q[k] # e /\ q[k] \in Event
        /\ t[q[k]] \in Nat
    BY <1>1
  <2>5. next' = m(k)
    BY <1>1, <2>2, <2>3, <2>4
  <2>6. prev' = b(k)
    <3>1. CASE k < Len(q)
      <4>1. k + 1 \in 1..Len(q)  BY <1>1, <3>1
      <4>2. nx[cur] = q[k + 1]  BY <2>2, <4>1 DEF Nth
      <4> QED  BY <2>2, <2>3, <2>4, <3>1, <4>2
    <3>2. CASE ~(k < Len(q))
      <4>1. k + 1 \notin 1..Len(q)  BY <1>1, <3>2
      <4>2. nx[cur] = NULL  BY <2>2, <4>1 DEF Nth
      <4>3. \A x \in Event : x # nx[cur]  BY <4>2, NULLAssumption
      <4> QED  BY <2>2, <2>3, <2>4, <3>2, <4>3
    <3> QED  BY <3>1, <3>2
  <2>7. due' = u(k)
    <3>1. Later(d, t[q[k]]) = IF t[e] < t[cur] THEN t[cur] ELSE t[e]
      BY <2>2 DEF Later
    <3>2. Later(d, t[q[k]]) \in Nat  BY <1>1, <2>4 DEF Later
    <3> DEFINE l == Later(d, t[q[k]])
    <3>3. u(k) = [due EXCEPT ![e] = Later(l, date + 1)]  BY <2>4
    <3>4. due' = [due EXCEPT ![e] = IF l <= date THEN date + 1 ELSE l]
      BY <2>3, <3>1
    <3> HIDE DEF l
    <3>5. (IF l <= date THEN date + 1 ELSE l) = Later(l, date + 1)
      BY <3>2 DEF Later, l
    <3> QED  BY <3>3, <3>4, <3>5
  <2>8. head' = IF k = 0 THEN e ELSE h  BY <2>3, <2>4
  <2> HIDE DEF m, b, u
  <2> QED  BY <1>2, <2>2, <2>3, <2>4, <2>5, <2>6, <2>7, <2>8
<1> QED  BY <1>3, <1>4

(* The refinement mapping: the chain is what a walk from board->evts       *)
(* meets.  evts and fault do not occur in the steps of List, so that this  *)
(* only fixes their value: any behaviour of List has such evts and fault.  *)
Abstracts == evts = List!Chain /\ fault = (trap # "no")

(* The pointers form that chain, and no scan has run away. *)
IsList == IsChain(head, next, evts) /\ trap \in {"no", "null"}

ListInv == ChainInv /\ IsList /\ fault = (trap # "no")

LEMMA RecordRefines ==
  ASSUME IsFiniteSet(Event), NEW h, NEW nx, NEW q, IsChain(h, nx, q),
         NEW p \in [Event -> Event \cup {NULL}], NEW t \in [Event -> Nat],
         NEW e \in Event, \A i \in 1..Len(q) : q[i] # e,
         date \in Nat, due \in [Event -> Nat], trap = "no",
         List!RecordEvent(h, nx, p, t, e),
         evts' = List!ChainFrom(head', next')
  PROVE  /\ RecordEvent(q, p, t, e)
         /\ trap' = "no"
         /\ IsChain(head', next', evts')
<1>1. CASE t[e] <= date
  <2>1. /\ nest' = Append(nest, e) /\ head' = h /\ next' = nx /\ prev' = p
        /\ trap' = trap /\ due' = due
    BY <1>1 DEF List!RecordEvent
  <2>2. evts' = q  BY <2>1, ChainIsWalk
  <2> QED  BY <1>1, <2>1, <2>2 DEF RecordEvent
<1>2. CASE ~(t[e] <= date)
  <2>1. List!Link(h, nx, p, t, e) /\ nest' = nest
    BY <1>2 DEF List!RecordEvent
  <2>2. Link(q, p, t, e) /\ trap' = "no" /\ IsChain(head', next', evts')
    BY <2>1, LinkRefines
  <2> QED  BY <1>2, <2>1, <2>2 DEF RecordEvent
<1> QED  BY <1>1, <1>2

(* Steps that leave the list alone. *)
LEMMA UnlinkedSteps ==
  ASSUME IsFiniteSet(Event), ListInv, Abstracts',
         UNCHANGED <<head, next, trap>>
  PROVE  evts' = evts /\ fault' = fault /\ IsList'
<1>1. evts' = List!ChainFrom(head, next) /\ fault' = fault
  BY DEF Abstracts, ListInv, List!Chain
<1>2. evts' = evts
  BY <1>1, ChainIsWalk DEF ListInv, IsList
<1> QED  BY <1>1, <1>2 DEF ListInv, IsList, IsChain

(* The guard of the calls of the components. *)
LEMMA ClientRunsRefines ==
  ASSUME ListInv, List!ClientRuns
  PROVE  ClientRuns /\ trap = "no" /\ fault = FALSE
BY SameActive DEF ListInv, IsList, List!ClientRuns, ClientRuns

LEMMA ClientRecordRefines ==
  ASSUME IsFiniteSet(Event), ListInv, Abstracts', evts = List!Chain,
         NEW e \in Event, NEW d \in 0..Horizon, List!ClientRecord(e, d)
  PROVE  /\ d \in date..Horizon
         /\ ClientRecord(e, d)
         /\ IsList'
<1>1. /\ ClientRuns /\ trap = "no" /\ fault = FALSE
  BY ClientRunsRefines DEF List!ClientRecord
<1>2. /\ e \notin Range(evts) \ Active /\ e \notin Active /\ d >= date
      /\ at' = [at EXCEPT ![e] = d]
      /\ List!RecordEvent(head, next, prev, at', e)
      /\ calls' = calls + 1
      /\ UNCHANGED <<date, end, pc, running>>
  BY SameSequences, SameActive DEF List!ClientRecord, List!control
<1>3. /\ date \in Nat /\ due \in [Event -> Nat] /\ d \in Nat
      /\ at' \in [Event -> Nat] /\ prev \in [Event -> Event \cup {NULL}]
      /\ d \in date..Horizon
  BY <1>2, BoundsAssumption DEF ListInv, IsList, ChainInv, TypeOK
<1>4. \A i \in 1..Len(evts) : evts[i] # e
  BY <1>2, UnlinkedEvent DEF ListInv, IsList, ChainInv
<1>5. evts' = List!ChainFrom(head', next') /\ fault' = (trap' # "no")
  BY DEF Abstracts, List!Chain
<1>6. /\ RecordEvent(evts, prev, at', e)
      /\ trap' = "no"
      /\ IsChain(head', next', evts')
  BY <1>1, <1>2, <1>3, <1>4, <1>5, RecordRefines DEF ListInv, IsList
<1>7. ClientRecord(e, d)
  BY <1>1, <1>2, <1>5, <1>6 DEF ClientRecord
<1> QED  BY <1>3, <1>6, <1>7 DEF IsList

LEMMA RecordTriggerReturnsRefines ==
  ASSUME IsFiniteSet(Event), ListInv, Abstracts', List!RecordTriggerReturns
  PROVE  RecordTriggerReturns /\ IsList'
<1> DEFINE e == Last(nest)
<1>1. /\ trap = "no" /\ fault = FALSE /\ nest # <<>> /\ nest \in Seq(Event)
      /\ nest' = Front(nest)
      /\ UNCHANGED <<date, end, pc, running, calls>>
      /\ IF Period[e] = 0
         THEN UNCHANGED <<head, next, prev, at, trap, due>>
         ELSE /\ at' = [at EXCEPT ![e] = @ + Period[e]]
              /\ List!Link(head, next, prev, at', e)
  BY SameSequences
     DEF ListInv, IsList, ChainInv, TypeOK, List!RecordTriggerReturns, List!control, List!list
<1>2. e \in Event /\ \A i \in 1..Len(evts) : evts[i] # e
  <2>1. Len(nest) \in 1..Len(nest) /\ e = nest[Len(nest)] /\ e \in Event
    BY <1>1, FrontProperties
  <2> QED  BY <2>1 DEF ListInv, IsList, ChainInv, NestOK
<1> HIDE DEF e
<1>3. CASE Period[e] = 0
  <2>1. UNCHANGED <<head, next, prev, at, trap, due>>  BY <1>1, <1>3
  <2>2. evts' = evts /\ fault' = fault /\ IsList'
    BY <2>1, UnlinkedSteps
  <2> QED  BY <1>1, <1>3, <2>1, <2>2 DEF RecordTriggerReturns, e
<1>4. CASE Period[e] # 0
  <2>1. /\ at' = [at EXCEPT ![e] = at[e] + Period[e]]
        /\ List!Link(head, next, prev, at', e)
    BY <1>1, <1>4
  <2>2. /\ date \in Nat /\ due \in [Event -> Nat]
        /\ at' \in [Event -> Nat] /\ prev \in [Event -> Event \cup {NULL}]
    <3>1. at \in [Event -> Nat] /\ at[e] \in Nat /\ Period[e] \in Nat
      BY <1>2, PeriodAssumption DEF ListInv, IsList, ChainInv, TypeOK
    <3>2. at[e] + Period[e] \in Nat  BY <3>1
    <3>3. at' \in [Event -> Nat]  BY <2>1, <3>1, <3>2
    <3> QED  BY <3>3 DEF ListInv, IsList, ChainInv, TypeOK
  <2>3. evts' = List!ChainFrom(head', next') /\ fault' = (trap' # "no")
    BY DEF Abstracts, List!Chain
  <2>4. /\ Link(evts, prev, at', e) /\ trap' = "no"
        /\ IsChain(head', next', evts')
    BY <1>2, <2>1, <2>2, <2>3, LinkRefines DEF ListInv, IsList
  <2> QED  BY <1>1, <1>4, <2>1, <2>3, <2>4 DEF RecordTriggerReturns, IsList, e
<1> QED  BY <1>3, <1>4

(* csim_cancel_event dies on the same events, and takes out the same one:  *)
(* prev, when it is not null, names the event before.                      *)
LEMMA ClientCancelRefines ==
  ASSUME IsFiniteSet(Event), ListInv, Abstracts',
         NEW e \in Event, List!ClientCancel(e)
  PROVE  ClientCancel(e) /\ IsList'
<1> DEFINE dies == next[e] = NULL \/ (head # e /\ prev[e] = NULL)
<1>1. /\ ClientRuns /\ trap = "no" /\ fault = FALSE
  BY ClientRunsRefines DEF List!ClientCancel
<1>2. /\ e \notin Active
      /\ IF dies
         THEN trap' = "null" /\ UNCHANGED <<head, next, prev>>
         ELSE /\ trap' = "no"
              /\ IF head = e
                 THEN /\ prev' = [prev EXCEPT ![next[e]] = NULL]
                      /\ head' = next[e]
                      /\ next' = [next EXCEPT ![e] = NULL]
                 ELSE /\ prev' = [prev EXCEPT ![next[e]] = prev[e], ![e] = NULL]
                      /\ next' = [next EXCEPT ![prev[e]] = next[e], ![e] = NULL]
                      /\ head' = head
      /\ calls' = calls + 1
      /\ UNCHANGED <<date, end, pc, at, running, nest, due>>
  BY SameActive DEF List!ClientCancel, List!list, List!control
<1>3. /\ evts \in Seq(Event) /\ Len(evts) \in Nat
      /\ \A i \in 1..Len(evts) : evts[i] \in Event /\ evts[i] # NULL
      /\ \A i, j \in 1..Len(evts) : evts[i] = evts[j] => i = j
      /\ next \in [Event -> Event \cup {NULL}]
      /\ \A i \in 1..Len(evts) : next[evts[i]] = Nth(evts, i + 1)
      /\ \A x \in Event : (\A i \in 1..Len(evts) : evts[i] # x) => next[x] = NULL
      /\ head = Nth(evts, 1)
  BY ElementOfSeq, LenProperties, NULLAssumption DEF ListInv, IsList, IsChain
<1>4. /\ \A i \in 1..Len(evts) : prev[evts[i]] # NULL
                                   => i > 1 /\ prev[evts[i]] = evts[i - 1]
      /\ prev \in [Event -> Event \cup {NULL}]
  BY DEF ListInv, IsList, ChainInv, ChainOK
<1>5. evts' = List!ChainFrom(head', next') /\ fault' = (trap' # "no")
  BY DEF Abstracts, List!Chain
<1>6. e \in Range(evts) <=> \E i \in 1..Len(evts) : evts[i] = e
  BY UnlinkedEvent DEF ListInv, IsList, ChainInv
<1>7. Last(evts) = evts[Len(evts)]
  BY DEF Last
<1>8. ASSUME NEW i \in 1..Len(evts), evts[i] = e
      PROVE  /\ 1 \in 1..Len(evts) /\ head = evts[1]
             /\ head = e <=> i = 1
             /\ next[e] = NULL <=> i = Len(evts)
             /\ i < Len(evts) => next[e] = evts[i + 1]
  <2>1. 1 \in 1..Len(evts) /\ head = evts[1]  BY <1>3 DEF Nth
  <2>2. head = e <=> i = 1  BY <1>3, <1>8, <2>1
  <2>3. CASE i < Len(evts)
    <3>1. i + 1 \in 1..Len(evts)  BY <1>3, <2>3
    <3>2. next[e] = evts[i + 1] /\ next[e] # NULL  BY <1>3, <1>8, <3>1 DEF Nth
    <3> QED  BY <1>3, <2>1, <2>2, <2>3, <3>2
  <2>4. CASE ~(i < Len(evts))
    <3>1. i + 1 \notin 1..Len(evts) /\ i = Len(evts)  BY <1>3, <2>4
    <3>2. next[e] = NULL  BY <1>3, <1>8, <3>1 DEF Nth
    <3> QED  BY <1>3, <2>1, <2>2, <2>4, <3>1, <3>2
  <2> QED  BY <2>3, <2>4
<1>9. CASE dies
  <2>1. CancelFaults(e)
    <3> SUFFICES ASSUME NEW i \in 1..Len(evts), evts[i] = e
                 PROVE  e = Last(evts) \/ (e # evts[1] /\ prev[e] = NULL)
      BY <1>6 DEF CancelFaults
    <3> QED  BY <1>7, <1>8, <1>9
  <2>2. trap' = "null" /\ UNCHANGED <<head, next, prev>>  BY <1>2, <1>9
  <2>3. fault' = TRUE  BY <1>5, <2>2
  <2>4. evts' = evts  BY <1>5, <2>2, ChainIsWalk DEF ListInv, IsList
  <2>5. IsList'  BY <2>2, <2>4 DEF ListInv, IsList, IsChain
  <2>6. ClientCancel(e)
    BY <1>1, <1>2, <2>1, <2>2, <2>3, <2>4 DEF ClientCancel
  <2> QED  BY <2>5, <2>6
<1>10. CASE ~dies
  <2>1. PICK i \in 1..Len(evts) : evts[i] = e
    <3>1. next[e] # NULL  BY <1>10
    <3> QED  BY <1>3, <3>1
  <2>2. /\ 1 \in 1..Len(evts) /\ head = evts[1]
        /\ head = e <=> i = 1
        /\ i # Len(evts) /\ i < Len(evts)
        /\ next[e] = evts[i + 1] /\ next[e] \in Event
    <3>1. i # Len(evts)  BY <1>8, <1>10, <2>1
    <3>2. i < Len(evts) /\ i + 1 \in 1..Len(evts)  BY <1>3, <3>1
    <3> QED  BY <1>3, <1>8, <2>1, <3>1, <3>2
  <2>3. i # 1 => prev[e] # NULL /\ prev[e] = evts[i - 1] /\ i - 1 \in 1..Len(evts)
    <3>1. i # 1 => prev[e] # NULL  BY <1>10, <2>2
    <3> QED  BY <1>3, <1>4, <2>1, <3>1
  <2>4. ~CancelFaults(e)
    <3>1. e \in Range(evts)  BY <1>6, <2>1
    <3>2. e # Last(evts)
      <4>1. Len(evts) \in 1..Len(evts)  BY <1>3, <2>2
      <4> QED  BY <1>3, <1>7, <2>1, <2>2, <4>1
    <3>3. e = evts[1] \/ prev[e] # NULL  BY <2>1, <2>3
    <3> QED  BY <3>1, <3>2, <3>3 DEF CancelFaults
  <2> DEFINE r == Cut(evts, i)
             m == [x \in Event |-> IF x = evts[i] THEN NULL
                                   ELSE IF i > 1 /\ x = evts[i - 1] THEN Nth(evts, i + 1)
                                   ELSE next[x]]
  <2>5. IsChain(IF i = 1 THEN Nth(evts, 2) ELSE head, m, r)
    <3>1. /\ r \in Seq(Event) /\ Len(r) = Len(evts) - 1
          /\ \A j \in 1..(i - 1) : r[j] = evts[j]
          /\ \A j \in i..(Len(evts) - 1) : r[j] = evts[j + 1]
      <4>1. r \in Seq(Event) /\ Len(r) = Len(evts) - 1
        BY <1>3, CutProperties
      <4>2. \A j \in 1..(i - 1) : r[j] = evts[j]
        BY <1>3, CutProperties
      <4>3. \A j \in i..(Len(evts) - 1) : r[j] = evts[j + 1]
        BY <1>3, CutProperties
      <4> QED  BY <4>1, <4>2, <4>3
    <3> HIDE DEF r
    <3> QED  BY <3>1, RemovalIsChain DEF ListInv, IsList
  <2>6. trap' = "no" /\ fault' = FALSE  BY <1>2, <1>5, <1>10
  <2>7. Nth(evts, i + 1) = next[e]  BY <1>3, <2>1
  <2>8. head' = IF i = 1 THEN Nth(evts, 2) ELSE head
    <3>1. CASE i = 1
      <4>1. head' = next[e]  BY <1>2, <1>10, <2>2, <3>1
      <4>2. i + 1 = 2  BY <3>1
      <4> QED  BY <2>7, <3>1, <4>1, <4>2
    <3>2. CASE i # 1
      BY <1>2, <1>10, <2>2, <3>2
    <3> QED  BY <3>1, <3>2
  <2>9. next' = m
    <3>1. CASE i = 1
      <4>1. next' = [next EXCEPT ![e] = NULL]  BY <1>2, <1>10, <2>2, <3>1
      <4>2. ~(i > 1)  BY <3>1
      <4> QED  BY <1>3, <2>1, <4>1, <4>2
    <3>2. CASE i # 1
      <4>1. next' = [next EXCEPT ![prev[e]] = next[e], ![e] = NULL]
        BY <1>2, <1>10, <2>2, <3>2
      <4>2. i > 1 /\ prev[e] = evts[i - 1] /\ prev[e] \in Event
        BY <1>3, <2>3, <3>2
      <4> QED  BY <1>3, <2>1, <2>7, <4>1, <4>2
    <3> QED  BY <3>1, <3>2
  <2> HIDE DEF m, r
  <2>10. evts' = r /\ IsChain(head', next', evts')
    <3>1. IsChain(head', next', r)  BY <2>5, <2>8, <2>9
    <3>2. evts' = r  BY <1>5, <3>1, ChainIsWalk
    <3> QED  BY <3>1, <3>2
  <2>11. Unlink(e)
    <3>1. i \in 1..Len(evts) - 1  BY <1>3, <2>2
    <3>2. CASE i = 1
      <4>1. i + 1 = 2  BY <3>2
      <4>2. evts # <<>>  BY <2>2
      <4>3. r = SubSeq(evts, 2, Len(evts))
        BY <1>3, <3>2, <4>2, TailIsCut DEF r
      <4>4. prev' = [prev EXCEPT ![evts[2]] = NULL]
        BY <1>2, <1>10, <2>2, <3>2, <4>1
      <4> QED  BY <2>1, <2>10, <3>1, <3>2, <4>3, <4>4 DEF Unlink
    <3>3. CASE i # 1
      <4>1. prev' = [prev EXCEPT ![evts[i + 1]] = prev[e], ![e] = NULL]
        BY <1>2, <1>10, <2>2, <3>3
      <4>2. i - 1 \in 1..Len(evts) /\ evts[i - 1] = prev[e]  BY <2>3, <3>3
      <4>3. evts' = SubSeq(evts, 1, i - 1) \o SubSeq(evts, i + 1, Len(evts))
        BY <2>10 DEF r, Cut
      <4> QED  BY <2>1, <3>1, <3>3, <4>1, <4>2, <4>3 DEF Unlink
    <3> QED  BY <3>2, <3>3
  <2>12. ClientCancel(e)
    <3>1. fault' = CancelFaults(e)  BY <2>4, <2>6 DEF CancelFaults
    <3> QED  BY <1>1, <1>2, <2>4, <2>11, <3>1 DEF ClientCancel
  <2> QED  BY <2>6, <2>10, <2>12 DEF IsList
<1> QED  BY <1>9, <1>10

(* board->evts = evt->next takes the event off, it being the head. *)
LEMMA RunTriggerReturnsRefines ==
  ASSUME IsFiniteSet(Event), ListInv, Abstracts', List!RunTriggerReturns
  PROVE  RunTriggerReturns /\ IsList'
<1> DEFINE e == running
           h == next[e]
           p == IF h = NULL THEN prev ELSE [prev EXCEPT ![h] = NULL]
           nx == [next EXCEPT ![e] = NULL]
           r == ChainAfter(evts, e)
           pr == IF r = <<>> THEN prev ELSE [prev EXCEPT ![r[1]] = NULL]
<1>1. /\ trap = "no" /\ fault = FALSE /\ e # NULL /\ nest = <<>>
      /\ IF Period[e] = 0
         THEN /\ head' = h /\ next' = nx /\ prev' = p
              /\ UNCHANGED <<at, nest, due, trap>>
         ELSE /\ at' = [at EXCEPT ![e] = @ + Period[e]]
              /\ List!RecordEvent(h, nx, p, at', e)
      /\ running' = NULL
      /\ UNCHANGED <<date, end, pc, calls>>
  BY DEF ListInv, IsList, List!RunTriggerReturns, List!control
<1>2. /\ evts \in Seq(Event) /\ evts # <<>> /\ evts[1] = e
      /\ Len(evts) \in Nat /\ Len(evts) > 0 /\ 1 \in 1..Len(evts) /\ e \in Event
      /\ \A i \in 1..Len(evts) : evts[i] \in Event /\ evts[i] # NULL
      /\ \A i, j \in 1..Len(evts) : evts[i] = evts[j] => i = j
      /\ next \in [Event -> Event \cup {NULL}]
      /\ h = Nth(evts, 2)
  <2>1. evts \in Seq(Event) /\ evts # <<>> /\ evts[1] = e
    BY <1>1 DEF ListInv, IsList, ChainInv, TypeOK, RunningIsHead
  <2>2. Len(evts) \in Nat /\ Len(evts) > 0 /\ 1 \in 1..Len(evts)
    BY <2>1, EmptySeq, LenProperties
  <2>3. /\ \A i \in 1..Len(evts) : evts[i] \in Event /\ evts[i] # NULL
        /\ e \in Event
    BY <2>1, <2>2, ElementOfSeq, NULLAssumption
  <2>4. /\ \A i, j \in 1..Len(evts) : evts[i] = evts[j] => i = j
        /\ next \in [Event -> Event \cup {NULL}]
    BY DEF ListInv, IsList, IsChain
  <2>5. h = Nth(evts, 2)
    <3>1. next[evts[1]] = Nth(evts, 1 + 1)  BY <2>2 DEF ListInv, IsList, IsChain
    <3>2. 1 + 1 = 2  OBVIOUS
    <3> QED  BY <2>1, <3>1, <3>2
  <2> QED  BY <2>1, <2>2, <2>3, <2>4, <2>5
<1>3. r = Cut(evts, 1)
  <2>1. (CHOOSE j \in 1..Len(evts) : evts[j] = e) = 1  BY <1>2
  <2>2. r = SubSeq(evts, 1 + 1, Len(evts))  BY <2>1 DEF ChainAfter
  <2>3. 1 + 1 = 2  OBVIOUS
  <2> QED  BY <1>2, <2>2, <2>3, TailIsCut
<1> HIDE DEF r
<1>4. /\ r \in Seq(Event) /\ Len(r) = Len(evts) - 1
      /\ \A j \in 1..(Len(evts) - 1) : r[j] = evts[j + 1]
  <2>1. r \in Seq(Event) /\ Len(r) = Len(evts) - 1
    BY <1>2, <1>3, CutProperties
  <2>2. \A j \in 1..(Len(evts) - 1) : r[j] = evts[j + 1]
    BY <1>2, <1>3, CutProperties
  <2> QED  BY <2>1, <2>2
<1>5. IsChain(h, nx, r)
  <2> DEFINE m == [x \in Event |-> IF x = evts[1] THEN NULL
                                   ELSE IF 1 > 1 /\ x = evts[1 - 1] THEN Nth(evts, 1 + 1)
                                   ELSE next[x]]
  <2>1. IsChain(IF 1 = 1 THEN Nth(evts, 2) ELSE head, m, r)
    <3>1. \A j \in 1..(1 - 1) : r[j] = evts[j]  OBVIOUS
    <3> QED  BY <1>2, <1>4, <3>1, RemovalIsChain DEF ListInv, IsList
  <2>2. nx = m
    <3>1. m = [x \in Event |-> IF x = evts[1] THEN NULL ELSE next[x]]
      OBVIOUS
    <3>2. nx = [x \in Event |-> IF x = evts[1] THEN NULL ELSE next[x]]
      BY <1>2
    <3> QED  BY <3>1, <3>2
  <2> HIDE DEF m, nx
  <2> QED  BY <1>2, <2>1, <2>2
<1>6. \A i \in 1..Len(r) : r[i] # e
  <2> SUFFICES ASSUME NEW i \in 1..Len(r)  PROVE r[i] # e
    OBVIOUS
  <2>1. i + 1 \in 1..Len(evts) /\ i + 1 # 1 /\ r[i] = evts[i + 1]
    BY <1>2, <1>4
  <2> QED  BY <1>2, <2>1
<1>7. p = pr
  <2>1. CASE Len(evts) = 1
    <3>1. r = <<>>  BY <1>4, <2>1, EmptySeq
    <3>2. h = NULL  BY <1>2, <2>1 DEF Nth
    <3> QED  BY <3>1, <3>2
  <2>2. CASE Len(evts) # 1
    <3>1. 2 \in 1..Len(evts) /\ 1 \in 1..(Len(evts) - 1) /\ 1 + 1 = 2 /\ Len(r) # 0
      BY <1>2, <1>4, <2>2
    <3>2. r # <<>> /\ r[1] = evts[2]  BY <1>4, <3>1, EmptySeq
    <3>3. h = evts[2] /\ h # NULL  BY <1>2, <3>1 DEF Nth
    <3> QED  BY <3>2, <3>3
  <2> QED  BY <2>1, <2>2
<1>8. /\ evts' = List!ChainFrom(head', next') /\ fault' = (trap' # "no")
  BY DEF Abstracts, List!Chain
<1> HIDE DEF e, h, p, nx, pr
<1>9. CASE Period[e] = 0
  <2>1. /\ head' = h /\ next' = nx /\ prev' = pr
        /\ UNCHANGED <<at, nest, due, trap>>
    BY <1>1, <1>7, <1>9
  <2>2. evts' = r /\ fault' = fault
    BY <1>1, <1>5, <1>8, <2>1, ChainIsWalk
  <2>3. IsList'
    BY <1>1, <1>5, <2>1, <2>2 DEF IsList
  <2>4. RunTriggerReturns
    BY <1>1, <1>9, <2>1, <2>2 DEF RunTriggerReturns, e, r, pr
  <2> QED  BY <2>3, <2>4
<1>10. CASE Period[e] # 0
  <2>1. /\ at' = [at EXCEPT ![e] = at[e] + Period[e]]
        /\ List!RecordEvent(h, nx, pr, at', e)
    BY <1>1, <1>7, <1>10
  <2>2. date \in Nat /\ due \in [Event -> Nat] /\ at' \in [Event -> Nat]
    <3>1. at \in [Event -> Nat] /\ at[e] \in Nat /\ Period[e] \in Nat
      BY <1>2, PeriodAssumption DEF ListInv, IsList, ChainInv, TypeOK
    <3>2. at[e] + Period[e] \in Nat  BY <3>1
    <3>3. at' \in [Event -> Nat]  BY <2>1, <3>1, <3>2
    <3> QED  BY <3>3 DEF ListInv, IsList, ChainInv, TypeOK
  <2>3. pr \in [Event -> Event \cup {NULL}]
    <3>1. prev \in [Event -> Event \cup {NULL}]
      BY DEF ListInv, IsList, ChainInv, TypeOK
    <3> QED  BY <3>1 DEF pr
  <2>4. /\ RecordEvent(r, pr, at', e) /\ trap' = "no"
        /\ IsChain(head', next', evts')
    <3>1. trap = "no" /\ e \in Event /\ evts' = List!ChainFrom(head', next')
      BY <1>1, <1>2, <1>8
    <3> QED  BY <1>5, <1>6, <2>1, <2>2, <2>3, <3>1, RecordRefines
  <2>5. RunTriggerReturns
    BY <1>1, <1>8, <1>10, <2>1, <2>4 DEF RunTriggerReturns, e, r, pr
  <2> QED  BY <2>4, <2>5 DEF IsList
<1> QED  BY <1>9, <1>10

(* Every step of the list is a step of the schedule or leaves it alone. *)
LEMMA ListStep ==
  ASSUME IsFiniteSet(Event), ListInv, Abstracts, Abstracts',
         [List!Next]_(List!vars)
  PROVE  [Next]_vars /\ ListInv'
<1>0. fault' = (trap' # "no")
  BY DEF Abstracts
<1>1. CASE List!RecordTriggerReturns
  BY <1>1, RecordTriggerReturnsRefines, <1>0, NextInv DEF Next, Scheduler, ListInv
<1>2. CASE List!RunTriggerReturns
  BY <1>2, RunTriggerReturnsRefines, <1>0, NextInv DEF Next, Scheduler, ListInv
<1>3. ASSUME UNCHANGED <<head, next, trap>>,
             evts' = evts /\ fault' = fault => [Next]_vars
      PROVE  [Next]_vars /\ ListInv'
  <2>1. evts' = evts /\ fault' = fault /\ IsList'  BY <1>3, UnlinkedSteps
  <2> QED  BY <1>0, <1>3, <2>1, NextInv DEF ListInv
<1>4. /\ List!Active = Active
      /\ fault = (trap # "no")
      /\ List!HeadDue <=> HeadDue
      /\ evts # <<>> => head = evts[1]
  <2>1. evts \in Seq(Event) /\ head = Nth(evts, 1) /\ fault = (trap # "no")
    BY DEF ListInv, IsList, IsChain
  <2>2. CASE evts = <<>>
    <3>1. head = NULL  BY <2>1, <2>2 DEF Nth
    <3> QED  BY <2>1, <2>2, <3>1, SameActive DEF List!HeadDue, HeadDue
  <2>3. CASE evts # <<>>
    <3>1. 1 \in 1..Len(evts)  BY <2>1, <2>3, EmptySeq, LenProperties
    <3>2. head = evts[1] /\ evts[1] \in Event  BY <2>1, <3>1, ElementOfSeq DEF Nth
    <3>3. head # NULL  BY <3>2, NULLAssumption
    <3> QED  BY <2>1, <2>3, <3>2, <3>3, SameActive DEF List!HeadDue, HeadDue
  <2> QED  BY <2>2, <2>3
<1>5. CASE List!RunTrigger
  <2>1. UNCHANGED <<head, next, trap>>
    BY <1>5 DEF List!RunTrigger, List!list
  <2>2. evts' = evts /\ fault' = fault => RunTrigger
    <3>1. HeadDue /\ evts # <<>>  BY <1>4, <1>5 DEF List!RunTrigger, HeadDue
    <3> QED
      BY <1>4, <1>5, <3>1 DEF List!RunTrigger, RunTrigger, List!control, List!list
  <2> QED  BY <1>3, <2>1, <2>2 DEF Next, Scheduler
<1>6. CASE List!EventsDone
  <2>1. UNCHANGED <<head, next, trap>>
    BY <1>6 DEF List!EventsDone, List!list
  <2>2. evts' = evts /\ fault' = fault => EventsDone
    BY <1>4, <1>6 DEF List!EventsDone, EventsDone, List!list
  <2> QED  BY <1>3, <2>1, <2>2 DEF Next, Scheduler
<1>7. CASE List!Tick
  <2>1. UNCHANGED <<head, next, trap>>
    BY <1>7 DEF List!Tick, List!list
  <2>2. evts' = evts /\ fault' = fault => Tick
    BY <1>4, <1>7 DEF List!Tick, Tick, List!list
  <2> QED  BY <1>3, <2>1, <2>2 DEF Next, Scheduler
<1>8. CASE \E t \in 1..Horizon : List!Run(t)
  <2>1. PICK t \in 1..Horizon : List!Run(t)  BY <1>8
  <2>2. UNCHANGED <<head, next, trap>>
    BY <2>1 DEF List!Run, List!list
  <2>3. evts' = evts /\ fault' = fault => Run(t)
    BY <1>4, <2>1 DEF List!Run, Run, List!list
  <2> QED  BY <1>3, <2>2, <2>3 DEF Next
<1>9. CASE \E e \in Event : List!ClientCancel(e)
  <2>1. PICK e \in Event : List!ClientCancel(e)  BY <1>9
  <2>2. ClientCancel(e) /\ IsList'  BY <2>1, ClientCancelRefines
  <2>3. [Next]_vars  BY <2>2 DEF Next, Client
  <2> QED  BY <1>0, <2>2, <2>3, NextInv DEF ListInv
<1>10. CASE \E e \in Event, d \in 0..Horizon : List!ClientRecord(e, d)
  <2>1. PICK e \in Event, d \in 0..Horizon : List!ClientRecord(e, d)  BY <1>10
  <2>2. d \in date..Horizon /\ ClientRecord(e, d) /\ IsList'
    BY <2>1, ClientRecordRefines DEF Abstracts
  <2>3. [Next]_vars  BY <2>2 DEF Next, Client
  <2> QED  BY <1>0, <2>2, <2>3, NextInv DEF ListInv
<1>11. CASE UNCHANGED List!vars
  <2>1. /\ UNCHANGED <<head, next, trap>>
        /\ UNCHANGED <<date, end, pc, prev, at, running, nest, calls, due>>
    BY <1>11 DEF List!vars, List!control, List!list
  <2> QED  BY <1>3, <2>1 DEF vars
<1> QED
  BY <1>1, <1>2, <1>5, <1>6, <1>7, <1>8, <1>9, <1>10, <1>11 DEF List!Next

LEMMA ListInit ==
  ASSUME IsFiniteSet(Event), List!Init, Abstracts
  PROVE  Init /\ ListInv
<1>1. IsChain(NULL, [e \in Event |-> NULL], <<>>)
  <2>1. <<>> \in Seq(Event) /\ Len(<<>>) = 0  BY EmptySeq
  <2>2. Nth(<<>>, 1) = NULL  BY <2>1 DEF Nth
  <2> QED  BY <2>1, <2>2 DEF IsChain
<1>2. /\ head = NULL /\ next = [e \in Event |-> NULL] /\ trap = "no"
  BY DEF List!Init
<1>3. evts = <<>> /\ fault = FALSE
  BY <1>1, <1>2, ChainIsWalk DEF Abstracts, List!Chain
<1>4. Init
  <2>1. at = [e \in Event |-> 0]  BY DEF List!Init
  <2>2. at \in [Event -> {0}]  BY <2>1
  <2> QED  BY <1>3, <2>2 DEF Init, List!Init
<1> QED  BY <1>1, <1>2, <1>3, <1>4, InitInv DEF ListInv, IsList

(* With clients that do not schedule in the past nor touch an event whose  *)
(* trigger is in progress, the assignments csim_record_event,              *)
(* csim_cancel_event and csim_run make to board->evts, next and prev are   *)
(* the insertions and removals of CsimSchedule, and the process dies in    *)
(* the same calls: whatever is proved of CsimSchedule holds of the lists.  *)
THEOREM PointersImplementSchedule ==
  ASSUME IsFiniteSet(Event)
  PROVE  List!Spec /\ []Abstracts => Spec
<1>1. List!Init /\ Abstracts => Init /\ ListInv
  BY ListInit
<1>2. ListInv /\ Abstracts /\ Abstracts' /\ [List!Next]_(List!vars)
        => [Next]_vars /\ ListInv'
  BY ListStep
<1> QED  BY <1>1, <1>2, PTL DEF List!Spec, Spec

(* Under the same discipline the pointers are always a list: no event is   *)
(* in it twice, next ends it and is null out of it, and the scan of        *)
(* csim_record_event always ends.                                          *)
THEOREM PointersStayAList ==
  ASSUME IsFiniteSet(Event)
  PROVE  List!Spec /\ []Abstracts => []IsList
<1>1. List!Init /\ Abstracts => Init /\ ListInv
  BY ListInit
<1>2. ListInv /\ Abstracts /\ Abstracts' /\ [List!Next]_(List!vars)
        => [Next]_vars /\ ListInv'
  BY ListStep
<1>3. ListInv => IsList
  BY DEF ListInv
<1> QED  BY <1>1, <1>2, <1>3, PTL DEF List!Spec

=============================================================================
