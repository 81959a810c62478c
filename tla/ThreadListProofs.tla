-------------------------- MODULE ThreadListProofs --------------------------
(***************************************************************************)
(* For any threads and any handle table: the pointer list of schedule.c    *)
(* implements the list of places that the scheduler's specification keeps, *)
(* and SelectNextThread, which follows the pointers, comes to the thread   *)
(* whose turn it is there.                                                 *)
(***************************************************************************)
EXTENDS ThreadsProofs, ThreadList

-----------------------------------------------------------------------------
(* Lists and loops over them *)

(* No two threads of O have the same place. *)
Ordered(F, O) ==
    /\ F \in [Threads -> Nat]
    /\ O \subseteq Threads
    /\ \A t, u \in O : F[t] = F[u] => t = u

(* Next pointers of the threads of O lead on to larger places and pass no  *)
(* thread of L; those of the threads of L stay in L.  L are the threads in *)
(* the list, and O these and the ones that were unlinked from it since the *)
(* kernel was entered.                                                     *)
Linked(F, O, L, nx) ==
    /\ nx \in [Threads -> Threads \cup {NullPointer}]
    /\ L \subseteq O
    /\ \A u \in O : nx[u] # NullPointer => nx[u] \in O /\ F[u] < F[nx[u]]
    /\ \A u \in O, v \in L : F[u] < F[v] => nx[u] # NullPointer /\ F[nx[u]] <= F[v]
    /\ \A u \in L : nx[u] # NullPointer => nx[u] \in L

(* The null pointer is no thread, and the idle thread is one. *)
LEMMA PointersDiffer == Idle \in Threads /\ NullPointer \notin Threads
  BY SchedulerAssumption

(* Among threads whose places are bounded one has the largest place. *)
LEMMA LargestPlace ==
    ASSUME NEW f \in [Threads -> Nat], NEW S, S \subseteq Threads, S # {},
           NEW n \in Nat, \A t \in S : f[t] <= n
    PROVE  \E t \in S : \A u \in S : f[u] <= f[t]
  <1> DEFINE g == [t \in Threads |-> IF t \in S THEN n - f[t] ELSE 0]
  <1>1. g \in [Threads -> Nat] OBVIOUS
  <1>2. \A t \in S : g[t] = n - f[t] OBVIOUS
  <1> HIDE DEF g
  <1>3. PICK t \in S : \A u \in S : g[t] <= g[u] BY <1>1, LeastPlace
  <1>4. ASSUME NEW u \in S PROVE f[u] <= f[t]
    <2>1. g[t] <= g[u] /\ g[t] = n - f[t] /\ g[u] = n - f[u] BY <1>2, <1>3
    <2>2. f[t] \in Nat /\ f[u] \in Nat OBVIOUS
    <2>3. QED BY <2>1, <2>2
  <1>5. QED BY <1>4

(* A set with the start of a loop over next pointers, and with the next of *)
(* each of its members that is no goal, has all threads the loop meets.    *)
LEMMA MetInside ==
    ASSUME NEW nx, NEW x, NEW goal, NEW S \in SUBSET Threads, x # NullPointer => x \in S,
           \A v \in S \ goal : nx[v] # NullPointer => nx[v] \in S
    PROVE  Met(nx, x, goal) \subseteq S
  BY DEF Met

(* The goal with the least place from x on is t. *)
NextGoal(F, O, L, goal, x, t) ==
    /\ goal \cap O \subseteq L
    /\ x \in O
    /\ t \in goal \cap O
    /\ F[x] <= F[t]
    /\ \A v \in goal \cap O : F[x] <= F[v] => F[t] <= F[v]

(* A loop that starts at x comes to the goal with the least place from x   *)
(* on, and to no other.                                                    *)
LEMMA MeetsFirst ==
    ASSUME NEW F, NEW O, NEW L, NEW nx, Ordered(F, O), Linked(F, O, L, nx),
           NEW goal, NEW x, NEW t, NextGoal(F, O, L, goal, x, t)
    PROVE  Met(nx, x, goal) \cap goal = {t}
  <1> USE PointersDiffer
  <1> USE DEF NextGoal
  <1> DEFINE Span == {u \in O : F[x] <= F[u] /\ F[u] <= F[t]}
  <1>0. \A u \in O : u \in Threads /\ F[u] \in Nat BY DEF Ordered
  <1>1. Span \in SUBSET Threads /\ x \in Span /\ t \in Span BY <1>0
  <1>2. \A v \in Span : v \in goal => v = t
    <2>1. ASSUME NEW v \in Span, v \in goal PROVE v = t
      <3>1. F[t] <= F[v] /\ F[v] <= F[t] BY <2>1
      <3>2. F[t] = F[v] BY <1>0, <3>1
      <3>3. QED BY <3>2 DEF Ordered
    <2>2. QED BY <2>1
  <1>3. ASSUME NEW v \in Span, v # t
        PROVE  nx[v] # NullPointer /\ nx[v] \in Span /\ F[v] < F[nx[v]]
    <2>1. F[v] # F[t] BY <1>3 DEF Ordered
    <2>2. F[v] < F[t] BY <1>0, <2>1
    <2>3. t \in L OBVIOUS
    <2>4. nx[v] # NullPointer /\ F[nx[v]] <= F[t] BY <2>2, <2>3 DEF Linked
    <2>5. nx[v] \in O /\ F[v] < F[nx[v]] BY <2>4 DEF Linked
    <2>6. F[x] <= F[nx[v]]
      <3>1. F[x] \in Nat /\ F[v] \in Nat /\ F[nx[v]] \in Nat BY <1>0, <2>5
      <3>2. F[x] <= F[v] OBVIOUS
      <3> HIDE DEF Span, NextGoal
      <3>3. QED BY <2>5, <3>1, <3>2
    <2>7. QED BY <2>4, <2>5, <2>6
  <1>4. Met(nx, x, goal) \subseteq Span
    <2>1. \A v \in Span \ goal : nx[v] # NullPointer => nx[v] \in Span BY <1>3
    <2> HIDE DEF Span
    <2>2. QED BY <1>1, <2>1, MetInside
  <1>5. t \in Met(nx, x, goal)
    <2> SUFFICES ASSUME NEW S \in SUBSET Threads, x # NullPointer => x \in S,
                        \A v \in S \ goal : nx[v] # NullPointer => nx[v] \in S
                 PROVE  t \in S
      BY <1>0 DEF Met
    <2>1. x \in S BY <1>0
    <2>2. PICK u \in S \cap Span : \A v \in S \cap Span : F[v] <= F[u]
      <3>1. S \cap Span \subseteq Threads /\ S \cap Span # {} BY <1>1, <2>1
      <3>2. F[t] \in Nat /\ \A v \in S \cap Span : F[v] <= F[t] BY <1>0
      <3>3. F \in [Threads -> Nat] BY DEF Ordered
      <3> HIDE DEF Span
      <3>4. QED BY <3>1, <3>2, <3>3, LargestPlace
    <2>3. CASE u = t BY <2>3
    <2>4. CASE u # t
      <3>1. u \notin goal BY <1>2, <2>4
      <3>2. nx[u] \in S \cap Span /\ F[u] < F[nx[u]] BY <1>3, <2>4, <3>1
      <3>3. F[nx[u]] <= F[u] BY <2>2, <3>2
      <3>4. F[u] \in Nat /\ F[nx[u]] \in Nat BY <1>0, <3>2
      <3>5. PICK a \in Nat, b \in Nat : a = F[u] /\ b = F[nx[u]] BY <3>4
      <3>6. a < b /\ b <= a BY <3>2, <3>3, <3>5
      <3> HIDE DEF Span, NextGoal
      <3>7. QED BY <3>6
    <2>5. QED BY <2>3, <2>4
  <1>6. t \in goal OBVIOUS
  <1> HIDE DEF Span, NextGoal
  <1>7. QED BY <1>1, <1>2, <1>4, <1>5, <1>6

(* A loop that starts behind all goals, or at no thread, meets none.       *)
LEMMA MeetsNone ==
    ASSUME NEW F, NEW O, NEW L, NEW nx, Ordered(F, O), Linked(F, O, L, nx),
           NEW goal, NEW x \in O \cup {NullPointer},
           x # NullPointer => \A v \in goal \cap O : ~(F[x] <= F[v])
    PROVE  Met(nx, x, goal) \cap goal = {}
  <1> DEFINE Rest == {u \in O : x # NullPointer /\ F[x] <= F[u]}
  <1>0. \A u \in O : u \in Threads /\ F[u] \in Nat BY DEF Ordered
  <1>1. Rest \in SUBSET Threads /\ (x # NullPointer => x \in Rest) BY <1>0
  <1>2. ASSUME NEW v \in Rest, nx[v] # NullPointer PROVE nx[v] \in Rest
    <2>1. nx[v] \in O /\ F[v] < F[nx[v]] BY <1>2 DEF Linked
    <2>2. x \in O BY <1>2
    <2>3. F[x] <= F[nx[v]] BY <1>0, <2>1, <2>2
    <2>4. QED BY <2>1, <2>3
  <1>3. Rest \cap goal = {} OBVIOUS
  <1> HIDE DEF Rest
  <1>4. Met(nx, x, goal) \subseteq Rest BY <1>1, <1>2, MetInside
  <1>5. QED BY <1>3, <1>4

(* From the thread with the least place a loop meets the whole list. *)
LEMMA MeetsAll ==
    ASSUME NEW F, NEW O, NEW L, NEW nx, Ordered(F, O), Linked(F, O, L, nx),
           NEW x \in L, \A v \in L : F[x] <= F[v]
    PROVE  Met(nx, x, {}) = L
  <1>1. L \in SUBSET Threads BY DEF Ordered, Linked
  <1>2. Met(nx, x, {}) \subseteq L
    <2>1. \A v \in L \ {} : nx[v] # NullPointer => nx[v] \in L BY DEF Linked
    <2>2. QED BY <1>1, <2>1, MetInside
  <1>3. ASSUME NEW t \in L PROVE t \in Met(nx, x, {})
    <2>1. Met(nx, x, {t}) \cap {t} = {t}
      <3>1. x \in O /\ t \in {t} \cap O /\ {t} \cap O \subseteq L BY DEF Linked
      <3>2. F[x] <= F[t] /\ \A v \in {t} \cap O : F[x] <= F[v] => F[t] <= F[v]
        BY <1>1 DEF Ordered
      <3>3. NextGoal(F, O, L, {t}, x, t) BY <3>1, <3>2 DEF NextGoal
      <3>4. QED BY <3>3, MeetsFirst
    <2>2. t \in Met(nx, x, {t}) BY <2>1
    <2>3. Met(nx, x, {t}) \subseteq Met(nx, x, {}) BY DEF Met
    <2>4. QED BY <2>2, <2>3
  <1>4. QED BY <1>2, <1>3

-----------------------------------------------------------------------------
(* What the operations do to the pointers *)

(* The list that schedule.c keeps in l: the idle thread is its head. *)
IsList(F, O, L, l) ==
    /\ l.head = Idle
    /\ Idle \in L
    /\ \A v \in O : F[Idle] <= F[v]
    /\ Linked(F, O, L, l.next)

(* RemoveThreadFromScheduler takes out the thread and no other, and does   *)
(* nothing to a list that the thread is not in.                            *)
LEMMA UnlinkKeeps ==
    ASSUME NEW F, NEW O, NEW L, NEW l, Ordered(F, O), IsList(F, O, L, l),
           NEW t \in Threads \ {Idle}
    PROVE  IsList(F, O, L \ {t}, Unlink(l, t))
  <1> USE PointersDiffer
  <1>1. PICK nx : nx = l.next OBVIOUS
  <1>2. Linked(F, O, L, nx) /\ l.head = Idle /\ Idle \in L /\ \A v \in O : F[Idle] <= F[v]
    BY <1>1 DEF IsList
  <1>3. Met(nx, Idle, {}) = L
    <2>1. \A v \in L : F[Idle] <= F[v] BY <1>2 DEF Linked
    <2>2. QED BY <1>2, <2>1, MeetsAll
  <1>4. PICK ny : ny = [u \in Threads |-> IF u \in L /\ nx[u] = t THEN nx[t] ELSE nx[u]]
    OBVIOUS
  <1>5. Unlink(l, t) = [head |-> Idle, next |-> ny]
    BY <1>1, <1>2, <1>3, <1>4 DEF Unlink
  <1>0. /\ \A u \in O : u \in Threads /\ F[u] \in Nat
        /\ L \subseteq O
        /\ nx \in [Threads -> Threads \cup {NullPointer}]
        /\ \A u \in O : nx[u] # NullPointer => nx[u] \in O /\ F[u] < F[nx[u]]
        /\ \A u \in O, v \in L : F[u] < F[v] => nx[u] # NullPointer /\ F[nx[u]] <= F[v]
        /\ \A u \in L : nx[u] # NullPointer => nx[u] \in L
    BY <1>2 DEF Ordered, Linked
  <1>6. ny \in [Threads -> Threads \cup {NullPointer}] BY <1>0, <1>4
  <1>7. ASSUME NEW u \in O
        PROVE  \/ ny[u] = nx[u] /\ ~(u \in L /\ nx[u] = t)
               \/ u \in L /\ t \in L /\ nx[u] = t /\ ny[u] = nx[t] /\ F[u] < F[t]
    <2>1. CASE u \in L /\ nx[u] = t
      <3>1. nx[u] # NullPointer BY <2>1
      <3>2. t \in L /\ F[u] < F[t] BY <1>0, <2>1, <3>1
      <3>3. ny[u] = nx[t] BY <1>0, <1>4, <2>1
      <3>4. QED BY <2>1, <3>2, <3>3
    <2>2. CASE ~(u \in L /\ nx[u] = t) BY <1>0, <1>4, <2>2
    <2>3. QED BY <2>1, <2>2
  <1>8. ASSUME NEW u \in O, ny[u] # NullPointer PROVE ny[u] \in O /\ F[u] < F[ny[u]]
    <2>1. CASE ny[u] = nx[u] BY <1>0, <1>8, <2>1
    <2>2. CASE t \in L /\ ny[u] = nx[t] /\ F[u] < F[t]
      <3>1. nx[t] \in O /\ F[t] < F[nx[t]] BY <1>0, <1>8, <2>2
      <3>2. F[u] \in Nat /\ F[t] \in Nat /\ F[nx[t]] \in Nat BY <1>0, <2>2, <3>1
      <3>3. F[u] < F[nx[t]] BY <2>2, <3>1, <3>2
      <3>4. QED BY <2>2, <3>1, <3>3
    <2>3. QED BY <1>7, <2>1, <2>2
  <1>9. ASSUME NEW u \in O, NEW v \in L \ {t}, F[u] < F[v]
        PROVE  ny[u] # NullPointer /\ F[ny[u]] <= F[v]
    <2>1. nx[u] # NullPointer /\ F[nx[u]] <= F[v] BY <1>0, <1>9
    <2>2. CASE ny[u] = nx[u] BY <2>1, <2>2
    <2>3. CASE t \in L /\ nx[u] = t /\ ny[u] = nx[t]
      <3>1. F[t] # F[v] BY <1>0, <2>3 DEF Ordered
      <3>2. F[t] \in Nat /\ F[v] \in Nat BY <1>0, <2>3
      <3>3. F[t] < F[v] BY <2>1, <2>3, <3>1, <3>2
      <3>4. nx[t] # NullPointer /\ F[nx[t]] <= F[v] BY <1>0, <2>3, <3>3
      <3>5. QED BY <2>3, <3>4
    <2>4. QED BY <1>7, <2>2, <2>3
  <1>10. ASSUME NEW u \in L \ {t}, ny[u] # NullPointer PROVE ny[u] \in L \ {t}
    <2>0. u \in O BY <1>0
    <2>1. CASE ny[u] = nx[u] /\ ~(u \in L /\ nx[u] = t) BY <1>0, <1>10, <2>1
    <2>2. CASE t \in L /\ ny[u] = nx[t]
      <3>1. nx[t] \in L BY <1>0, <1>10, <2>2
      <3>2. F[t] < F[nx[t]] /\ F[t] \in Nat BY <1>0, <1>10, <2>2
      <3>3. nx[t] # t BY <3>2
      <3>4. QED BY <2>2, <3>1, <3>3
    <2>3. QED BY <1>7, <2>0, <2>1, <2>2
  <1>11. Linked(F, O, L \ {t}, ny) BY <1>0, <1>6, <1>8, <1>9, <1>10 DEF Linked
  <1>12. PICK j : j = Unlink(l, t) OBVIOUS
  <1>13. j.head = Idle /\ j.next = ny BY <1>5, <1>12
  <1>14. IsList(F, O, L \ {t}, j) BY <1>2, <1>11, <1>13 DEF IsList
  <1>15. QED BY <1>12, <1>14

(* The loop of DeleteProcess over the handle table is well defined: there  *)
(* is a list after each of its steps.                                      *)
StepsFrom(l, D, n, g) ==
    g = [i \in 0 .. n |-> IF i = 0 THEN l
                          ELSE IF HandleOrder[i] \in D THEN Unlink(g[i - 1], HandleOrder[i])
                          ELSE g[i - 1]]

LEMMA StepsExist ==
    ASSUME NEW l, NEW D, NEW m \in Nat
    PROVE  \E g : StepsFrom(l, D, m, g)
  <1> DEFINE Bad == {n \in Nat : ~ \E g : StepsFrom(l, D, n, g)}
             R == OpToRel(<, Nat)
  <1> SUFFICES ASSUME Bad # {} PROVE FALSE OBVIOUS
  <1>1. PICK n \in Bad : \A q \in Bad : ~(<<q, n>> \in R)
    <2>1. Bad \subseteq Nat OBVIOUS
    <2>2. IsWellFoundedOn(R, Nat) BY NatLessThanWellFounded
    <2> HIDE DEF Bad, R
    <2>3. QED BY <2>1, <2>2, WFMin
  <1>2. n \in Nat /\ ~ \E g : StepsFrom(l, D, n, g) OBVIOUS
  <1>3. CASE n = 0
    <2>1. PICK g : g = [i \in 0 .. 0 |-> l] OBVIOUS
    <2>2. StepsFrom(l, D, 0, g) BY <2>1 DEF StepsFrom
    <2>3. QED BY <1>2, <1>3, <2>2
  <1>4. CASE n # 0
    <2>1. n - 1 \in Nat /\ <<n - 1, n>> \in R BY <1>2, <1>4 DEF OpToRel
    <2>2. n - 1 \notin Bad BY <1>1, <2>1
    <2>3. PICK g : StepsFrom(l, D, n - 1, g) BY <2>1, <2>2
    <2>4. PICK last : last = IF HandleOrder[n] \in D THEN Unlink(g[n - 1], HandleOrder[n])
                             ELSE g[n - 1]
      OBVIOUS
    <2>5. PICK h : h = [i \in 0 .. n |-> IF i = n THEN last ELSE g[i]] OBVIOUS
    <2>6. \A i \in 0 .. n - 1 : h[i] = g[i] BY <1>2, <2>5
    <2>7. \A i \in 0 .. n - 1 :
             g[i] = IF i = 0 THEN l
                    ELSE IF HandleOrder[i] \in D THEN Unlink(g[i - 1], HandleOrder[i])
                    ELSE g[i - 1]
      BY <2>3 DEF StepsFrom
    <2>8. ASSUME NEW i \in 0 .. n
          PROVE  h[i] = IF i = 0 THEN l
                        ELSE IF HandleOrder[i] \in D THEN Unlink(h[i - 1], HandleOrder[i])
                        ELSE h[i - 1]
      <3>1. CASE i = n
        <4>1. h[i] = last /\ i # 0 BY <1>4, <2>5, <3>1
        <4>2. n - 1 \in 0 .. n - 1 BY <1>2, <1>4
        <4>3. h[n - 1] = g[n - 1] BY <2>6, <4>2
        <4>4. QED BY <2>4, <3>1, <4>1, <4>3
      <3>2. CASE i # n
        <4>1. i \in 0 .. n - 1 /\ (i # 0 => i - 1 \in 0 .. n - 1) BY <1>2, <3>2
        <4>2. QED BY <2>6, <2>7, <4>1
      <3>3. QED BY <3>1, <3>2
    <2>9. StepsFrom(l, D, n, h)
      <3>1. h = [i \in 0 .. n |-> h[i]] BY <2>5
      <3>2. QED BY <2>8, <3>1 DEF StepsFrom
    <2>10. QED BY <1>2, <2>9
  <1>5. QED BY <1>3, <1>4

(* DeleteProcess takes out the threads whose handles it meets. *)
LEMMA UnlinkHandlesKeeps ==
    ASSUME NEW F, NEW O, NEW L, NEW l, Ordered(F, O), IsList(F, O, L, l),
           NEW D, D \subseteq Threads \ {Idle},
           \A t \in D : \E i \in DOMAIN HandleOrder : HandleOrder[i] = t
    PROVE  IsList(F, O, L \ D, UnlinkHandles(l, D))
  <1> DEFINE m == Len(HandleOrder)
             Seen(i) == {HandleOrder[j] : j \in 1 .. i} \cap D
             R == OpToRel(<, Nat)
  <1>0. m \in Nat /\ DOMAIN HandleOrder = 1 .. m /\ HandleOrder \in Seq(Threads)
    BY ThreadListAssumption
  <1>1. PICK g : /\ StepsFrom(l, D, m, g)
                 /\ UnlinkHandles(l, D) = g[m]
    <2>1. \E g : StepsFrom(l, D, m, g) BY <1>0, StepsExist
    <2> DEFINE c == CHOOSE g : StepsFrom(l, D, m, g)
    <2>2. StepsFrom(l, D, m, c) BY <2>1
    <2>3. UnlinkHandles(l, D) = c[m] BY DEF UnlinkHandles, StepsFrom
    <2> HIDE DEF c
    <2>4. QED BY <2>2, <2>3
  <1> HIDE DEF m
  <1>2. \A i \in 0 .. m :
           g[i] = IF i = 0 THEN l
                  ELSE IF HandleOrder[i] \in D THEN Unlink(g[i - 1], HandleOrder[i])
                  ELSE g[i - 1]
    BY <1>1 DEF StepsFrom
  <1> DEFINE Bad == {i \in 0 .. m : ~IsList(F, O, L \ Seen(i), g[i])}
  <1>3. Bad = {}
    <2> SUFFICES ASSUME Bad # {} PROVE FALSE OBVIOUS
    <2>1. PICK n \in Bad : \A q \in Bad : ~(<<q, n>> \in R)
      <3>1. Bad \subseteq Nat BY <1>0
      <3>2. IsWellFoundedOn(R, Nat) BY NatLessThanWellFounded
      <3> HIDE DEF Bad, R
      <3>3. QED BY <3>1, <3>2, WFMin
    <2>2. n \in 0 .. m /\ ~IsList(F, O, L \ Seen(n), g[n]) OBVIOUS
    <2>3. CASE n = 0
      <3>1. L \ Seen(0) = L OBVIOUS
      <3>2. g[0] = l BY <1>0, <1>2
      <3> HIDE DEF Seen
      <3>3. QED BY <2>2, <2>3, <3>1, <3>2
    <2>4. CASE n # 0
      <3>1. n - 1 \in 0 .. m /\ <<n - 1, n>> \in R BY <1>0, <2>2, <2>4 DEF OpToRel
      <3>2. n - 1 \notin Bad BY <2>1, <3>1
      <3>3. IsList(F, O, L \ Seen(n - 1), g[n - 1]) BY <3>1, <3>2
      <3>4. PICK t : t = HandleOrder[n] OBVIOUS
      <3>5. t \in Threads BY <1>0, <2>2, <2>4, <3>4
      <3>6. Seen(n) = Seen(n - 1) \cup ({t} \cap D)
        <4>1. 1 .. n = (1 .. n - 1) \cup {n} BY <1>0, <2>2, <2>4
        <4>2. QED BY <3>4, <4>1
      <3>7. g[n] = IF t \in D THEN Unlink(g[n - 1], t) ELSE g[n - 1]
        BY <1>2, <2>2, <2>4, <3>4
      <3> HIDE DEF Seen
      <3>8. CASE t \in D
        <4>1. L \ Seen(n) = (L \ Seen(n - 1)) \ {t} BY <3>6, <3>8
        <4>2. t \in Threads \ {Idle} BY <3>8
        <4>3. IsList(F, O, (L \ Seen(n - 1)) \ {t}, Unlink(g[n - 1], t))
          BY <3>3, <4>2, UnlinkKeeps
        <4>4. QED BY <2>2, <3>7, <3>8, <4>1, <4>3
      <3>9. CASE t \notin D
        <4>1. L \ Seen(n) = L \ Seen(n - 1) BY <3>6, <3>9
        <4>2. QED BY <2>2, <3>3, <3>7, <3>9, <4>1
      <3>10. QED BY <3>8, <3>9
    <2>5. QED BY <2>3, <2>4
  <1>5. Seen(m) = D BY <1>0
  <1> HIDE DEF Seen
  <1>4. IsList(F, O, L \ Seen(m), g[m])
    <2>1. m \in 0 .. m BY <1>0
    <2>2. QED BY <1>3, <2>1
  <1>6. QED BY <1>1, <1>4, <1>5

(* AddThreadToScheduler appends the thread that gets the largest place.    *)
LEMMA AddKeeps ==
    ASSUME NEW F, NEW L, NEW h, NEW nx, Ordered(F, L), IsList(F, L, L, [head |-> h, next |-> nx]),
           NEW n \in Nat, \A u \in L : F[u] < n, NEW t \in Threads \ L,
           NEW ny, NEW cut, cut = [nx EXCEPT ![t] = NullPointer],
           ny = [cut EXCEPT ![LastOf(h, cut)] = t],
           NEW G, G = [F EXCEPT ![t] = n]
    PROVE  IsList(G, L \cup {t}, L \cup {t}, [head |-> h, next |-> ny])
  <1> USE PointersDiffer
  <1>1. h = Idle /\ Idle \in L /\ (\A v \in L : F[Idle] <= F[v]) /\ Linked(F, L, L, nx)
    BY DEF IsList
  <1>0. /\ \A u \in L : u \in Threads /\ F[u] \in Nat
        /\ F \in [Threads -> Nat]
        /\ nx \in [Threads -> Threads \cup {NullPointer}]
        /\ \A u \in L : nx[u] # NullPointer => nx[u] \in L /\ F[u] < F[nx[u]]
        /\ \A u \in L, v \in L : F[u] < F[v] => nx[u] # NullPointer /\ F[nx[u]] <= F[v]
    BY <1>1 DEF Ordered, Linked
  <1>2. /\ cut \in [Threads -> Threads \cup {NullPointer}]
        /\ cut[t] = NullPointer
        /\ \A u \in L : cut[u] = nx[u]
    BY <1>0
  <1>3. Linked(F, L, L, cut) BY <1>0, <1>2 DEF Linked
  <1>4. Met(cut, h, {}) = L BY <1>1, <1>3, MeetsAll
  <1>5. PICK e : e = LastOf(h, cut) OBVIOUS
  <1>6. e \in L /\ cut[e] = NullPointer
    <2>1. PICK u \in L : \A v \in L : F[v] <= F[u]
      <3>1. L \subseteq Threads /\ L # {} BY <1>0, <1>1
      <3>2. \A v \in L : F[v] <= n BY <1>0
      <3>3. QED BY <1>0, <3>1, <3>2, LargestPlace
    <2>2. cut[u] = NullPointer
      <3>1. CASE nx[u] # NullPointer
        <4>1. nx[u] \in L /\ F[u] < F[nx[u]] BY <1>0, <3>1
        <4>2. F[nx[u]] <= F[u] BY <2>1, <4>1
        <4>3. QED BY <1>0, <4>1, <4>2
      <3>2. QED BY <1>2, <3>1
    <2>3. QED BY <1>4, <1>5, <2>2 DEF LastOf
  <1>7. /\ ny \in [Threads -> Threads \cup {NullPointer}]
        /\ ny[e] = t
        /\ ny[t] = NullPointer
        /\ \A u \in L \ {e} : ny[u] = nx[u]
    BY <1>0, <1>2, <1>5, <1>6
  <1>8. G[t] = n /\ \A u \in L : G[u] = F[u] BY <1>0
  <1>9. \A v \in L : F[v] <= F[e] BY <1>0, <1>2, <1>6
  <1>10. ASSUME NEW u \in L \ {e} PROVE nx[u] # NullPointer
    <2>1. F[u] <= F[e] /\ F[u] # F[e] BY <1>6, <1>9 DEF Ordered
    <2>2. F[u] < F[e] BY <1>0, <1>6, <2>1
    <2>3. QED BY <1>0, <1>6, <2>2
  <1>11. ASSUME NEW u \in L \cup {t}, ny[u] # NullPointer
         PROVE  ny[u] \in L \cup {t} /\ G[u] < G[ny[u]]
    <2>1. CASE u = t BY <1>7, <1>11, <2>1
    <2>2. CASE u = e
      <3>1. ny[u] = t /\ G[u] = F[e] /\ G[t] = n BY <1>6, <1>7, <1>8, <2>2
      <3>2. F[e] < n BY <1>6
      <3>3. QED BY <3>1, <3>2
    <2>3. CASE u \in L \ {e}
      <3>1. ny[u] = nx[u] /\ nx[u] \in L /\ F[u] < F[nx[u]] BY <1>0, <1>7, <1>11, <2>3
      <3>2. G[u] = F[u] /\ G[nx[u]] = F[nx[u]] BY <1>8, <2>3, <3>1
      <3>3. QED BY <3>1, <3>2
    <2>4. QED BY <2>1, <2>2, <2>3
  <1>12. ASSUME NEW u \in L \cup {t}, NEW v \in L \cup {t}, G[u] < G[v]
         PROVE  ny[u] # NullPointer /\ G[ny[u]] <= G[v]
    <2>0. \A w \in L : G[w] \in Nat /\ G[w] < n BY <1>0, <1>8
    <2>1. CASE u = t
      <3>1. G[u] = n /\ G[v] <= n BY <1>8, <2>0, <2>1
      <3>2. G[v] \in Nat BY <1>8, <2>0
      <3>3. QED BY <1>12, <3>1, <3>2
    <2>2. CASE u = e
      <3>1. v = t
        <4>1. CASE v \in L
          <5>1. F[v] <= F[e] /\ F[e] < F[v] BY <1>6, <1>8, <1>9, <1>12, <2>2, <4>1
          <5>2. QED BY <1>0, <1>6, <4>1, <5>1
        <4>2. QED BY <4>1
      <3>2. ny[u] = t /\ t # NullPointer BY <1>7, <2>2
      <3>3. G[t] <= G[v] BY <1>8, <3>1
      <3>4. QED BY <3>2, <3>3
    <2>3. CASE u \in L \ {e}
      <3>1. ny[u] = nx[u] /\ nx[u] # NullPointer /\ nx[u] \in L BY <1>0, <1>7, <1>10, <2>3
      <3>2. CASE v = t
        <4>1. G[nx[u]] < n /\ G[nx[u]] \in Nat BY <2>0, <3>1
        <4>2. QED BY <1>8, <3>1, <3>2, <4>1
      <3>3. CASE v \in L
        <4>1. F[u] < F[v] BY <1>8, <1>12, <2>3, <3>3
        <4>2. F[nx[u]] <= F[v] BY <1>0, <2>3, <3>3, <4>1
        <4>3. QED BY <1>8, <3>1, <3>3, <4>2
      <3>4. QED BY <3>2, <3>3
    <2>4. QED BY <2>1, <2>2, <2>3
  <1>13. Linked(G, L \cup {t}, L \cup {t}, ny) BY <1>7, <1>11, <1>12 DEF Linked
  <1>14. \A v \in L \cup {t} : G[Idle] <= G[v]
    <2>1. G[Idle] = F[Idle] /\ F[Idle] < n /\ F[Idle] \in Nat BY <1>0, <1>1, <1>8
    <2>2. QED BY <1>1, <1>8, <2>1
  <1>15. QED BY <1>1, <1>13, <1>14 DEF IsList

-----------------------------------------------------------------------------
(* The pointers follow the places *)

(* The scheduler's invariant; the pointers are the listed threads in the   *)
(* order of their places, from the idle thread on; only threads with a     *)
(* handle can be deleted.                                                  *)
ListIInv ==
    /\ IInv
    /\ IsList(thread_list, Listed, Listed, TheList)
    /\ objects \subseteq Threads \ ({Idle} \cup Main)

LEMMA ListOrdered == IInv => Ordered(thread_list, Listed)
  BY DEF IInv, TypeOK, ListSound, Ordered, Listed

LEMMA ListStepSchedules == [ListNext]_listVars => [Next]_vars
  <1>1. ListStays => Next BY DEF ListStays, Next
  <1>2. \A t \in Threads : ListRun(t) => Next BY DEF ListRun, Next
  <1>3. \A t \in Threads : ListDelete(t) => Next BY DEF ListDelete, Next
  <1>4. ListExit => Next BY DEF ListExit, Next
  <1>5. ListException => Next BY DEF ListException, Next
  <1>6. UNCHANGED listVars => UNCHANGED vars BY DEF listVars
  <1>7. QED BY <1>1, <1>2, <1>3, <1>4, <1>5, <1>6 DEF ListNext

LEMMA InitListIInv == ListInit => ListIInv
  <1> SUFFICES ASSUME ListInit PROVE ListIInv OBVIOUS
  <1> USE SchedulerAssumption
  <1>1. IInv BY InitIInv DEF ListInit
  <1>2. PICK n \in Nat : n = Len(BootThreads) OBVIOUS
  <1>3. PICK s : s = InitialOrder OBVIOUS
  <1>4. /\ s \in Seq(Threads) /\ Len(s) = n + 1 /\ DOMAIN s = 1 .. n + 1
        /\ s[1] = Idle /\ \A i \in 2 .. n + 1 : s[i] = BootThreads[i - 1]
    BY <1>2, <1>3 DEF InitialOrder
  <1>5. \A i, j \in 1 .. n + 1 : s[i] = s[j] => i = j
    <2>1. DOMAIN BootThreads = 1 .. n BY <1>2
    <2>2. \A i \in 2 .. n + 1 : i - 1 \in DOMAIN BootThreads /\ s[i] \in Threads \ {Idle}
      BY <1>2, <1>4, <2>1
    <2>3. ASSUME NEW i \in 1 .. n + 1, NEW j \in 1 .. n + 1, s[i] = s[j] PROVE i = j
      <3>1. CASE i = 1 \/ j = 1
        <4>1. CASE i # 1 BY <1>4, <2>2, <2>3, <3>1, <4>1
        <4>2. CASE j # 1 BY <1>4, <2>2, <2>3, <3>1, <4>2
        <4>3. QED BY <4>1, <4>2
      <3>2. CASE i # 1 /\ j # 1
        <4>1. i \in 2 .. n + 1 /\ j \in 2 .. n + 1 BY <3>2
        <4>2. BootThreads[i - 1] = BootThreads[j - 1] BY <1>4, <2>3, <4>1
        <4>3. i - 1 = j - 1 BY <2>2, <4>1, <4>2
        <4>4. QED BY <4>1, <4>3
      <3>3. QED BY <3>1, <3>2
    <2>4. QED BY <2>3
  <1>6. Main = {s[i] : i \in 2 .. n + 1}
    <2>1. DOMAIN BootThreads = 1 .. n BY <1>2
    <2>2. ASSUME NEW i \in 1 .. n PROVE i + 1 \in 2 .. n + 1 /\ s[i + 1] = BootThreads[i]
      <3>1. i + 1 \in 2 .. n + 1 /\ (i + 1) - 1 = i OBVIOUS
      <3>2. QED BY <1>4, <3>1
    <2>3. \A i \in 2 .. n + 1 : i - 1 \in 1 .. n OBVIOUS
    <2>4. ASSUME NEW t \in Main PROVE \E i \in 2 .. n + 1 : t = s[i]
      <3>1. PICK i \in 1 .. n : t = BootThreads[i] BY <2>1 DEF Main
      <3>2. PICK k : k = i + 1 OBVIOUS
      <3>3. k \in 2 .. n + 1 /\ s[k] = t BY <2>2, <3>1, <3>2
      <3>4. QED BY <3>3
    <2>5. \A i \in 2 .. n + 1 : s[i] = BootThreads[i - 1] /\ s[i] \in Main
      BY <1>4, <2>1, <2>3 DEF Main
    <2>6. QED BY <2>4, <2>5
  <1>7. /\ Listed = {s[i] : i \in 1 .. n + 1}
        /\ \A i \in 1 .. n + 1 : thread_list[s[i]] = i
    <2>1. thread_list[Idle] = 1 BY DEF ListInit, Init
    <2>2. ASSUME NEW i \in 2 .. n + 1 PROVE thread_list[s[i]] = i
      <3>1. PICK t : t = s[i] OBVIOUS
      <3>2. t \in Threads /\ t # Idle /\ t \in Main
        <4>1. i \in 1 .. n + 1 /\ 1 \in 1 .. n + 1 /\ i # 1 OBVIOUS
        <4>2. s[i] # s[1] BY <1>5, <4>1
        <4>3. QED BY <1>4, <1>6, <3>1, <4>1, <4>2
      <3>3. PICK k : k = CHOOSE j \in DOMAIN BootThreads : BootThreads[j] = t OBVIOUS
      <3>4. DOMAIN BootThreads = 1 .. n /\ i - 1 \in 1 .. n BY <1>2
      <3>5. BootThreads[i - 1] = t BY <1>4, <3>1
      <3>6. k \in DOMAIN BootThreads /\ BootThreads[k] = t BY <3>3, <3>4, <3>5
      <3>7. k = i - 1 BY <3>4, <3>5, <3>6
      <3>8. thread_list[t] = 1 + k BY <3>2, <3>3 DEF ListInit, Init
      <3>9. QED BY <3>1, <3>7, <3>8
    <2>3. ASSUME NEW i \in 1 .. n + 1 PROVE thread_list[s[i]] = i
      <3>1. i = 1 \/ i \in 2 .. n + 1 OBVIOUS
      <3>2. QED BY <1>4, <2>1, <2>2, <3>1
    <2>4. \A t \in Threads : thread_list[t] # 0 => t \in {Idle} \cup Main
      BY DEF ListInit, Init
    <2>5. \A t \in {Idle} \cup Main : \E i \in 1 .. n + 1 : t = s[i] BY <1>4, <1>6
    <2>6. ASSUME NEW i \in 1 .. n + 1 PROVE s[i] \in Threads /\ thread_list[s[i]] # 0
      BY <1>4, <2>3
    <2>7. \A t \in Listed : \E i \in 1 .. n + 1 : t = s[i] BY <2>4, <2>5 DEF Listed
    <2>8. \A i \in 1 .. n + 1 : s[i] \in Listed BY <2>6 DEF Listed
    <2>9. Listed = {s[i] : i \in 1 .. n + 1} BY <2>7, <2>8
    <2>10. QED BY <2>3, <2>9
  <1>8. /\ next \in [Threads -> Threads \cup {NullPointer}]
        /\ \A i \in 1 .. n : next[s[i]] = s[i + 1]
        /\ next[s[n + 1]] = NullPointer
    <2>0. next = [t \in Threads |-> IF \E i \in 1 .. n : s[i] = t
                                    THEN s[1 + CHOOSE i \in 1 .. n + 1 : s[i] = t]
                                    ELSE NullPointer]
      <3>1. Len(s) - 1 = n BY <1>4
      <3>2. QED BY <1>3, <1>4, <3>1 DEF ListInit
    <2>1. ASSUME NEW i \in 1 .. n PROVE (CHOOSE j \in 1 .. n + 1 : s[j] = s[i]) = i
      <3>1. PICK k : k = CHOOSE j \in 1 .. n + 1 : s[j] = s[i] OBVIOUS
      <3>2. i \in 1 .. n + 1 OBVIOUS
      <3>3. k \in 1 .. n + 1 /\ s[k] = s[i] BY <3>1, <3>2
      <3>4. QED BY <1>5, <3>1, <3>2, <3>3
    <2>2. ASSUME NEW i \in 1 .. n PROVE next[s[i]] = s[i + 1]
      <3>1. s[i] \in Threads BY <1>4
      <3>2. next[s[i]] = s[1 + CHOOSE j \in 1 .. n + 1 : s[j] = s[i]] BY <2>0, <3>1
      <3>3. 1 + i = i + 1 OBVIOUS
      <3>4. QED BY <2>1, <3>2, <3>3
    <2>3. next[s[n + 1]] = NullPointer
      <3>1. s[n + 1] \in Threads /\ n + 1 \in 1 .. n + 1 BY <1>4
      <3>2. ~ \E i \in 1 .. n : s[i] = s[n + 1]
        <4>1. ASSUME NEW i \in 1 .. n, s[i] = s[n + 1] PROVE FALSE
          <5>1. i \in 1 .. n + 1 /\ i # n + 1 OBVIOUS
          <5>2. QED BY <1>5, <3>1, <4>1, <5>1
        <4>2. QED BY <4>1
      <3>3. QED BY <2>0, <3>1, <3>2
    <2>4. ASSUME NEW t \in Threads PROVE next[t] \in Threads \cup {NullPointer}
      <3>1. CASE \E i \in 1 .. n : s[i] = t
        <4>1. PICK i \in 1 .. n : s[i] = t BY <3>1
        <4>2. i + 1 \in 1 .. n + 1 /\ s[i + 1] \in Threads BY <1>4
        <4>3. next[t] = s[i + 1] BY <2>2, <4>1
        <4>4. QED BY <4>2, <4>3
      <3>2. QED BY <2>0, <3>1
    <2>5. QED BY <2>0, <2>2, <2>3, <2>4
  <1>9. ASSUME NEW u \in Listed, next[u] # NullPointer
        PROVE  next[u] \in Listed /\ thread_list[u] < thread_list[next[u]]
    <2>1. PICK i \in 1 .. n + 1 : u = s[i] BY <1>7
    <2>2. i \in 1 .. n
      <3>1. i # n + 1 BY <1>8, <1>9, <2>1
      <3>2. QED BY <3>1
    <2>3. i + 1 \in 1 .. n + 1 /\ next[u] = s[i + 1] BY <1>8, <2>1, <2>2
    <2>4. thread_list[u] = i /\ thread_list[next[u]] = i + 1 BY <1>7, <2>1, <2>3
    <2>5. QED BY <1>7, <2>3, <2>4
  <1>10. ASSUME NEW u \in Listed, NEW v \in Listed, thread_list[u] < thread_list[v]
         PROVE  next[u] # NullPointer /\ thread_list[next[u]] <= thread_list[v]
    <2>1. PICK i \in 1 .. n + 1 : u = s[i] BY <1>7
    <2>2. PICK j \in 1 .. n + 1 : v = s[j] BY <1>7
    <2>3. thread_list[u] = i /\ thread_list[v] = j BY <1>7, <2>1, <2>2
    <2>4. i \in 1 .. n /\ i + 1 \in 1 .. n + 1 /\ i + 1 <= j BY <1>10, <2>3
    <2>5. next[u] = s[i + 1] /\ thread_list[s[i + 1]] = i + 1 BY <1>7, <1>8, <2>1, <2>4
    <2>6. next[u] # NullPointer BY <1>4, <2>4, <2>5
    <2>7. QED BY <2>3, <2>4, <2>5, <2>6
  <1>11. Linked(thread_list, Listed, Listed, next) BY <1>8, <1>9, <1>10 DEF Linked
  <1>12. Idle \in Listed /\ \A v \in Listed : thread_list[Idle] <= thread_list[v]
    <2>1. 1 \in 1 .. n + 1 OBVIOUS
    <2>2. thread_list[Idle] = 1 /\ Idle \in Listed BY <1>4, <1>7, <2>1
    <2>3. QED BY <1>7, <2>2
  <1>13. IsList(thread_list, Listed, Listed, TheList)
    BY <1>11, <1>12 DEF ListInit, TheList, IsList
  <1>14. objects \subseteq Threads \ ({Idle} \cup Main) BY DEF ListInit, Init
  <1>15. QED BY <1>1, <1>13, <1>14 DEF ListIInv

(* Pointers that follow the places before an entry to the kernel, for the  *)
(* threads that are still listed, follow the places after it.              *)
LEMMA ListSettles ==
    ASSUME NEW F, NEW O, NEW L, NEW l, IsList(F, O, L, l), NEW G, \A t \in L : G[t] = F[t]
    PROVE  IsList(G, L, L, l)
  <1>1. PICK nx : nx = l.next OBVIOUS
  <1>2. Linked(F, O, L, nx) /\ l.head = Idle /\ Idle \in L /\ \A v \in O : F[Idle] <= F[v]
    BY <1>1 DEF IsList
  <1>3. ASSUME NEW u \in L, nx[u] # NullPointer PROVE nx[u] \in L /\ G[u] < G[nx[u]]
    BY <1>2, <1>3 DEF Linked
  <1>4. ASSUME NEW u \in L, NEW v \in L, G[u] < G[v]
        PROVE  nx[u] # NullPointer /\ G[nx[u]] <= G[v]
    <2>1. F[u] < F[v] /\ u \in O BY <1>2, <1>4 DEF Linked
    <2>2. nx[u] # NullPointer /\ F[nx[u]] <= F[v] BY <1>2, <2>1 DEF Linked
    <2>3. nx[u] \in L BY <1>3, <2>2
    <2>4. QED BY <2>2, <2>3
  <1>5. Linked(G, L, L, nx) BY <1>2, <1>3, <1>4 DEF Linked
  <1>6. \A v \in L : G[Idle] <= G[v] BY <1>2 DEF Linked
  <1>7. QED BY <1>1, <1>2, <1>5, <1>6 DEF IsList

(* The threads of the running process that have handles can be met in the  *)
(* handle table, and the idle thread is none of them.                      *)
LEMMA HandlesAreThere ==
    ASSUME objects \subseteq Threads \ ({Idle} \cup Main)
    PROVE  /\ ThreadHandles \subseteq Threads \ {Idle}
           /\ \A t \in ThreadHandles : \E i \in DOMAIN HandleOrder : HandleOrder[i] = t
  BY ThreadListAssumption DEF ThreadHandles

(* What SYSCALL_EXIT leaves of the pointers, seen with the places from     *)
(* before.                                                                 *)
LEMMA ExitUnlinks ==
    ASSUME ListIInv, ListExit
    PROVE  /\ Listed' \subseteq Listed /\ \A t \in Listed' : thread_list'[t] = thread_list[t]
           /\ Listed' = Listed \ (ThreadHandles \cup {current_thread})
           /\ IsList(thread_list, Listed, Listed', TheList')
  <1>1. /\ current_thread # Idle
        /\ thread_list' = [t \in Threads |->
              IF t \in ThreadHandles \cup {current_thread} THEN 0 ELSE thread_list[t]]
    BY DEF ListExit, SyscallExit, InSyscall
  <1>2. /\ Listed' = Listed \ (ThreadHandles \cup {current_thread})
        /\ \A t \in Listed' : thread_list'[t] = thread_list[t]
    BY <1>1 DEF Listed
  <1>3. current_thread \in Threads \ {Idle} BY <1>1 DEF ListIInv, IInv, TypeOK
  <1>4. Ordered(thread_list, Listed) BY ListOrdered DEF ListIInv
  <1>5. PICK l : l = Unlink(TheList, current_thread) OBVIOUS
  <1>6. IsList(thread_list, Listed, Listed \ {current_thread}, l)
    BY <1>3, <1>4, <1>5, UnlinkKeeps DEF ListIInv
  <1>7. PICK D : D = ThreadHandles \ {current_thread} OBVIOUS
  <1>8. /\ D \subseteq Threads \ {Idle}
        /\ \A t \in D : \E i \in DOMAIN HandleOrder : HandleOrder[i] = t
    BY <1>7, HandlesAreThere DEF ListIInv
  <1>9. PICK k : k = UnlinkHandles(l, D) OBVIOUS
  <1>10. IsList(thread_list, Listed, (Listed \ {current_thread}) \ D, k)
    BY <1>4, <1>6, <1>8, <1>9, UnlinkHandlesKeeps
  <1>11. (Listed \ {current_thread}) \ D = Listed' BY <1>2, <1>7
  <1>12. head' = k.head /\ next' = k.next BY <1>5, <1>7, <1>9 DEF ListExit, TheListBecomes
  <1>13. TheList'.head = k.head /\ TheList'.next = k.next BY <1>12 DEF TheList
  <1>14. IsList(thread_list, Listed, Listed', TheList')
    <2>1. PICK S : S = Listed' OBVIOUS
    <2>2. IsList(thread_list, Listed, S, k) BY <1>10, <1>11, <2>1
    <2>3. PICK j : j = TheList' OBVIOUS
    <2>4. j.head = k.head /\ j.next = k.next BY <1>13, <2>3
    <2>5. IsList(thread_list, Listed, S, j) BY <2>2, <2>4 DEF IsList
    <2>6. QED BY <2>1, <2>3, <2>5
  <1>15. QED BY <1>2, <1>14

(* The same for an exception of the running process. *)
LEMMA ExceptionUnlinks ==
    ASSUME ListIInv, ListException
    PROVE  /\ Listed' \subseteq Listed /\ \A t \in Listed' : thread_list'[t] = thread_list[t]
           /\ Listed' = Listed \ (ThreadHandles \ {current_thread})
           /\ IsList(thread_list, Listed, Listed', TheList')
  <1>1. thread_list' = [t \in Threads |->
              IF t \in ThreadHandles \ {current_thread} THEN 0 ELSE thread_list[t]]
    BY DEF ListException, UserException
  <1>2. /\ Listed' = Listed \ (ThreadHandles \ {current_thread})
        /\ \A t \in Listed' : thread_list'[t] = thread_list[t]
    BY <1>1 DEF Listed
  <1>3. Ordered(thread_list, Listed) BY ListOrdered DEF ListIInv
  <1>4. PICK D : D = ThreadHandles \ {current_thread} OBVIOUS
  <1>5. /\ D \subseteq Threads \ {Idle}
        /\ \A t \in D : \E i \in DOMAIN HandleOrder : HandleOrder[i] = t
    BY <1>4, HandlesAreThere DEF ListIInv
  <1>6. PICK k : k = UnlinkHandles(TheList, D) OBVIOUS
  <1>7. IsList(thread_list, Listed, Listed \ D, k)
    BY <1>3, <1>5, <1>6, UnlinkHandlesKeeps DEF ListIInv
  <1>8. head' = k.head /\ next' = k.next BY <1>4, <1>6 DEF ListException, TheListBecomes
  <1>9. TheList'.head = k.head /\ TheList'.next = k.next BY <1>8 DEF TheList
  <1>10. IsList(thread_list, Listed, Listed', TheList')
    <2>1. PICK S : S = Listed' OBVIOUS
    <2>2. IsList(thread_list, Listed, S, k) BY <1>2, <1>4, <1>7, <2>1
    <2>3. PICK j : j = TheList' OBVIOUS
    <2>4. j.head = k.head /\ j.next = k.next BY <1>9, <2>3
    <2>5. IsList(thread_list, Listed, S, j) BY <2>2, <2>4 DEF IsList
    <2>6. QED BY <2>1, <2>3, <2>5
  <1>11. QED BY <1>2, <1>10

LEMMA NextListIInv == ListIInv /\ [ListNext]_listVars => ListIInv'
  <1> SUFFICES ASSUME ListIInv, [ListNext]_listVars PROVE ListIInv' OBVIOUS
  <1>1. IInv' BY ListStepSchedules, NextIInv DEF ListIInv
  <1>2. objects' \subseteq objects
    <2>1. ListStays => objects' = objects
      BY DEF ListStays, TimerInterrupt, Yield, DeviceInterrupt, SendWakes, KernelStep,
             ReceiveBlocks, ReceiveReturns, Bootstrap, BootstrapStop
    <2>2. \A t \in Threads : ListRun(t) => objects' = objects BY DEF ListRun, RunThread
    <2>3. \A t \in Threads : ListDelete(t) => objects' \subseteq objects
      BY DEF ListDelete, DeleteThreadObject
    <2>4. ListExit => objects' \subseteq objects BY DEF ListExit, SyscallExit
    <2>5. ListException => objects' \subseteq objects BY DEF ListException, UserException
    <2>6. UNCHANGED listVars => objects' = objects BY DEF listVars, vars
    <2>7. QED BY <2>1, <2>2, <2>3, <2>4, <2>5, <2>6 DEF ListNext
  <1>3. Ordered(thread_list, Listed) BY ListOrdered DEF ListIInv
  <1>4. ASSUME UNCHANGED <<thread_list, head, next>>
        PROVE  IsList(thread_list, Listed, Listed, TheList)'
    BY <1>4 DEF ListIInv, Listed, TheList, IsList, Linked
  <1>5. CASE ListStays /\ UNCHANGED <<head, next>>
    <2>1. thread_list' = thread_list
      BY <1>5 DEF ListStays, TimerInterrupt, Yield, DeviceInterrupt, SendWakes, KernelStep,
             ReceiveBlocks, ReceiveReturns, Bootstrap, BootstrapStop
    <2>2. QED BY <1>1, <1>2, <1>4, <1>5, <2>1 DEF ListIInv
  <1>6. CASE UNCHANGED listVars
    BY <1>1, <1>2, <1>4, <1>6 DEF listVars, vars, ListIInv
  <1>7. ASSUME NEW L, L = Listed', \A t \in L : thread_list'[t] = thread_list[t],
               IsList(thread_list, Listed, L, TheList')
        PROVE  IsList(thread_list, Listed, Listed, TheList)'
    <2>1. PICK G, j : G = thread_list' /\ j = TheList' OBVIOUS
    <2>2. IsList(thread_list, Listed, L, j) /\ \A t \in L : G[t] = thread_list[t]
      BY <1>7, <2>1
    <2>3. IsList(G, L, L, j) BY <2>2, ListSettles
    <2>4. QED BY <1>7, <2>1, <2>3 DEF IsList, Linked
  <1>8. CASE ListExit
    <2>1. IsList(thread_list, Listed, Listed, TheList)' BY <1>7, <1>8, ExitUnlinks
    <2>2. QED BY <1>1, <1>2, <2>1 DEF ListIInv
  <1>9. CASE ListException
    <2>1. IsList(thread_list, Listed, Listed, TheList)' BY <1>7, <1>9, ExceptionUnlinks
    <2>2. QED BY <1>1, <1>2, <2>1 DEF ListIInv
  <1>10. ASSUME NEW t \in Threads, ListDelete(t) PROVE ListIInv'
    <2>1. /\ t \in ThreadHandles
          /\ thread_list' = [thread_list EXCEPT ![t] = IF t = current_thread THEN @ ELSE 0]
          /\ TheListBecomes(IF t = current_thread THEN TheList ELSE Unlink(TheList, t))
      BY <1>10 DEF ListDelete, DeleteThreadObject
    <2>2. t \in Threads \ {Idle} BY <2>1, HandlesAreThere DEF ListIInv
    <2>3. thread_list \in [Threads -> Nat] BY DEF ListIInv, IInv, TypeOK
    <2>4. CASE t = current_thread
      <3>1. UNCHANGED <<thread_list, head, next>>
        BY <2>1, <2>3, <2>4 DEF TheListBecomes, TheList
      <3>2. QED BY <1>1, <1>2, <1>4, <3>1 DEF ListIInv
    <2>5. CASE t # current_thread
      <3>1. PICK k : k = Unlink(TheList, t) OBVIOUS
      <3>2. IsList(thread_list, Listed, Listed \ {t}, k)
        BY <1>3, <2>2, <3>1, UnlinkKeeps DEF ListIInv
      <3>3. /\ Listed' = Listed \ {t}
            /\ \A u \in Listed' : thread_list'[u] = thread_list[u]
        BY <2>1, <2>3, <2>5 DEF Listed
      <3>4. head' = k.head /\ next' = k.next BY <2>1, <2>5, <3>1 DEF TheListBecomes
      <3>5. PICK j, L : j = TheList' /\ L = Listed' OBVIOUS
      <3>6. j.head = k.head /\ j.next = k.next BY <3>4, <3>5 DEF TheList
      <3>7. IsList(thread_list, Listed, L, k) BY <3>2, <3>3, <3>5
      <3>8. IsList(thread_list, Listed, L, j) BY <3>6, <3>7 DEF IsList
      <3>9. IsList(thread_list, Listed, Listed, TheList)' BY <1>7, <3>3, <3>5, <3>8
      <3>10. QED BY <1>1, <1>2, <3>9 DEF ListIInv
    <2>6. QED BY <2>4, <2>5
  <1>11. ASSUME NEW t \in Threads, ListRun(t) PROVE ListIInv'
    <2>1. /\ t \notin Listed
          /\ thread_list' = [thread_list EXCEPT ![t] = list_end + 1]
          /\ AddThreadToScheduler(t)
      BY <1>11 DEF ListRun, RunThread
    <2>2. /\ thread_list \in [Threads -> Nat] /\ list_end \in Nat
          /\ \A u \in Threads : thread_list[u] <= list_end
      BY DEF ListIInv, IInv, TypeOK, PlacesGiven
    <2>3. PICK n \in Nat : n = list_end + 1 BY <2>2
    <2>4. \A u \in Listed : thread_list[u] < n BY <2>2, <2>3 DEF Listed
    <2>5. PICK cut : cut = [next EXCEPT ![t] = NullPointer] OBVIOUS
    <2>6. PICK ny : ny = next' OBVIOUS
    <2>7. ny = [cut EXCEPT ![LastOf(head, cut)] = t] /\ head' = head
      BY <2>1, <2>5, <2>6 DEF AddThreadToScheduler
    <2>8. PICK G : G = thread_list' OBVIOUS
    <2>9. G = [thread_list EXCEPT ![t] = n] BY <2>1, <2>3, <2>8
    <2>10. IsList(thread_list, Listed, Listed, [head |-> head, next |-> next])
      BY DEF ListIInv, TheList
    <2>11. IsList(G, Listed \cup {t}, Listed \cup {t}, [head |-> head, next |-> ny])
      <3>1. t \in Threads \ Listed BY <2>1
      <3>2. QED BY <1>3, <2>4, <2>5, <2>7, <2>9, <2>10, <3>1, AddKeeps
    <2>12. Listed' = Listed \cup {t} BY <2>1, <2>2 DEF Listed
    <2>13. TheList' = [head |-> head, next |-> ny] BY <2>6, <2>7 DEF TheList
    <2>14. PICK L, j : L = Listed' /\ j = TheList' OBVIOUS
    <2>15. IsList(G, L, L, j) BY <2>11, <2>12, <2>13, <2>14
    <2>16. IsList(thread_list, Listed, Listed, TheList)'
      BY <2>8, <2>14, <2>15 DEF IsList, Linked
    <2>17. QED BY <1>1, <1>2, <2>16 DEF ListIInv
  <1>12. QED BY <1>5, <1>6, <1>8, <1>9, <1>10, <1>11 DEF ListNext

-----------------------------------------------------------------------------
(* The walk of SelectNextThread *)

(* In a list l of the threads of L it is c's turn among the threads of     *)
(* goal: the places say so, whether or not the running thread, which is no *)
(* goal, is ready itself.                                                  *)
ItsTurn(L, l, goal, c) ==
    /\ IsList(thread_list, Listed, L, l)
    /\ goal \cap Listed \subseteq L
    /\ \E S \in SUBSET Listed : /\ goal \cap Listed = S \ {current_thread}
                               /\ c \in S
                               /\ c = FirstAfterCurrent(S)
    /\ c # current_thread

(* Among the threads of goal the loop comes first to the one whose turn it *)
(* is.                                                                     *)
LEMMA FirstMetIsFirst ==
    ASSUME IInv, NEW L, NEW l, NEW goal, NEW c, ItsTurn(L, l, goal, c)
    PROVE  FirstMet(l.head, l.next, current_thread, goal) = c
  <1> USE PointersDiffer
  <1>a. /\ IsList(thread_list, Listed, L, l)
        /\ goal \cap Listed \subseteq L
        /\ c # current_thread
    BY DEF ItsTurn
  <1>b. PICK S \in SUBSET Listed : /\ goal \cap Listed = S \ {current_thread}
                                  /\ c \in S
                                  /\ c = FirstAfterCurrent(S)
    BY DEF ItsTurn
  <1>1. PICK F, x : F = thread_list /\ x = current_thread OBVIOUS
  <1>2. Ordered(F, Listed) /\ x \in Listed
    BY <1>1, ListOrdered DEF IInv, TypeOK, ListSound, Listed
  <1>3. PICK nx : nx = l.next OBVIOUS
  <1>4. Linked(F, Listed, L, nx) /\ l.head = Idle /\ Idle \in Listed
        /\ \A v \in Listed : F[Idle] <= F[v]
    BY <1>1, <1>3, <1>a DEF IsList, Linked
  <1>5. \A u \in Listed : F[u] \in Nat /\ u # NullPointer BY <1>2 DEF Ordered
  <1> DEFINE after == {t \in S : F[t] > F[x]}
             pool  == IF after # {} THEN after ELSE S
             ahead == Met(nx, nx[x], goal) \cap goal
             again == Met(nx, Idle, goal) \cap goal
  <1>6. c \in pool /\ \A u \in pool : F[c] <= F[u]
    <2>1. pool \subseteq Threads /\ pool # {} /\ F \in [Threads -> Nat]
      BY <1>2, <1>b DEF Ordered
    <2>2. c = CHOOSE t \in pool : \A u \in pool : F[t] <= F[u]
      BY <1>1, <1>b DEF FirstAfterCurrent
    <2> HIDE DEF pool
    <2>3. \E t \in pool : \A u \in pool : F[t] <= F[u] BY <2>1, LeastPlace
    <2>4. QED BY <2>2, <2>3
  <1>7. FirstMet(l.head, l.next, current_thread, goal)
          = IF ahead # {} THEN CHOOSE t \in ahead : TRUE
            ELSE IF again # {} THEN CHOOSE t \in again : TRUE ELSE NullPointer
    <2>1. FirstMet(l.head, l.next, current_thread, goal) = FirstMet(Idle, nx, x, goal)
      BY <1>1, <1>3, <1>4
    <2>2. QED BY <2>1, Zenon DEF FirstMet
  <1>8. c \in goal \cap Listed /\ c \in L BY <1>1, <1>a, <1>b
  <1>9. CASE after # {}
    <2>1. F[x] < F[c] /\ \A u \in after : F[c] <= F[u] BY <1>2, <1>5, <1>6, <1>8, <1>9
    <2>2. PICK y : y = nx[x] OBVIOUS
    <2>3. y # NullPointer /\ F[y] <= F[c] BY <1>2, <1>4, <1>8, <2>1, <2>2 DEF Linked
    <2>4. y \in Listed /\ F[x] < F[y] BY <1>2, <1>4, <2>2, <2>3 DEF Linked
    <2>5. ASSUME NEW v \in goal \cap Listed, F[y] <= F[v] PROVE F[c] <= F[v]
      <3>1. v \in S BY <1>b, <2>5
      <3>2. F[v] \in Nat /\ F[x] \in Nat /\ F[y] \in Nat BY <1>2, <1>5, <2>4
      <3>3. F[v] > F[x] BY <2>4, <2>5, <3>2
      <3>4. QED BY <2>1, <3>1, <3>3
    <2>a. NextGoal(F, Listed, L, goal, y, c)
      BY <1>8, <1>a, <2>3, <2>4, <2>5 DEF NextGoal
    <2>6. Met(nx, y, goal) \cap goal = {c}
      <3> HIDE DEF after, pool, ahead, again
      <3>1. Ordered(F, Listed) /\ Linked(F, Listed, L, nx) BY <1>2, <1>4
      <3>2. QED BY <2>a, <3>1, MeetsFirst, SMTT(30)
    <2>7. ahead = {c} BY <2>2, <2>6
    <2> HIDE DEF ahead, again
    <2>8. QED BY <1>7, <2>7
  <1>10. CASE after = {}
    <2>1. \A u \in S : F[c] <= F[u] BY <1>6, <1>10
    <2>2. PICK y : y = nx[x] OBVIOUS
    <2>3. y \in Listed \cup {NullPointer} /\ (y # NullPointer => F[x] < F[y])
      BY <1>2, <1>4, <2>2 DEF Linked
    <2>4. ASSUME y # NullPointer, NEW v \in goal \cap Listed PROVE ~(F[y] <= F[v])
      <3>1. ~(F[v] > F[x]) BY <1>10, <1>b
      <3>2. F[v] \in Nat /\ F[x] \in Nat /\ F[y] \in Nat BY <1>2, <1>5, <2>3, <2>4
      <3>3. QED BY <2>3, <2>4, <3>1, <3>2
    <2>5. Met(nx, y, goal) \cap goal = {} BY <1>2, <1>4, <2>3, <2>4, MeetsNone
    <2>6. \A v \in goal \cap Listed : F[c] <= F[v] BY <1>b, <2>1
    <2>a. NextGoal(F, Listed, L, goal, Idle, c)
      BY <1>4, <1>8, <1>a, <2>6 DEF NextGoal
    <2>7. Met(nx, Idle, goal) \cap goal = {c}
      <3> HIDE DEF after, pool, ahead, again
      <3>1. Ordered(F, Listed) /\ Linked(F, Listed, L, nx) BY <1>2, <1>4
      <3>2. QED BY <2>a, <3>1, MeetsFirst, SMTT(30)
    <2>8. ahead = {} /\ again = {c} BY <2>2, <2>5, <2>7
    <2> HIDE DEF ahead, again
    <2>9. QED BY <1>7, <2>8
  <1>11. QED BY <1>9, <1>10

LEMMA FirstMetIsNone ==
    ASSUME IInv, NEW L, NEW l, IsList(thread_list, Listed, L, l),
           NEW goal, goal \cap Listed = {}
    PROVE  FirstMet(l.head, l.next, current_thread, goal) = NullPointer
  <1>1. PICK nx : nx = l.next OBVIOUS
  <1>2. Linked(thread_list, Listed, L, nx) /\ l.head = Idle /\ Idle \in Listed
    BY <1>1 DEF IsList, Linked
  <1>3. Ordered(thread_list, Listed) /\ current_thread \in Listed
    BY ListOrdered DEF IInv, TypeOK, ListSound, Listed
  <1>4. PICK y : y = nx[current_thread] OBVIOUS
  <1>5. y \in Listed \cup {NullPointer} BY <1>2, <1>3, <1>4 DEF Linked
  <1>6. Met(nx, y, goal) \cap goal = {} BY <1>2, <1>3, <1>5, MeetsNone
  <1>7. Met(nx, Idle, goal) \cap goal = {} BY <1>2, <1>3, MeetsNone
  <1>8. QED BY <1>1, <1>2, <1>4, <1>6, <1>7 DEF FirstMet

(* A context switch goes to the thread the pointers lead to, in a list     *)
(* that lost only threads which are not ready.                             *)
LEMMA SwitchFollowsPointers ==
    ASSUME IInv, NEW L, NEW l, IsList(thread_list, Listed, L, l), NEW st, NEW q,
           ScheduleNext(st, q), current_thread' # current_thread,
           \A t \in Listed : st[t] = "READY" => t \in L
    PROVE  SelectByPointers(l.head, l.next, current_thread,
              ({t \in Threads : state'[t] = "READY"} \cup {current_thread'}) \ {current_thread})
             = current_thread'
  <1> USE PointersDiffer
  <1>1. PICK c : c = SelectNextThread(st) OBVIOUS
  <1>2. /\ c # NullPointer /\ current_thread' = c
        /\ state' = [t \in Threads |->
                       IF c = current_thread THEN st[t]
                       ELSE IF t = c THEN "RUNNING"
                       ELSE IF t = current_thread /\ st[t] = "RUNNING" THEN "READY"
                       ELSE st[t]]
    BY <1>1 DEF ScheduleNext
  <1>3. c \in Listed /\ st[c] = "READY" /\ c \in Threads /\ c # current_thread
    <2>1. TypeOK BY DEF IInv
    <2>2. QED BY <1>1, <1>2, <2>1, SelectIsReady DEF Listed
  <1> DEFINE ready  == {t \in Listed : st[t] = "READY"}
             normal == {t \in ready : Priority[t] # PRIORITY_IDLE}
  <1>4. PICK goal : goal = ({t \in Threads : state'[t] = "READY"} \cup {current_thread'})
                              \ {current_thread}
    OBVIOUS
  <1>5. goal = {t \in Threads : st[t] = "READY"} \ {current_thread}
    <2>1. \A t \in Threads \ {c, current_thread} : state'[t] = st[t] BY <1>2
    <2>2. QED BY <1>2, <1>3, <1>4, <2>1
  <1>6. PICK first : first = {t \in goal : Priority[t] # PRIORITY_IDLE} OBVIOUS
  <1>7. /\ goal \cap Listed = ready \ {current_thread} /\ goal \cap Listed \subseteq L
        /\ first \cap Listed = normal \ {current_thread} /\ first \cap Listed \subseteq L
    BY <1>5, <1>6 DEF Listed
  <1>8. c = IF normal # {} THEN FirstAfterCurrent(normal) ELSE FirstAfterCurrent(ready)
    BY <1>1, <1>2 DEF SelectNextThread
  <1>9. SelectByPointers(l.head, l.next, current_thread, goal)
          = IF FirstMet(l.head, l.next, current_thread, first) # NullPointer
            THEN FirstMet(l.head, l.next, current_thread, first)
            ELSE FirstMet(l.head, l.next, current_thread, goal)
    BY <1>6 DEF SelectByPointers
  <1>10. ready \subseteq Listed /\ normal \subseteq Listed /\ c \in ready BY <1>3
  <1>11. CASE normal # {}
    <2>1. c = FirstAfterCurrent(normal) BY <1>8, <1>11
    <2>2. c \in normal
      <3>1. TypeOK BY DEF IInv
      <3> HIDE DEF normal
      <3>2. QED BY <1>10, <1>11, <2>1, <3>1, FirstIsMember
    <2>a. PICK S : S = normal OBVIOUS
    <2> HIDE DEF normal, ready
    <2>b. /\ S \subseteq Listed /\ first \cap Listed = S \ {current_thread}
          /\ first \cap Listed \subseteq L /\ c \in S
      BY <1>7, <1>10, <2>2, <2>a
    <2>c. c = FirstAfterCurrent(S) /\ c # current_thread BY <1>3, <2>1, <2>a
    <2>d. ItsTurn(L, l, first, c) BY <2>b, <2>c DEF ItsTurn
    <2>3. FirstMet(l.head, l.next, current_thread, first) = c BY <2>d, FirstMetIsFirst
    <2>4. QED BY <1>2, <1>4, <1>9, <2>3
  <1>12. CASE normal = {}
    <2>1. c = FirstAfterCurrent(ready) BY <1>8, <1>12
    <2>2. first \cap Listed = {} BY <1>7, <1>12
    <2> HIDE DEF normal, ready
    <2>3. FirstMet(l.head, l.next, current_thread, first) = NullPointer
      BY <2>2, FirstMetIsNone
    <2>a. PICK S : S = ready OBVIOUS
    <2>b. /\ S \subseteq Listed /\ goal \cap Listed = S \ {current_thread}
          /\ goal \cap Listed \subseteq L /\ c \in S
      BY <1>7, <1>10, <2>a
    <2>c. c = FirstAfterCurrent(S) /\ c # current_thread BY <1>3, <2>1, <2>a
    <2>d. ItsTurn(L, l, goal, c) BY <2>b, <2>c DEF ItsTurn
    <2>4. FirstMet(l.head, l.next, current_thread, goal) = c BY <2>d, FirstMetIsFirst
    <2>5. QED BY <1>2, <1>4, <1>9, <2>3, <2>4
  <1>13. QED BY <1>11, <1>12

(* Whichever kernel entry changes current_thread does it in ScheduleNext.  *)
LEMMA StaysSwitches ==
    ASSUME ListStays, current_thread' # current_thread
    PROVE  \E st, q : ScheduleNext(st, q)
  <1>1. ASSUME NEW st, NEW q, NEW r, InterruptReturn(st, q, r) PROVE ScheduleNext(st, q)
    BY <1>1 DEF InterruptReturn
  <1>2. CASE TimerInterrupt BY <1>1, <1>2 DEF TimerInterrupt
  <1>3. CASE Yield BY <1>1, <1>3 DEF Yield
  <1>4. CASE DeviceInterrupt({}) BY <1>1, <1>4 DEF DeviceInterrupt
  <1>5. ASSUME NEW t \in Threads, NEW gate \in BOOLEAN, SendWakes(t, gate)
        PROVE  \E st, q : ScheduleNext(st, q)
    <2>1. gate BY <1>5 DEF SendWakes
    <2>2. InterruptReturn(Woken({t}), quantum, NeedsResched \/ WakeRequests({t}))
      BY <1>5, <2>1 DEF SendWakes
    <2>3. QED BY <1>1, <2>2
  <1>6. CASE ReceiveBlocks BY <1>6 DEF ReceiveBlocks
  <1>7. CASE ReceiveReturns BY <1>7 DEF ReceiveReturns
  <1>8. CASE Bootstrap BY <1>8 DEF Bootstrap
  <1>9. CASE BootstrapStop BY <1>1, <1>9 DEF BootstrapStop
  <1>10. QED BY <1>2, <1>3, <1>4, <1>5, <1>6, <1>7, <1>8, <1>9 DEF ListStays, KernelStep

(* The action of WalkAgrees. *)
Follows ==
    current_thread' # current_thread =>
        SelectByPointers(head', next', current_thread,
            ({t \in Threads : state'[t] = "READY"} \cup {current_thread'}) \ {current_thread})
          = current_thread'

LEMMA StepFollows == ListIInv /\ [ListNext]_listVars => [Follows]_listVars
  <1> SUFFICES ASSUME ListIInv, ListNext, current_thread' # current_thread
               PROVE  Follows
    BY DEF Follows
  <1>i. IInv /\ IsList(thread_list, Listed, Listed, TheList) BY DEF ListIInv
  <1>a. AfterDeleteProcess = [t \in Threads |->
                                IF t \in ThreadHandles \cup (Siblings(current_thread) \cap Main)
                                THEN "TERMINATED" ELSE state[t]]
    BY DEF AfterDeleteProcess
  <1>1. ASSUME NEW L, NEW l, l = TheList', IsList(thread_list, Listed, L, l),
               NEW st, NEW q, ScheduleNext(st, q), \A t \in Listed : st[t] = "READY" => t \in L
        PROVE  Follows
    <2>1. l.head = head' /\ l.next = next' BY <1>1 DEF TheList
    <2>2. SelectByPointers(l.head, l.next, current_thread,
              ({t \in Threads : state'[t] = "READY"} \cup {current_thread'}) \ {current_thread})
             = current_thread'
      BY <1>i, <1>1, SwitchFollowsPointers
    <2>3. QED BY <2>1, <2>2 DEF Follows
  <1>2. CASE ListStays /\ UNCHANGED <<head, next>>
    <2>1. PICK st, q : ScheduleNext(st, q) BY <1>2, StaysSwitches
    <2>2. PICK l : l = TheList' OBVIOUS
    <2>3. TheList' = TheList BY <1>2 DEF TheList
    <2>4. IsList(thread_list, Listed, Listed, l) BY <1>i, <2>2, <2>3
    <2>5. QED BY <1>1, <2>1, <2>2, <2>4
  <1>3. ASSUME NEW t \in Threads, ListRun(t) PROVE FALSE BY <1>3 DEF ListRun, RunThread
  <1>4. ASSUME NEW t \in Threads, ListDelete(t) PROVE FALSE
    BY <1>4 DEF ListDelete, DeleteThreadObject
  <1>5. CASE ListExit
    <2>1. PICK l, L : l = TheList' /\ L = Listed' OBVIOUS
    <2>2. /\ IsList(thread_list, Listed, L, l)
          /\ L = Listed \ (ThreadHandles \cup {current_thread})
      BY <1>5, <2>1, ExitUnlinks
    <2>3. PICK st : st = [AfterDeleteProcess EXCEPT ![current_thread] = "TERMINATED"] OBVIOUS
    <2>4. ScheduleNext(st, quantum) BY <1>5, <2>3 DEF ListExit, SyscallExit
    <2>5. \A t \in Listed : st[t] = "READY" => t \in L
      BY <1>a, <2>2, <2>3 DEF Listed
    <2>6. QED BY <1>1, <2>1, <2>2, <2>4, <2>5
  <1>6. CASE ListException
    <2>1. PICK l, L : l = TheList' /\ L = Listed' OBVIOUS
    <2>2. /\ IsList(thread_list, Listed, L, l)
          /\ L = Listed \ (ThreadHandles \ {current_thread})
      BY <1>6, <2>1, ExceptionUnlinks
    <2>3. ScheduleNext(AfterDeleteProcess, quantum)
      BY <1>6 DEF ListException, UserException, InterruptReturn
    <2>4. \A t \in Listed : AfterDeleteProcess[t] = "READY" => t \in L
      BY <1>a, <2>2 DEF Listed
    <2>5. QED BY <1>1, <2>1, <2>2, <2>3, <2>4
  <1>7. QED BY <1>2, <1>3, <1>4, <1>5, <1>6 DEF ListNext

LEMMA ListInductive == ListSpec => []ListIInv
  <1>1. ListInit => ListIInv BY InitListIInv
  <1>2. ListIInv /\ [ListNext]_listVars => ListIInv' BY NextListIInv
  <1>3. QED BY <1>1, <1>2, PTL DEF ListSpec

(* Keeping next pointers changes nothing of what the scheduler does, so    *)
(* that its theorems hold for the list of schedule.c too.                  *)
THEOREM ListImplementsScheduler == ListSpec => Spec
  <1>1. ListInit => Init BY DEF ListInit
  <1>2. [ListNext]_listVars => [Next]_vars BY ListStepSchedules
  <1>3. QED BY <1>1, <1>2, PTL DEF ListSpec, Spec

(* AddThreadToScheduler and RemoveThreadFromScheduler lose no thread and   *)
(* keep none too many, in whatever order threads are run, deleted, exit or *)
(* fault: a loop over the next pointers meets the listed threads in order. *)
THEOREM ListAlwaysComplete == ListSpec => []ListIsComplete
  <1>1. ListIInv => ListIsComplete
    <2> SUFFICES ASSUME ListIInv PROVE ListIsComplete OBVIOUS
    <2>1. Ordered(thread_list, Listed) BY ListOrdered DEF ListIInv
    <2>2. /\ Linked(thread_list, Listed, Listed, next) /\ head = Idle /\ Idle \in Listed
          /\ \A v \in Listed : thread_list[Idle] <= thread_list[v]
      BY DEF ListIInv, IsList, TheList
    <2>3. Met(next, Idle, {}) = Listed BY <2>1, <2>2, MeetsAll
    <2>4. QED BY <2>2, <2>3 DEF ListIsComplete, Linked
  <1>2. QED BY <1>1, ListInductive, PTL

(* SelectNextThread, which follows next pointers, gives the CPU to the     *)
(* thread whose turn it is, also from a thread that SYSCALL_EXIT has just  *)
(* unlinked, and past others unlinked with it.                             *)
THEOREM ListWalkAgrees == ListSpec => WalkAgrees
  <1>1. ListIInv /\ [ListNext]_listVars => [Follows]_listVars BY StepFollows
  <1>2. QED BY <1>1, ListInductive, PTL DEF ListSpec, WalkAgrees, Follows
=============================================================================
