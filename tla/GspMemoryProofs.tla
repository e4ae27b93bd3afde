--------------------------- MODULE GspMemoryProofs ---------------------------
(***************************************************************************)
(* Proofs about the memory handed to GSP-RM, for every size of page, table *)
(* entry, firmware, queue and registry and any order of the pages: from    *)
(* two addresses GSP-RM finds the firmware, the queues, the regions and    *)
(* the records, and the parts of the preparation refuse each other for     *)
(* known reasons only.                                                     *)
(***************************************************************************)
EXTENDS GspMemory, SequenceTheorems, TLAPS

-----------------------------------------------------------------------------
(***************************************************************************)
(* Division.                                                               *)
(***************************************************************************)

LEMMA Division ==
  ASSUME NEW a \in Nat, NEW n \in Nat \ {0}
  PROVE  a \div n \in Nat /\ a % n \in 0..(n - 1) /\ a = n * (a \div n) + (a % n)
OBVIOUS

LEMMA DivisionUnique ==
  ASSUME NEW n \in Nat \ {0}, NEW q \in Nat, NEW r \in 0..(n - 1)
  PROVE  (n * q + r) \div n = q /\ (n * q + r) % n = r
OBVIOUS

LEMMA ProductOrder ==
  ASSUME NEW n \in Nat \ {0}, NEW a \in Nat, NEW b \in Nat, a < b
  PROVE  n * a + n <= n * b
<1>1. PICK d \in Nat : b = a + 1 + d
  <2>1. b - a - 1 \in Nat /\ b = a + 1 + (b - a - 1)
    OBVIOUS
  <2> QED BY <2>1
<1>2. n * b = n * a + n + n * d
  BY <1>1
<1>3. n * d \in Nat /\ n * a \in Nat
  BY <1>1
<1> QED BY <1>2, <1>3

LEMMA ProductInjective ==
  ASSUME NEW n \in Nat \ {0}, NEW a \in Nat, NEW b \in Nat, n * a = n * b
  PROVE  a = b
<1>1. n * a \in Nat /\ n * b \in Nat
  OBVIOUS
<1>2. a < b => n * a + n <= n * b
  BY ProductOrder
<1>3. b < a => n * b + n <= n * a
  BY ProductOrder
<1> QED BY <1>1, <1>2, <1>3

LEMMA DivLess ==
  ASSUME NEW n \in Nat \ {0}, NEW a \in Nat, NEW q \in Nat, a < n * q
  PROVE  a \div n < q
<1>1. /\ a \div n \in Nat /\ a % n \in 0..(n - 1) /\ a = n * (a \div n) + (a % n)
  BY Division
<1> DEFINE d == a \div n
           m == a % n
<1> HIDE DEF d, m
<1>2. d \in Nat /\ m \in 0..(n - 1) /\ a = n * d + m
  BY <1>1 DEF d, m
<1>3. n * d \in Nat /\ n * q \in Nat
  BY <1>2
<1>4. ~(q <= d)
  <2>1. q < d => n * q + n <= n * d
    BY <1>2, ProductOrder
  <2> QED BY <1>2, <1>3, <2>1
<1> QED BY <1>2, <1>4 DEF d

LEMMA CeilFacts ==
  ASSUME NEW n \in Nat, NEW d \in Nat \ {0}
  PROVE  /\ CeilDiv(n, d) \in Nat
         /\ n <= d * CeilDiv(n, d) /\ d * CeilDiv(n, d) < n + d
         /\ RoundUp(n, d) = d * CeilDiv(n, d)
<1> DEFINE x == n + d - 1
           q == x \div d
<1>1. x \in Nat /\ x = n + (d - 1)
  OBVIOUS
<1>2. CeilDiv(n, d) = q /\ RoundUp(n, d) = q * d
  BY DEF CeilDiv, RoundUp
<1> HIDE DEF x
<1>3. q \in Nat /\ x % d \in 0..(d - 1) /\ x = d * q + (x % d)
  BY <1>1, Division
<1> HIDE DEF q
<1>4. d * q \in Nat /\ q * d = d * q
  BY <1>3
<1>5. n <= d * q /\ d * q < n + d
  BY <1>1, <1>3, <1>4
<1> QED BY <1>2, <1>3, <1>4, <1>5

\* A number of things of a size d, the last one whole, is exactly covered.
LEMMA CeilExact ==
  ASSUME NEW m \in Nat, NEW d \in Nat \ {0}
  PROVE  CeilDiv(d * m, d) = m
<1> DEFINE c == CeilDiv(d * m, d)
<1>1. d * m \in Nat
  OBVIOUS
<1>2. c \in Nat /\ d * m <= d * c /\ d * c < d * m + d
  BY <1>1, CeilFacts
<1> HIDE DEF c
<1>3. ~(c < m)
  BY <1>1, <1>2, ProductOrder
<1>4. ~(m < c)
  BY <1>1, <1>2, ProductOrder
<1> QED BY <1>2, <1>3, <1>4 DEF c

\* The group of a member: of n things in groups of d, thing i is in a group there is.
LEMMA GroupExists ==
  ASSUME NEW n \in Nat, NEW d \in Nat \ {0}, NEW i \in 0..(n - 1)
  PROVE  /\ i \div d \in 0..(CeilDiv(n, d) - 1) /\ i % d \in 0..(d - 1)
         /\ (i \div d) * d + (i % d) = i
<1>1. CeilDiv(n, d) \in Nat /\ n <= d * CeilDiv(n, d)
  BY CeilFacts
<1>2. i \div d \in Nat /\ i % d \in 0..(d - 1) /\ i = d * (i \div d) + (i % d)
  <2>1. i \in Nat
    OBVIOUS
  <2> QED BY <2>1, Division
<1>3. d * CeilDiv(n, d) \in Nat
  BY <1>1
<1>4. i < d * CeilDiv(n, d)
  BY <1>1, <1>3
<1>5. i \div d < CeilDiv(n, d)
  BY <1>1, <1>4, DivLess
<1>6. (i \div d) * d = d * (i \div d)
  BY <1>2
<1> QED BY <1>1, <1>2, <1>5, <1>6

LEMMA DivDiv ==
  ASSUME NEW i \in Nat, NEW n \in Nat \ {0}
  PROVE  (i \div n) \div n = i \div (n * n)
<1> DEFINE a == i \div n
           r == i % n
           b == a \div n
           t == a % n
<1>1. a \in Nat /\ r \in 0..(n - 1) /\ i = n * a + r
  BY Division
<1> HIDE DEF a, r
<1>2. b \in Nat /\ t \in 0..(n - 1) /\ a = n * b + t
  BY <1>1, Division
<1> HIDE DEF b, t
<1>3. i = (n * n) * b + (n * t + r)
  <2>1. i = n * (n * b + t) + r
    BY <1>1, <1>2
  <2>2. n * (n * b + t) = n * (n * b) + n * t
    BY <1>2
  <2>3. n * (n * b) = (n * n) * b
    BY <1>2
  <2>4. (n * n) * b \in Nat /\ n * t \in Nat
    BY <1>2
  <2> DEFINE P == (n * n) * b
             Q == n * t
  <2>a. n * (n * b + t) = P + Q
    BY <2>2, <2>3, Zenon
  <2>b. P \in Nat /\ Q \in Nat
    BY <2>4
  <2> HIDE DEF P, Q
  <2>5. i = (P + Q) + r /\ P \in Nat /\ Q \in Nat /\ r \in Nat
    <3>1. i = (P + Q) + r
      BY <2>1, <2>a, Zenon
    <3> QED BY <1>1, <2>b, <3>1
  <2>6. i = P + (Q + r)
    BY <2>5
  <2> QED BY <2>6 DEF P, Q
<1>4. n * n \in Nat \ {0}
  OBVIOUS
<1>5. n * t + r \in 0..(n * n - 1)
  <2>1. n * t + n <= n * n
    BY <1>2, ProductOrder
  <2>2. n * t \in Nat /\ n * n \in Nat
    BY <1>2
  <2> QED BY <1>1, <2>1, <2>2
<1>6. i \div (n * n) = b
  <2> DEFINE m == n * n
             u == n * t + r
  <2>1. m \in Nat \ {0} /\ u \in 0..(m - 1) /\ i = m * b + u
    BY <1>3, <1>4, <1>5
  <2> HIDE DEF m, u
  <2>2. (m * b + u) \div m = b
    BY <1>2, <2>1, DivisionUnique
  <2> QED BY <2>1, <2>2 DEF m
<1> QED BY <1>6 DEF a, b

LEMMA CeilShift ==
  ASSUME NEW m \in Nat, NEW n \in Nat, NEW d \in Nat \ {0}
  PROVE  CeilDiv(d * m + n, d) = m + CeilDiv(n, d)
<1> DEFINE c == CeilDiv(n, d)
           x == CeilDiv(d * m + n, d)
           P == d * m
<1>1. P \in Nat
  OBVIOUS
<1>2. c \in Nat /\ n <= d * c /\ d * c < n + d
  BY CeilFacts
<1>3. x \in Nat /\ P + n <= d * x /\ d * x < P + n + d
  <2>1. P + n \in Nat
    BY <1>1
  <2> HIDE DEF P
  <2>2. /\ CeilDiv(P + n, d) \in Nat /\ P + n <= d * CeilDiv(P + n, d)
        /\ d * CeilDiv(P + n, d) < P + n + d
    BY <2>1, CeilFacts
  <2> QED BY <2>2 DEF P
<1> HIDE DEF c, x
<1>4. d * (m + c) = P + d * c /\ d * c \in Nat /\ d * x \in Nat /\ d * (m + c) \in Nat
  BY <1>2, <1>3
<1> HIDE DEF P
<1>5. ~(x < m + c)
  <2>1. x < m + c => d * x + d <= d * (m + c)
    BY <1>2, <1>3, ProductOrder
  <2> QED BY <1>1, <1>2, <1>3, <1>4, <2>1
<1>6. ~(m + c < x)
  <2>1. m + c < x => d * (m + c) + d <= d * x
    <3>1. m + c \in Nat
      BY <1>2
    <3> QED BY <1>3, <3>1, ProductOrder
  <2> QED BY <1>1, <1>2, <1>3, <1>4, <2>1
<1>7. x = m + c
  BY <1>2, <1>3, <1>5, <1>6
<1> QED BY <1>7 DEF x, c

LEMMA Constants ==
  /\ PageBytes \in Nat \ {0} /\ kRadixEntriesPerPage \in Nat \ {0} /\ PteBytes \in Nat \ {0}
  /\ LogPages \in Nat \ {0} /\ MaxFrame \in Nat
  /\ QueueEntriesPerPage \in Nat \ {0} /\ PageBytes = PteBytes * QueueEntriesPerPage
<1>1. /\ PageBytes \in Nat \ {0} /\ kRadixEntriesPerPage \in Nat \ {0} /\ PteBytes \in Nat \ {0}
      /\ LogPages \in Nat \ {0} /\ MaxFrame \in Nat /\ PageBytes % PteBytes = 0
  BY PageAssumption, LogAssumption
<1> DEFINE q == QueueEntriesPerPage
<1>2. q \in Nat /\ PageBytes = PteBytes * q + 0
  BY <1>1, Division DEF QueueEntriesPerPage
<1> HIDE DEF q
<1>3. PageBytes = PteBytes * q /\ q # 0
  BY <1>1, <1>2
<1> QED BY <1>1, <1>2, <1>3 DEF q

-----------------------------------------------------------------------------
(***************************************************************************)
(* The Radix3 tree.                                                        *)
(***************************************************************************)

\* The pages of the levels above an image.
LevelTwo(bytes) == CeilDiv(Pages(bytes), kRadixEntriesPerPage)
LevelOne(bytes) == CeilDiv(LevelTwo(bytes), kRadixEntriesPerPage)

TreeOf(r, bytes) ==
  /\ r.firstPage[0] = 0 /\ r.firstPage[1] = 1 /\ r.firstPage[2] = 1 + LevelOne(bytes)
  /\ r.firstPage[3] = 1 + LevelOne(bytes) + LevelTwo(bytes)
  /\ r.pageCounts[0] = 1 /\ r.pageCounts[1] = LevelOne(bytes)
  /\ r.pageCounts[2] = LevelTwo(bytes) /\ r.pageCounts[3] = Pages(bytes)
  /\ LevelOne(bytes) \in 1..kRadixEntriesPerPage
  /\ LevelTwo(bytes) \in Nat \ {0} /\ Pages(bytes) \in Nat \ {0}
  /\ r.allocationPages = 1 + LevelOne(bytes) + LevelTwo(bytes) + Pages(bytes)
  /\ r.allocationBytes = PageBytes * (1 + LevelOne(bytes) + LevelTwo(bytes)) + bytes
  /\ Pages(r.allocationBytes) = r.allocationPages

LEMMA CeilPositive ==
  ASSUME NEW n \in Nat \ {0}, NEW d \in Nat \ {0}
  PROVE  CeilDiv(n, d) \in Nat \ {0}
<1>1. CeilDiv(n, d) \in Nat /\ n <= d * CeilDiv(n, d)
  BY CeilFacts
<1>2. CeilDiv(n, d) # 0
  BY <1>1
<1> QED BY <1>1, <1>2

LEMMA RadixFacts ==
  ASSUME NEW bytes \in Nat, PlanRadix3(bytes) # None
  PROVE  TreeOf(PlanRadix3(bytes), bytes)
<1> DEFINE image == Pages(bytes)
           two == LevelTwo(bytes)
           one == LevelOne(bytes)
           E == kRadixEntriesPerPage
           root == CeilDiv(one, E)
           table == (root + one + two) * PageBytes
           r == PlanRadix3(bytes)
<1>1. bytes # 0 /\ root = 1
  BY DEF PlanRadix3, LevelTwo, LevelOne
<1>2. r = [kind |-> "radix", imageBytes |-> bytes,
           pageCounts |-> [l \in 0..3 |-> <<root, one, two, image>>[l + 1]],
           firstPage |-> [l \in 0..3 |-> <<0, root, root + one, root + one + two>>[l + 1]],
           tableBytes |-> table, allocationBytes |-> table + bytes,
           allocationPages |-> Pages(table + bytes)]
  BY <1>1 DEF PlanRadix3, LevelTwo, LevelOne
<1>3. image \in Nat \ {0}
  BY <1>1, CeilPositive, Constants DEF Pages
<1> HIDE DEF image, r
<1>4. two \in Nat \ {0}
  BY <1>3, CeilPositive, Constants DEF image, LevelTwo
<1> HIDE DEF two
<1>5. one \in Nat \ {0}
  BY <1>4, CeilPositive, Constants DEF two, LevelOne
<1> HIDE DEF one
<1>6. one <= E
  <2>1. one <= E * root
    BY <1>5, CeilFacts, Constants
  <2> QED BY <1>1, <2>1, Constants
<1> HIDE DEF root
<1>7. table = PageBytes * (1 + one + two)
  BY <1>1, <1>4, <1>5, Constants
<1> HIDE DEF table
<1>8. Pages(table + bytes) = 1 + one + two + image
  <2> DEFINE m == 1 + one + two
  <2>1. m \in Nat
    BY <1>4, <1>5
  <2> HIDE DEF m
  <2>2. CeilDiv(PageBytes * m + bytes, PageBytes) = m + CeilDiv(bytes, PageBytes)
    BY <2>1, CeilShift, Constants
  <2> QED BY <1>7, <2>2 DEF Pages, m, image
<1>9. /\ r.firstPage[0] = 0 /\ r.firstPage[1] = 1 /\ r.firstPage[2] = 1 + one
      /\ r.firstPage[3] = 1 + one + two
  BY <1>1, <1>2
<1>10. /\ r.pageCounts[0] = 1 /\ r.pageCounts[1] = one /\ r.pageCounts[2] = two
       /\ r.pageCounts[3] = image
  BY <1>1, <1>2
<1>11. r.allocationPages = Pages(table + bytes) /\ r.allocationBytes = table + bytes
  BY <1>2
<1>12. one \in 1..E
  BY <1>5, <1>6, Constants
<1> QED BY <1>3, <1>4, <1>7, <1>8, <1>9, <1>10, <1>11, <1>12 DEF TreeOf, one, two, image, r

\* What a table page of the tree holds: the addresses of its children, then zeroes.
ChildTable(r, list, l, a) ==
  TablePage([e \in 0..(kRadixEntriesPerPage - 1) |->
    IF a * kRadixEntriesPerPage + e < r.pageCounts[l + 1]
      THEN list[r.firstPage[l + 1] + (a * kRadixEntriesPerPage + e) + 1] ELSE 0])

LEMMA TreeTables ==
  ASSUME NEW bytes, NEW r, TreeOf(r, bytes), NEW list,
         NEW l \in 0..2, NEW a \in 0..(r.pageCounts[l] - 1)
  PROVE  /\ r.firstPage[l] + a \in 0..(r.firstPage[3] - 1)
         /\ BuildRadix3Tables(r, list)[r.firstPage[l] + a] = ChildTable(r, list, l, a)
<1> DEFINE E == kRadixEntriesPerPage
           p == r.firstPage[l] + a
           one == LevelOne(bytes)
           two == LevelTwo(bytes)
<1>1. /\ r.firstPage[0] = 0 /\ r.firstPage[1] = 1 /\ r.firstPage[2] = 1 + one
      /\ r.firstPage[3] = 1 + one + two
      /\ r.pageCounts[0] = 1 /\ r.pageCounts[1] = one /\ r.pageCounts[2] = two
      /\ one \in Nat \ {0} /\ two \in Nat \ {0} /\ r.pageCounts[3] \in Nat
  BY Constants DEF TreeOf
<1> HIDE DEF one, two
<1>2. /\ p \in 0..(r.firstPage[3] - 1) /\ r.firstPage[l] <= p /\ p < r.firstPage[l + 1]
      /\ p - r.firstPage[l] = a /\ r.pageCounts[l] \in Nat /\ r.firstPage[l + 1] \in Nat
      /\ r.pageCounts[l + 1] \in Nat
  <2>1. CASE l = 0
    BY <1>1, <2>1
  <2>2. CASE l = 1
    BY <1>1, <2>2
  <2>3. CASE l = 2
    BY <1>1, <2>3
  <2> QED BY <2>1, <2>2, <2>3
<1>3. ASSUME NEW k \in 0..2, r.firstPage[k] <= p, p < r.firstPage[k + 1] PROVE k = l
  <2>1. CASE l = 0
    BY <1>1, <1>3, <2>1
  <2>2. CASE l = 1
    BY <1>1, <1>3, <2>2
  <2>3. CASE l = 2
    BY <1>1, <1>3, <2>3
  <2> QED BY <2>1, <2>2, <2>3
<1> HIDE DEF p
<1> DEFINE c == CHOOSE k \in 0..2 : r.firstPage[k] <= p /\ p < r.firstPage[k + 1]
<1>4. c \in 0..2 /\ r.firstPage[c] <= p /\ p < r.firstPage[c + 1]
  BY <1>2
<1>5. c = l
  BY <1>3, <1>4
<1> HIDE DEF c
<1> DEFINE n == r.pageCounts[l + 1]
           from == [i \in 0..(n - 1) |-> list[r.firstPage[l + 1] + i + 1]]
<1>6. BuildRadix3Tables(r, list)[p] = TablePages(n, from, r.pageCounts[l], E)[p - r.firstPage[l]]
  BY <1>2, <1>5 DEF BuildRadix3Tables, c
<1>7. TablePages(n, from, r.pageCounts[l], E)[a] =
        TablePage([e \in 0..(E - 1) |-> IF a * E + e < n THEN from[a * E + e] ELSE 0])
  BY DEF TablePages
<1>8. ASSUME NEW e \in 0..(E - 1)
      PROVE  (IF a * E + e < n THEN from[a * E + e] ELSE 0)
               = (IF a * E + e < n THEN list[r.firstPage[l + 1] + (a * E + e) + 1] ELSE 0)
  <2>1. a * E + e \in Nat
    <3>1. a \in Nat /\ E \in Nat
      BY <1>2, Constants
    <3> QED BY <3>1
  <2> DEFINE x == a * E + e
  <2> HIDE DEF x
  <2>2. x < n => from[x] = list[r.firstPage[l + 1] + x + 1]
    BY <1>2, <2>1 DEF x
  <2>3. (IF x < n THEN from[x] ELSE 0) = (IF x < n THEN list[r.firstPage[l + 1] + x + 1] ELSE 0)
    BY <2>2
  <2> QED BY <2>3 DEF x
<1> HIDE DEF from
<1>9. [e \in 0..(E - 1) |-> IF a * E + e < n THEN from[a * E + e] ELSE 0]
        = [e \in 0..(E - 1) |->
             IF a * E + e < n THEN list[r.firstPage[l + 1] + (a * E + e) + 1] ELSE 0]
  BY <1>8
<1>10. BuildRadix3Tables(r, list)[p] = ChildTable(r, list, l, a)
  BY <1>2, <1>6, <1>7, <1>9 DEF ChildTable
<1> QED BY <1>2, <1>10 DEF p

-----------------------------------------------------------------------------
(***************************************************************************)
(* The queue memory.                                                       *)
(***************************************************************************)

LEMMA CeilScale ==
  ASSUME NEW n \in Nat, NEW k \in Nat \ {0}, NEW m \in Nat \ {0}
  PROVE  CeilDiv(n * k, k * m) = CeilDiv(n, m)
<1> DEFINE c == CeilDiv(n, m)
           d == k * m
           N == n * k
           x == CeilDiv(N, d)
<1>1. c \in Nat /\ n <= m * c /\ m * c < n + m
  BY CeilFacts
<1>2. d \in Nat \ {0} /\ N \in Nat
  OBVIOUS
<1> HIDE DEF c
<1>3. N <= d * c /\ d * c < N + d
  <2> DEFINE M == m * c
  <2>1. M \in Nat /\ n <= M /\ M < n + m
    BY <1>1
  <2>2. d * c = k * M
    BY <1>1
  <2>3. N = k * n /\ N + d = k * (n + m)
    OBVIOUS
  <2> HIDE DEF M
  <2>4. k * n <= k * M
    <3>1. n < M => k * n + k <= k * M
      BY <2>1, ProductOrder
    <3>2. k * n \in Nat /\ k * M \in Nat
      BY <2>1
    <3> QED BY <2>1, <3>1, <3>2
  <2>5. k * M + k <= k * (n + m)
    <3>1. n + m \in Nat
      OBVIOUS
    <3> QED BY <2>1, <3>1, ProductOrder
  <2>6. k * M \in Nat
    BY <2>1
  <2> HIDE DEF N, d
  <2> QED BY <2>2, <2>3, <2>4, <2>5, <2>6
<1> HIDE DEF d, N
<1>4. x \in Nat /\ N <= d * x /\ d * x < N + d
  BY <1>2, CeilFacts
<1> HIDE DEF x
<1>5. d * c \in Nat /\ d * x \in Nat
  BY <1>1, <1>2, <1>4
<1>6. x < c => d * x + d <= d * c
  BY <1>1, <1>2, <1>4, ProductOrder
<1>7. c < x => d * c + d <= d * x
  BY <1>1, <1>2, <1>4, ProductOrder
<1>8. x = c
  BY <1>1, <1>2, <1>3, <1>4, <1>5, <1>6, <1>7
<1> QED BY <1>8 DEF x, c, d, N

\* Pages of one queue and of the page table.
QueuePages(bytes) == bytes \div PageBytes
QueueTablePages(bytes) == CeilDiv(QueueEntries(bytes), QueueEntriesPerPage)

QueuesOf(q, bytes) ==
  LET w == QueuePages(bytes)
      t == QueueTablePages(bytes)
  IN  /\ w \in Nat \ {0} /\ t \in Nat \ {0} /\ QueueEntries(bytes) \in Nat \ {0}
      /\ bytes = PageBytes * w /\ q.queueBytes = bytes
      /\ q.pageTableEntryCount = QueueEntries(bytes)
      /\ q.pageTableBytes = PageBytes * t /\ q.commandQueueOffset = PageBytes * t
      /\ q.statusQueueOffset = PageBytes * (t + w)
      /\ q.totalBytes = PageBytes * (t + 2 * w) /\ Pages(q.totalBytes) = t + 2 * w
      /\ ~(q.pageTableEntryCount * PteBytes > q.pageTableBytes)

LEMMA QueueFacts ==
  ASSUME NEW bytes \in Nat, PlanQueueMemory(bytes) # None
  PROVE  QueuesOf(PlanQueueMemory(bytes), bytes)
<1> DEFINE w == QueuePages(bytes)
           t == QueueTablePages(bytes)
           n == QueueEntries(bytes)
           tb == RoundUp(n * PteBytes, PageBytes)
           q == PlanQueueMemory(bytes)
<1>1. bytes # 0 /\ bytes % PageBytes = 0
  BY DEF PlanQueueMemory
<1>2. q = [kind |-> "queues", queueBytes |-> bytes,
           pageTableEntryCount |-> n, pageTableBytes |-> tb,
           commandQueueOffset |-> tb, statusQueueOffset |-> tb + bytes,
           totalBytes |-> tb + 2 * bytes]
  BY <1>1 DEF PlanQueueMemory
<1>3. w \in Nat /\ bytes = PageBytes * w + 0
  <2>1. PageBytes \in Nat \ {0}
    BY Constants
  <2>2. /\ bytes \div PageBytes \in Nat
        /\ bytes = PageBytes * (bytes \div PageBytes) + (bytes % PageBytes)
    BY <2>1, Division
  <2> QED BY <1>1, <2>2, Zenon DEF QueuePages
<1>4. n = 2 * w + Pages((2 * w) * PteBytes)
  BY DEF QueueEntries, QueuePages
<1> HIDE DEF w, n, q
<1>5. w # 0 /\ bytes = PageBytes * w
  BY <1>1, <1>3, Constants
<1>6. n \in Nat \ {0}
  <2>1. (2 * w) * PteBytes \in Nat
    BY <1>3, Constants
  <2>2. Pages((2 * w) * PteBytes) \in Nat
    BY <2>1, CeilFacts, Constants DEF Pages
  <2> QED BY <1>3, <1>4, <1>5, <2>2
<1>7. t \in Nat \ {0}
  BY <1>6, CeilPositive, Constants DEF QueueTablePages, n
<1>8. t = CeilDiv(n * PteBytes, PageBytes)
  BY <1>6, CeilScale, Constants DEF QueueTablePages, n
<1> HIDE DEF t
<1>9. n * PteBytes \in Nat
  BY <1>6, Constants
<1>10. tb = PageBytes * t /\ n * PteBytes <= PageBytes * t
  BY <1>8, <1>9, CeilFacts, Constants
<1> HIDE DEF tb
<1>11. tb + bytes = PageBytes * (t + w) /\ tb + 2 * bytes = PageBytes * (t + 2 * w)
  BY <1>3, <1>5, <1>7, <1>10, Constants
<1>12. Pages(tb + 2 * bytes) = t + 2 * w
  <2> DEFINE m == t + 2 * w
  <2>1. m \in Nat
    BY <1>3, <1>7
  <2> HIDE DEF m
  <2>2. CeilDiv(PageBytes * m, PageBytes) = m
    BY <2>1, CeilExact, Constants
  <2> QED BY <1>11, <2>2 DEF Pages, m
<1>13. ~(n * PteBytes > tb)
  <2>1. PageBytes * t \in Nat
    BY <1>7, Constants
  <2> QED BY <1>9, <1>10, <2>1
<1>14. /\ q.queueBytes = bytes /\ q.pageTableEntryCount = n /\ q.pageTableBytes = tb
       /\ q.commandQueueOffset = tb /\ q.statusQueueOffset = tb + bytes
       /\ q.totalBytes = tb + 2 * bytes
  BY <1>2
<1> QED BY <1>3, <1>5, <1>6, <1>7, <1>10, <1>11, <1>12, <1>13, <1>14 DEF QueuesOf, q, w, t, n

-----------------------------------------------------------------------------
(***************************************************************************)
(* Page lists.                                                             *)
(***************************************************************************)

\* A list of n pages out of base .. base + n - 1, no page twice.
ListOf(list, base, n) ==
  /\ Len(list) = n /\ DOMAIN list = 1..n
  /\ \A p \in 1..n : \E f \in base..(base + n - 1) : list[p] = PageBytes * f
  /\ \A p, q \in 1..n : list[p] = list[q] => p = q

LEMMA ListFacts ==
  ASSUME NEW base \in Nat, NEW n \in Nat, NEW list \in PageLists(base, n)
  PROVE  ListOf(list, base, n)
<1>1. ASSUME NEW k \in [1..n -> Nat], list = [p \in 1..n |-> PageBytes * k[p]],
             \A p \in 1..n : k[p] \in base..(base + n - 1),
             \A p, q \in 1..n : k[p] = k[q] => p = q
      PROVE  ListOf(list, base, n)
  <2>1. Len(list) = n /\ DOMAIN list = 1..n /\ \A p \in 1..n : list[p] = PageBytes * k[p]
    BY <1>1
  <2>2. ASSUME NEW p \in 1..n, NEW q \in 1..n, list[p] = list[q] PROVE p = q
    <3>1. k[p] \in Nat /\ k[q] \in Nat /\ PageBytes * k[p] = PageBytes * k[q]
      BY <1>1, <2>1, <2>2
    <3>2. k[p] = k[q]
      BY <3>1, ProductInjective, Constants
    <3> QED BY <1>1, <3>2
  <2>3. \A p \in 1..n : \E f \in base..(base + n - 1) : list[p] = PageBytes * f
    BY <1>1, <2>1
  <2> QED BY <2>1, <2>2, <2>3 DEF ListOf
<1> DEFINE up == [p \in 1..n |-> base + p - 1]
           down == [p \in 1..n |-> base + n - p]
           swap == [p \in 1..n |-> IF n > 1 /\ p \in {1, 2} THEN base + 2 - p ELSE base + p - 1]
<1>2. CASE list = Ascending(base, n)
  <2>1. list = [p \in 1..n |-> PageBytes * up[p]]
    BY <1>2 DEF Ascending
  <2>2. up \in [1..n -> Nat] /\ \A p \in 1..n : up[p] \in base..(base + n - 1)
    OBVIOUS
  <2>3. \A p, q \in 1..n : up[p] = up[q] => p = q
    OBVIOUS
  <2> HIDE DEF up
  <2> QED BY <1>1, <2>1, <2>2, <2>3
<1>3. CASE list = Descending(base, n)
  <2>1. list = [p \in 1..n |-> PageBytes * down[p]]
    BY <1>3 DEF Descending
  <2>2. down \in [1..n -> Nat] /\ \A p \in 1..n : down[p] \in base..(base + n - 1)
    OBVIOUS
  <2>3. \A p, q \in 1..n : down[p] = down[q] => p = q
    OBVIOUS
  <2> HIDE DEF down
  <2> QED BY <1>1, <2>1, <2>2, <2>3
<1>4. CASE list = Swapped(base, n)
  <2>1. list = [p \in 1..n |-> PageBytes * swap[p]]
    BY <1>4 DEF Swapped
  <2>2. swap \in [1..n -> Nat] /\ \A p \in 1..n : swap[p] \in base..(base + n - 1)
    OBVIOUS
  <2>3. \A p, q \in 1..n : swap[p] = swap[q] => p = q
    OBVIOUS
  <2> HIDE DEF swap
  <2> QED BY <1>1, <2>1, <2>2, <2>3
<1> QED BY <1>2, <1>3, <1>4 DEF PageLists

\* The only contiguous one goes up.
LEMMA LinearGoesUp ==
  ASSUME NEW base \in Nat, NEW n \in Nat, NEW list \in PageLists(base, n),
         IsLinearDmaPageList(list)
  PROVE  \A p \in 1..n : list[p] = PageBytes * (base + p - 1)
<1>1. Len(list) = n
  BY ListFacts DEF ListOf
<1>2. n > 1 => list[2] = list[1] + PageBytes
  BY <1>1 DEF IsLinearDmaPageList
<1>3. CASE n <= 1
  <2>1. ASSUME NEW p \in 1..n PROVE p = 1 /\ n = 1
    BY <1>3
  <2> QED BY <2>1 DEF PageLists, Ascending, Descending, Swapped
<1>4. CASE n > 1
  <2>1. list = Ascending(base, n)
    <3>1. ASSUME NEW a \in Nat, NEW b \in Nat, b < a, list[1] = PageBytes * a, list[2] = PageBytes * b
          PROVE  FALSE
      <4>1. PageBytes * b + PageBytes <= PageBytes * a
        BY <3>1, ProductOrder, Constants
      <4>2. PageBytes * a \in Nat /\ PageBytes * b \in Nat
        BY Constants
      <4> QED BY <1>2, <1>4, <3>1, <4>1, <4>2, Constants
    <3>2. CASE list = Descending(base, n)
      <4>1. /\ list[1] = PageBytes * (base + n - 1) /\ list[2] = PageBytes * (base + n - 2)
        BY <1>4, <3>2 DEF Descending
      <4>2. base + n - 1 \in Nat /\ base + n - 2 \in Nat /\ base + n - 2 < base + n - 1
        BY <1>4
      <4> QED BY <3>1, <4>1, <4>2
    <3>3. CASE list = Swapped(base, n)
      <4>1. /\ list[1] = PageBytes * (base + 1) /\ list[2] = PageBytes * base
        BY <1>4, <3>3 DEF Swapped
      <4> QED BY <3>1, <4>1
    <3> QED BY <3>2, <3>3 DEF PageLists
  <2> QED BY <2>1 DEF Ascending
<1> QED BY <1>3, <1>4

-----------------------------------------------------------------------------
(***************************************************************************)
(* The buffers of the plan.                                                *)
(***************************************************************************)

LEMMA InputFacts ==
  ASSUME in \in Inputs
  PROVE  /\ in.size \in [Sections -> Nat] /\ in.queueBytes \in Nat /\ in.registryBytes \in Nat
         /\ QueueEntries(in.queueBytes) <= QueueEntriesPerPage * QueueEntriesPerPage
         /\ in.size["GspFirmwareImage"] \in Nat
<1>1. in \in [size : [Sections -> Nat], queueBytes : Nat, registryBytes : Nat,
              plannable : BOOLEAN]
  BY InputAssumption
<1>2. "GspFirmwareImage" \in Sections
  BY DEF Sections
<1>3. in.size \in [Sections -> Nat] /\ in.queueBytes \in Nat /\ in.registryBytes \in Nat
  BY <1>1
<1> QED BY <1>2, <1>3, InputAssumption

LEMMA PlanFacts ==
  ASSUME in \in Inputs, ManifestValid
  PROVE  /\ QueuesOf(Queues, in.queueBytes)
         /\ TreeOf(Radix, in.size["GspFirmwareImage"])
<1>1. Queues # None /\ Radix # None
  BY DEF ManifestValid
<1>2. in.queueBytes \in Nat /\ in.size["GspFirmwareImage"] \in Nat
  BY InputFacts
<1> QED BY <1>1, <1>2, QueueFacts, RadixFacts DEF Queues, Radix

\* What the buffers are and how long.
LEMMA BufferFacts ==
  ASSUME in \in Inputs, ManifestValid
  PROVE  /\ LogicalBytes(1) = Queues.totalBytes /\ LogicalBytes(5) = Radix.allocationBytes
         /\ \A i \in 2..4 : LogicalBytes(i) = PageBytes
         /\ PageCount(1) = QueueTablePages(in.queueBytes) + 2 * QueuePages(in.queueBytes)
         /\ PageCount(5) = Radix.allocationPages
         /\ \A i \in 2..4 : PageCount(i) = 1
         /\ \A i \in Logs : PageCount(i) = LogPages
         /\ \A i \in 1..10 : PageCount(i) \in Nat \ {0}
         /\ \A i \in 1..10 : LinearGenerated(i) <=> i \notin {1, 5}
<1>1. QueuesOf(Queues, in.queueBytes) /\ TreeOf(Radix, in.size["GspFirmwareImage"])
  BY PlanFacts
<1>2. /\ Generated[1] = "QueueBacking" /\ Generated[5] = "Radix3Firmware"
      /\ \A i \in 1..10 \ {1, 5} : Generated[i] \notin {"QueueBacking", "Radix3Firmware"}
  <2>1. ASSUME NEW i \in 1..10
        PROVE  \/ i = 1 \/ i = 2 \/ i = 3 \/ i = 4 \/ i = 5 \/ i = 6 \/ i = 7 \/ i = 8
               \/ i = 9 \/ i = 10
    OBVIOUS
  <2> QED BY <2>1 DEF Generated
<1>3. /\ LogicalBytes(1) = Queues.totalBytes /\ LogicalBytes(5) = Radix.allocationBytes
      /\ \A i \in 2..4 : LogicalBytes(i) = PageBytes
      /\ \A i \in Logs : LogicalBytes(i) = LogPages * PageBytes
  <2>1. \A i \in Logs : i \in 1..10 \ {1, 5}
    BY DEF Logs
  <2>2. \A i \in 2..4 : i \in 1..10 \ {1, 5} /\ i \notin Logs
    BY DEF Logs
  <2>3. 1 \notin Logs /\ 5 \notin Logs
    BY DEF Logs
  <2> HIDE DEF Logs
  <2> QED BY <1>2, <2>1, <2>2, <2>3 DEF LogicalBytes
<1>4. PageCount(1) = QueueTablePages(in.queueBytes) + 2 * QueuePages(in.queueBytes)
  BY <1>1, <1>3 DEF PageCount, QueuesOf
<1>5. PageCount(5) = Radix.allocationPages
  BY <1>1, <1>3 DEF PageCount, TreeOf
<1>6. \A i \in 2..4 : PageCount(i) = 1
  <2>1. CeilDiv(PageBytes * 1, PageBytes) = 1
    BY CeilExact, Constants
  <2>2. PageBytes * 1 = PageBytes
    BY Constants
  <2> QED BY <1>3, <2>1, <2>2, Zenon DEF PageCount, Pages
<1>7. \A i \in Logs : PageCount(i) = LogPages
  <2>1. CeilDiv(PageBytes * LogPages, PageBytes) = LogPages
    BY CeilExact, Constants
  <2>2. PageBytes * LogPages = LogPages * PageBytes
    BY Constants
  <2> QED BY <1>3, <2>1, <2>2, Zenon DEF PageCount, Pages
<1>8. PageCount(1) \in Nat \ {0} /\ PageCount(5) \in Nat \ {0}
  <2>1. PageCount(1) \in Nat \ {0}
    BY <1>1, <1>4 DEF QueuesOf
  <2>2. PageCount(5) \in Nat \ {0}
    BY <1>1, <1>5 DEF TreeOf
  <2> QED BY <2>1, <2>2
<1>9. \A i \in 1..10 : PageCount(i) \in Nat \ {0}
  <2>1. \A i \in 1..10 : i = 1 \/ i = 5 \/ i \in 2..4 \/ i \in Logs
    BY DEF Logs
  <2> QED BY <1>6, <1>7, <1>8, <2>1, Constants
<1>10. \A i \in 1..10 : LinearGenerated(i) <=> i \notin {1, 5}
  BY <1>2 DEF LinearGenerated
<1> QED BY <1>3, <1>4, <1>5, <1>6, <1>7, <1>9, <1>10

\* Pages handed out before buffer i.
Base(i) ==
  LET a == PageCount(1)
      b == PageCount(5)
  IN  CASE i = 1 -> 0
        [] i \in 2..5 -> a + i - 2
        [] OTHER -> a + 3 + b + (i - 6) * LogPages

LEMMA BaseFacts ==
  ASSUME in \in Inputs, ManifestValid
  PROVE  /\ Base(1) = 0 /\ Base(11) = TotalPages
         /\ \A i \in 1..10 : Base(i) \in Nat /\ Base(i + 1) = Base(i) + PageCount(i)
<1> DEFINE a == PageCount(1)
           b == PageCount(5)
<1>1. /\ a \in Nat \ {0} /\ b \in Nat \ {0} /\ \A i \in 2..4 : PageCount(i) = 1
      /\ \A i \in Logs : PageCount(i) = LogPages
  BY BufferFacts
<1>2. /\ Base(1) = 0 /\ \A i \in 2..5 : Base(i) = a + i - 2
      /\ \A i \in 6..11 : Base(i) = a + 3 + b + (i - 6) * LogPages
  BY DEF Base
<1> HIDE DEF a, b
<1>3. Base(11) = TotalPages
  BY <1>1, <1>2, Constants DEF TotalPages, a, b
<1>4. ASSUME NEW i \in 1..10 PROVE Base(i) \in Nat /\ Base(i + 1) = Base(i) + PageCount(i)
  <2>1. CASE i = 1
    BY <1>1, <1>2, <2>1 DEF a
  <2>2. CASE i \in 2..4
    BY <1>1, <1>2, <2>2
  <2>3. CASE i = 5
    BY <1>1, <1>2, <2>3, Constants DEF b
  <2>4. CASE i \in Logs
    <3>1. i \in 6..10 /\ i + 1 \in 6..11 /\ PageCount(i) = LogPages
      BY <1>1, <2>4 DEF Logs
    <3>2. (i + 1 - 6) * LogPages = (i - 6) * LogPages + LogPages /\ (i - 6) * LogPages \in Nat
      BY <3>1, Constants
    <3> QED BY <1>1, <1>2, <3>1, <3>2, Constants
  <2> QED BY <2>1, <2>2, <2>3, <2>4 DEF Logs
<1> QED BY <1>2, <1>3, <1>4

-----------------------------------------------------------------------------
(***************************************************************************)
(* The inductive invariant.                                                *)
(***************************************************************************)

StagedOf(x) ==
  [k \in Sections |->
    IF LinearSection(k) THEN Ascending(StagedBase(k), Pages(x.size[k]))
    ELSE Descending(StagedBase(k), Pages(x.size[k]))]

Steps == {"plan", "map", "resolve", "build", "populate", "sequence", "ready", "failed"}

\* A fresh step starts at the first buffer; nothing is written or received early.
StepInv ==
  /\ in \in Inputs /\ staged = StagedOf(in)
  /\ pc \in Steps /\ index \in 1..10
  /\ pc \notin {"map", "populate", "failed"} => index = 1
  /\ pc = "plan" => frame \in {0, 1}
  /\ pc \in {"plan", "map"} => pages \in [1..10 -> Seq(Nat)]
  /\ pc \notin {"populate", "sequence", "ready", "failed"} => mem = Blank
  /\ pc # "ready" => readPtr = 0 /\ received = <<>>

\* The buffers mapped so far.
Last == IF pc = "map" THEN index - 1 ELSE 10

\* Buffer i: its pages are frames handed out so far, in ascending order where the
\* device is given a base and a size only.
Mapped(i, first, list) ==
  /\ Len(list) = PageCount(i) /\ DOMAIN list = 1..PageCount(i)
  /\ \A p \in 1..PageCount(i) : \E f \in first..(frame - 1) : list[p] = PageBytes * f
  /\ i \notin {1, 5} =>
       /\ IsLinearDmaPageList(list)
       /\ \A p \in 1..PageCount(i) : list[p] = list[1] + PageBytes * (p - 1)

MappedInv ==
  pc \in {"map", "resolve", "build", "populate", "sequence", "ready"} =>
    /\ ManifestValid
    /\ \E first \in {0, 1} : /\ frame = first + Base(Last + 1)
                             /\ \A i \in 1..Last : Mapped(i, first, pages[i])
    /\ frame <= MaxFrame + 1
    /\ \A i, j \in 1..Last : \A p \in 1..PageCount(i), q \in 1..PageCount(j) :
         pages[i][p] = pages[j][q] => i = j /\ p = q

ResolvedInv ==
  pc \in {"build", "populate", "sequence", "ready"} =>
    ResolveGa10xBootMemory # None /\ addresses = ResolveGa10xBootMemory

BuiltInv ==
  pc \in {"populate", "sequence", "ready"} =>
    /\ BuildResolvedArtifacts(addresses) # <<>>
    /\ artifacts = BuildResolvedArtifacts(addresses)

\* The buffers written so far hold their artifacts; page zero is nobody's.
Content(i, p) == IF i \in Logs THEN ZeroPage ELSE artifacts[i].pages[p - 1]
Written == IF pc = "populate" THEN index - 1 ELSE 10

WrittenInv ==
  pc \in {"populate", "sequence", "ready"} =>
    /\ mem[0] = Unwritten
    /\ \A i \in 1..Written : \A p \in 1..PageCount(i) : mem[pages[i][p]] = Content(i, p)

\* Why sessions are refused, also for an image that ends within a page.
RefusalInv ==
  pc = "failed" /\ ~faulted =>
    \/ status = "ProfileRejected" /\ ~ManifestValid
    \/ status = "GeneratedLayoutRejected" /\ index \in Logs
    \/ status = "AddressResolveFailed" /\ frame = TotalPages
    \/ /\ status = "ArtifactBuildFailed"
       /\ \/ Pages(Queues.totalBytes) # Queues.pageTableEntryCount
          \/ BuildBootstrapCommandQueue(Queues, in.registryBytes) = None
    \/ /\ status = "ArtifactPopulationFailed"
       /\ in.size["GspFirmwareImage"] % PageBytes # 0
    \/ status = "SequenceRejected" /\ ~in.plannable

MemoryInv ==
  StepInv /\ MappedInv /\ ResolvedInv /\ BuiltInv /\ WrittenInv /\ RefusalInv

-----------------------------------------------------------------------------
(***************************************************************************)
(* Mapping.                                                                *)
(***************************************************************************)

LEMMA ListsAreSequences ==
  ASSUME NEW base \in Nat, NEW n \in Nat, NEW list \in PageLists(base, n)
  PROVE  list \in Seq(Nat)
<1>1. ListOf(list, base, n)
  BY ListFacts
<1>2. ASSUME NEW p \in 1..n PROVE list[p] \in Nat
  <2>1. PICK f \in base..(base + n - 1) : list[p] = PageBytes * f
    BY <1>1 DEF ListOf
  <2>2. f \in Nat /\ PageBytes \in Nat
    BY Constants
  <2> QED BY <2>1, <2>2
<1>3. list = [p \in 1..n |-> list[p]]
  BY DEF PageLists, Ascending, Descending, Swapped
<1>4. [p \in 1..n |-> list[p]] \in Seq(Nat)
  BY <1>2
<1> QED BY <1>3, <1>4

\* A single page is contiguous.
LEMMA OnePageIsLinear ==
  ASSUME NEW base \in Nat, NEW list \in PageLists(base, 1)
  PROVE  IsLinearDmaPageList(list)
<1>1. Len(list) = 1 /\ DOMAIN list = 1..1
  BY ListFacts DEF ListOf
<1>2. PICK f \in Nat : list[1] = PageBytes * f
  <2>1. \E f \in base..(base + 1 - 1) : list[1] = PageBytes * f
    BY ListFacts DEF ListOf
  <2> QED BY <2>1
<1>3. (PageBytes * f + 0) % PageBytes = 0
  <2>1. PageBytes \in Nat \ {0} /\ 0 \in 0..(PageBytes - 1)
    BY Constants
  <2> QED BY <2>1, DivisionUnique
<1>4. PageBytes * f + 0 = PageBytes * f
  <2>1. PageBytes * f \in Nat
    BY Constants
  <2> QED BY <2>1
<1>5. list[1] % PageBytes = 0
  BY <1>2, <1>3, <1>4
<1>6. list # <<>>
  BY <1>1
<1> QED BY <1>1, <1>5, <1>6 DEF IsLinearDmaPageList

\* The pages a buffer is mapped with.
LEMMA NewBuffer ==
  ASSUME in \in Inputs, ManifestValid, NEW i \in 1..10, frame \in Nat,
         NEW list \in PageLists(frame, PageCount(i)),
         LinearGenerated(i) => IsLinearDmaPageList(list)
  PROVE  /\ Len(list) = PageCount(i) /\ DOMAIN list = 1..PageCount(i)
         /\ \A p \in 1..PageCount(i) :
              \E f \in frame..(frame + PageCount(i) - 1) : list[p] = PageBytes * f
         /\ \A p, q \in 1..PageCount(i) : list[p] = list[q] => p = q
         /\ i \notin {1, 5} =>
              /\ IsLinearDmaPageList(list)
              /\ \A p \in 1..PageCount(i) : list[p] = list[1] + PageBytes * (p - 1)
<1> DEFINE n == PageCount(i)
<1>1. n \in Nat \ {0} /\ (LinearGenerated(i) <=> i \notin {1, 5})
  BY BufferFacts
<1> HIDE DEF n
<1>2. ListOf(list, frame, n)
  BY <1>1, ListFacts DEF n
<1>3. ASSUME i \notin {1, 5}
      PROVE  /\ IsLinearDmaPageList(list)
             /\ \A p \in 1..n : list[p] = list[1] + PageBytes * (p - 1)
  <2>1. IsLinearDmaPageList(list)
    BY <1>1, <1>3
  <2>2. \A p \in 1..n : list[p] = PageBytes * (frame + p - 1)
    BY <1>1, <2>1, LinearGoesUp DEF n
  <2>3. ASSUME NEW p \in 1..n PROVE list[p] = list[1] + PageBytes * (p - 1)
    <3>1. list[p] = PageBytes * (frame + p - 1) /\ list[1] = PageBytes * (frame + 1 - 1)
      BY <1>1, <2>2
    <3>2. PageBytes * (frame + p - 1) = PageBytes * (frame + 1 - 1) + PageBytes * (p - 1)
      BY Constants
    <3> QED BY <3>1, <3>2, Zenon
  <2> QED BY <2>1, <2>3
<1> QED BY <1>2, <1>3 DEF ListOf, n

\* The plans depend on the input only.
LEMMA SameInput ==
  ASSUME in' = in
  PROVE  /\ ManifestValid' <=> ManifestValid
         /\ Queues' = Queues /\ Radix' = Radix
         /\ \A i : PageCount(i)' = PageCount(i)
         /\ \A i : LogicalBytes(i)' = LogicalBytes(i)
         /\ TotalPages' = TotalPages
         /\ \A i : Base(i)' = Base(i)
<1>1. Queues' = Queues /\ Radix' = Radix
  BY DEF Queues, Radix
<1>2. ManifestValid' <=> ManifestValid
  BY <1>1 DEF ManifestValid
<1>3. \A i : LogicalBytes(i)' = LogicalBytes(i)
  BY <1>1 DEF LogicalBytes
<1>4. \A i : PageCount(i)' = PageCount(i)
  BY <1>3 DEF PageCount
<1>5. TotalPages' = TotalPages
  BY <1>4 DEF TotalPages
<1>6. \A i : Base(i)' = Base(i)
  BY <1>4 DEF Base
<1> QED BY <1>1, <1>2, <1>3, <1>4, <1>5, <1>6

LEMMA FailStep ==
  ASSUME MemoryInv, NEW s, Fail(s), pc # "ready", RefusalInv'
  PROVE  MemoryInv'
<1>1. StepInv'
  BY DEF MemoryInv, StepInv, Fail, Steps, gspVars
<1>2. MappedInv' /\ ResolvedInv' /\ BuiltInv' /\ WrittenInv'
  BY DEF Fail, MappedInv, ResolvedInv, BuiltInv, WrittenInv
<1> QED BY <1>1, <1>2 DEF MemoryInv

LEMMA KernelFailsStep ==
  ASSUME MemoryInv, NEW s, KernelFails(s), pc # "ready"
  PROVE  MemoryInv'
<1>1. Fail(s) /\ RefusalInv'
  BY DEF KernelFails, RefusalInv
<1> QED BY <1>1, FailStep

LEMMA InitMemory == Init => MemoryInv
<1> SUFFICES ASSUME Init PROVE MemoryInv
  OBVIOUS
<1>1. StepInv
  <2>1. NoPages \in [1..10 -> Seq(Nat)]
    BY DEF NoPages
  <2> QED BY <2>1 DEF Init, StepInv, Steps, StagedOf
<1>2. MappedInv /\ ResolvedInv /\ BuiltInv /\ WrittenInv /\ RefusalInv
  BY DEF Init, MappedInv, ResolvedInv, BuiltInv, WrittenInv, RefusalInv
<1> QED BY <1>1, <1>2 DEF MemoryInv

LEMMA MapStep ==
  ASSUME MemoryInv, MapGenerated
  PROVE  MemoryInv'
<1>1. pc = "map" /\ StepInv /\ MappedInv /\ in \in Inputs /\ index \in 1..10
  BY DEF MemoryInv, StepInv, MapGenerated
<1>2. CASE KernelFails("GeneratedAllocationFailed")
  BY <1>1, <1>2, KernelFailsStep
<1>3. ASSUME NEW list \in PageLists(frame, PageCount(index)),
             frame + PageCount(index) <= MaxFrame + 1,
             IF LinearGenerated(index) /\ ~IsLinearDmaPageList(list)
               THEN Refuse("GeneratedLayoutRejected")
               ELSE /\ pages' = [pages EXCEPT ![index] = list]
                    /\ frame' = frame + PageCount(index)
                    /\ index' = IF index = 10 THEN 1 ELSE index + 1
                    /\ pc' = IF index = 10 THEN "resolve" ELSE "map"
                    /\ UNCHANGED <<in, staged, addresses, artifacts, mem, status,
                                   faulted, gspVars>>
      PROVE  MemoryInv'
  <2>1. ManifestValid /\ Last = index - 1
    BY <1>1 DEF MappedInv, Last
  <2>2. PICK first \in {0, 1} : /\ frame = first + Base(Last + 1)
                                /\ \A i \in 1..Last : Mapped(i, first, pages[i])
    BY <1>1 DEF MappedInv
  <2>3. /\ Base(index) \in Nat /\ Base(index + 1) = Base(index) + PageCount(index)
        /\ PageCount(index) \in Nat \ {0}
    BY <1>1, <2>1, BaseFacts, BufferFacts
  <2>4. frame = first + Base(index) /\ frame \in Nat
    <3>1. Last + 1 = index
      BY <1>1, <2>1
    <3> QED BY <2>2, <2>3, <3>1
  <2>5. CASE LinearGenerated(index) /\ ~IsLinearDmaPageList(list)
    <3>1. Fail("GeneratedLayoutRejected")
      BY <1>3, <2>5 DEF Refuse
    <3>2. index \in Logs
      <4>1. index \notin {1, 5}
        BY <1>1, <2>1, <2>5, BufferFacts
      <4>2. index \notin 2..4
        <5>1. index \in 2..4 => PageCount(index) = 1
          BY <1>1, <2>1, BufferFacts
        <5> QED BY <2>4, <2>5, <5>1, OnePageIsLinear
      <4> QED BY <1>1, <4>1, <4>2 DEF Logs
    <3>3. RefusalInv'
      BY <3>1, <3>2 DEF Fail, RefusalInv
    <3> QED BY <1>1, <3>1, <3>3, FailStep
  <2>6. CASE ~(LinearGenerated(index) /\ ~IsLinearDmaPageList(list))
    <3>1. /\ pages' = [pages EXCEPT ![index] = list]
          /\ frame' = frame + PageCount(index)
          /\ index' = IF index = 10 THEN 1 ELSE index + 1
          /\ pc' = IF index = 10 THEN "resolve" ELSE "map"
          /\ UNCHANGED <<in, staged, addresses, artifacts, mem, status, faulted,
                         readPtr, received>>
      BY <1>3, <2>6 DEF gspVars
    <3>2. Last' = index
      BY <1>1, <3>1 DEF Last
    <3>3. list \in Seq(Nat)
      <4> DEFINE n == PageCount(index)
      <4>1. n \in Nat /\ list \in PageLists(frame, n)
        BY <2>3
      <4> HIDE DEF n
      <4> QED BY <2>4, <4>1, ListsAreSequences
    <3>4. /\ pages'[index] = list /\ \A i \in 1..(index - 1) : pages'[i] = pages[i]
          /\ pages' \in [1..10 -> Seq(Nat)]
      <4>1. pages \in [1..10 -> Seq(Nat)]
        BY <1>1 DEF StepInv
      <4>2. pages' = [pages EXCEPT ![index] = list]
        BY <3>1
      <4> DEFINE Lists == Seq(Nat)
      <4>3. pages \in [1..10 -> Lists] /\ list \in Lists
        BY <3>3, <4>1
      <4> HIDE DEF Lists
      <4>4. pages' \in [1..10 -> Lists] /\ pages'[index] = list
        BY <1>1, <4>2, <4>3
      <4>5. \A i \in 1..(index - 1) : i \in 1..10 /\ i # index
        BY <1>1
      <4>6. \A i \in 1..(index - 1) : pages'[i] = pages[i]
        BY <4>2, <4>3, <4>5
      <4> QED BY <4>4, <4>6 DEF Lists
    <3>5. StepInv'
      <4>1. pc' \in {"map", "resolve"} /\ index' \in 1..10 /\ (pc' = "resolve" => index' = 1)
        BY <1>1, <3>1
      <4>2. mem' = Blank /\ readPtr' = 0 /\ received' = <<>> /\ in' \in Inputs /\ staged' = StagedOf(in')
        BY <1>1, <3>1 DEF StepInv
      <4> QED BY <3>4, <4>1, <4>2 DEF StepInv, Steps
    <3>6. /\ Len(list) = PageCount(index) /\ DOMAIN list = 1..PageCount(index)
          /\ \A p \in 1..PageCount(index) :
               \E f \in frame..(frame + PageCount(index) - 1) : list[p] = PageBytes * f
          /\ \A p, q \in 1..PageCount(index) : list[p] = list[q] => p = q
          /\ index \notin {1, 5} =>
               /\ IsLinearDmaPageList(list)
               /\ \A p \in 1..PageCount(index) : list[p] = list[1] + PageBytes * (p - 1)
      <4>1. LinearGenerated(index) => IsLinearDmaPageList(list)
        BY <2>6
      <4> QED BY <1>1, <2>1, <2>4, <4>1, NewBuffer
    <3>7. /\ \A i : PageCount(i)' = PageCount(i)
          /\ \A i : Base(i)' = Base(i)
          /\ ManifestValid'
      BY <2>1, <3>1, SameInput
    <3>8. PICK k \in 1..10 : k = index
      BY <1>1
    <3>9. frame' = first + Base(Last + 1)' /\ frame' <= MaxFrame + 1
      <4>1. Base(Last + 1)' = Base(k + 1)'
        BY <3>2, <3>8 DEF Base
      <4>2. Base(k + 1)' = Base(k + 1)
        BY <3>7
      <4> QED BY <1>3, <2>3, <2>4, <3>1, <3>8, <4>1, <4>2
    <3>10. ASSUME NEW i \in 1..index PROVE Mapped(i, first, pages[i])'
      <4>1. PageCount(i)' = PageCount(i)
        BY <3>7
      <4>2. CASE i = index
        <5>1. frame..(frame + PageCount(index) - 1) \subseteq first..(frame' - 1)
          BY <2>3, <2>4, <3>1
        <5>2. \A p \in 1..PageCount(i) : \E f \in first..(frame' - 1) : list[p] = PageBytes * f
          BY <3>6, <4>2, <5>1
        <5> QED BY <3>4, <3>6, <4>1, <4>2, <5>2 DEF Mapped
      <4>3. CASE i # index
        <5>1. i \in 1..Last /\ pages'[i] = pages[i]
          BY <1>1, <2>1, <3>4, <4>3
        <5>2. Mapped(i, first, pages[i])
          BY <2>2, <5>1
        <5>3. first..(frame - 1) \subseteq first..(frame' - 1)
          BY <2>3, <2>4, <3>1
        <5> QED BY <4>1, <5>1, <5>2, <5>3 DEF Mapped
      <4> QED BY <4>2, <4>3
    <3>11. ASSUME NEW i \in 1..(index - 1), NEW p \in 1..PageCount(i),
                  NEW q \in 1..PageCount(index), pages[i][p] = list[q]
           PROVE  FALSE
      <4>1. PICK f \in first..(frame - 1) : pages[i][p] = PageBytes * f
        BY <2>1, <2>2 DEF Mapped
      <4>2. PICK g \in frame..(frame + PageCount(index) - 1) : list[q] = PageBytes * g
        BY <3>6
      <4>3. f \in Nat /\ g \in Nat /\ f < g
        BY <2>3, <2>4
      <4>4. PageBytes * f = PageBytes * g
        BY <3>11, <4>1, <4>2
      <4>5. f = g
        BY <4>3, <4>4, ProductInjective, Constants
      <4> QED BY <4>3, <4>5
    <3>12. ASSUME NEW i \in 1..index, NEW j \in 1..index,
                  NEW p \in 1..PageCount(i), NEW q \in 1..PageCount(j),
                  pages'[i][p] = pages'[j][q]
           PROVE  i = j /\ p = q
      <4>1. CASE i = index /\ j = index
        BY <3>4, <3>6, <3>12, <4>1
      <4>2. CASE i = index /\ j # index
        <5>0. j \in 1..(index - 1)
          BY <1>1, <4>2
        <5>1. pages'[j] = pages[j] /\ pages'[i] = list
          BY <3>4, <4>2, <5>0
        <5>2. pages[j][q] = list[p]
          BY <3>12, <5>1, Zenon
        <5> QED BY <3>11, <4>2, <5>0, <5>2
      <4>3. CASE i # index /\ j = index
        <5>0. i \in 1..(index - 1)
          BY <1>1, <4>3
        <5>1. pages'[i] = pages[i] /\ pages'[j] = list
          BY <3>4, <4>3, <5>0
        <5>2. pages[i][p] = list[q]
          BY <3>12, <5>1, Zenon
        <5> QED BY <3>11, <4>3, <5>0, <5>2
      <4>4. CASE i # index /\ j # index
        <5>0. i \in 1..(index - 1) /\ j \in 1..(index - 1)
          BY <1>1, <4>4
        <5>1. i \in 1..Last /\ j \in 1..Last
          BY <2>1, <5>0
        <5>2. pages'[i] = pages[i] /\ pages'[j] = pages[j]
          BY <3>4, <5>0
        <5>3. pages[i][p] = pages[j][q]
          BY <3>12, <5>2, Zenon
        <5> QED BY <1>1, <5>1, <5>3 DEF MappedInv
      <4> QED BY <4>1, <4>2, <4>3, <4>4
    <3>13. MappedInv'
      <4>1. \A i \in 1..Last' : Mapped(i, first, pages[i])'
        BY <3>2, <3>10
      <4>2. \A i, j \in 1..Last' : \A p \in 1..PageCount(i)', q \in 1..PageCount(j)' :
              pages'[i][p] = pages'[j][q] => i = j /\ p = q
        BY <3>2, <3>7, <3>12
      <4> QED BY <3>7, <3>9, <4>1, <4>2 DEF MappedInv
    <3>14. ResolvedInv' /\ BuiltInv' /\ WrittenInv' /\ RefusalInv'
      BY <3>1 DEF ResolvedInv, BuiltInv, WrittenInv, RefusalInv
    <3> QED BY <3>5, <3>13, <3>14 DEF MemoryInv
  <2> QED BY <2>5, <2>6
<1> QED BY <1>2, <1>3 DEF MapGenerated

-----------------------------------------------------------------------------
(***************************************************************************)
(* Resolution.                                                             *)
(***************************************************************************)

LEMMA Multiple ==
  ASSUME NEW f \in Nat
  PROVE  PageBytes * f \in Nat /\ (PageBytes * f) % PageBytes = 0
<1>1. PageBytes \in Nat \ {0} /\ 0 \in 0..(PageBytes - 1)
  BY Constants
<1>2. (PageBytes * f + 0) % PageBytes = 0
  BY <1>1, DivisionUnique
<1>3. PageBytes * f \in Nat
  BY <1>1
<1>4. PageBytes * f + 0 = PageBytes * f
  BY <1>3
<1> QED BY <1>2, <1>3, <1>4

\* All ten buffers are mapped.
Laid ==
  /\ in \in Inputs /\ ManifestValid
  /\ \A i \in 1..10 :
       /\ Len(pages[i]) = PageCount(i) /\ DOMAIN pages[i] = 1..PageCount(i)
       /\ \A p \in 1..PageCount(i) : \E f \in 0..MaxFrame : pages[i][p] = PageBytes * f
       /\ i \notin {1, 5} =>
            /\ IsLinearDmaPageList(pages[i])
            /\ \A p \in 1..PageCount(i) : pages[i][p] = pages[i][1] + PageBytes * (p - 1)
  /\ \A i, j \in 1..10 : \A p \in 1..PageCount(i), q \in 1..PageCount(j) :
       pages[i][p] = pages[j][q] => i = j /\ p = q

LEMMA MappedIsLaid ==
  ASSUME MemoryInv, pc \in {"resolve", "build", "populate", "sequence", "ready"}
  PROVE  /\ Laid
         /\ frame = TotalPages
            \/ \A i \in 1..10 : \A p \in 1..PageCount(i) : pages[i][p] # 0
<1>1. in \in Inputs /\ MappedInv /\ Last = 10
  BY DEF MemoryInv, StepInv, Last
<1>2. /\ ManifestValid /\ frame <= MaxFrame + 1
      /\ \A i, j \in 1..10 : \A p \in 1..PageCount(i), q \in 1..PageCount(j) :
           pages[i][p] = pages[j][q] => i = j /\ p = q
  BY <1>1 DEF MappedInv
<1>3. PICK first \in {0, 1} : /\ frame = first + Base(Last + 1)
                              /\ \A i \in 1..Last : Mapped(i, first, pages[i])
  BY <1>1 DEF MappedInv
<1>4. Base(Last + 1) = TotalPages /\ TotalPages \in Nat
  <2>1. Last + 1 = 11 /\ Base(11) = TotalPages
    BY <1>1, <1>2, BaseFacts
  <2>2. Base(10 + 1) = Base(10) + PageCount(10) /\ Base(10) \in Nat /\ PageCount(10) \in Nat
    BY <1>1, <1>2, BaseFacts, BufferFacts
  <2> QED BY <2>1, <2>2
<1>5. frame \in Nat /\ first..(frame - 1) \subseteq 0..MaxFrame
  BY <1>2, <1>3, <1>4, Constants
<1>6. \A i \in 1..10 : Mapped(i, first, pages[i])
  BY <1>1, <1>3
<1>7. Laid
  <2>1. ASSUME NEW i \in 1..10, NEW p \in 1..PageCount(i)
        PROVE  \E f \in 0..MaxFrame : pages[i][p] = PageBytes * f
    <3>1. PICK f \in first..(frame - 1) : pages[i][p] = PageBytes * f
      BY <1>6 DEF Mapped
    <3>2. f \in 0..MaxFrame
      BY <1>5
    <3> QED BY <3>1, <3>2
  <2>2. \A i \in 1..10 :
          /\ Len(pages[i]) = PageCount(i) /\ DOMAIN pages[i] = 1..PageCount(i)
          /\ i \notin {1, 5} =>
               /\ IsLinearDmaPageList(pages[i])
               /\ \A p \in 1..PageCount(i) : pages[i][p] = pages[i][1] + PageBytes * (p - 1)
    BY <1>6 DEF Mapped
  <2> QED BY <1>1, <1>2, <2>1, <2>2 DEF Laid
<1>8. ASSUME first = 1, NEW i \in 1..10, NEW p \in 1..PageCount(i) PROVE pages[i][p] # 0
  <2>1. PICK f \in first..(frame - 1) : pages[i][p] = PageBytes * f
    BY <1>6 DEF Mapped
  <2>2. f \in Nat \ {0}
    BY <1>5, <1>8
  <2> QED BY <2>1, <2>2, Constants
<1> QED BY <1>3, <1>4, <1>7, <1>8

\* The staged package always resolves.
LEMMA SummaryFacts ==
  ASSUME in \in Inputs, ManifestValid, staged = StagedOf(in)
  PROVE  LET plan == PlanPackageDmaStaging(in.size)
             summary == ResolvePackageDmaSummary(plan, staged)
         IN  /\ summary # None
             /\ \A k \in Sections : LinearSection(k) =>
                  /\ summary.entry[k].base = staged[k][1] /\ summary.entry[k].base # 0
                  /\ staged[k][1] % PageBytes = 0
                  /\ summary.entry[k].allocationBytes = RoundUp(in.size[k], PageBytes)
<1> DEFINE plan == PlanPackageDmaStaging(in.size)
           summary == ResolvePackageDmaSummary(plan, staged)
<1>1. in.size \in [Sections -> Nat] /\ \A k \in Sections : in.size[k] \in Nat \ {0}
  BY InputFacts DEF ManifestValid
<1>2. \A k \in Sections : /\ plan[k].linear = LinearSection(k)
                          /\ plan[k].allocationBytes = RoundUp(in.size[k], PageBytes)
                          /\ plan[k].pageCount = Pages(in.size[k])
  BY DEF PlanPackageDmaStaging
<1> HIDE DEF plan
<1>3. ASSUME NEW k \in Sections
      PROVE  /\ plan[k].allocationBytes # 0
             /\ Len(staged[k]) = plan[k].pageCount
             /\ \A i \in DOMAIN staged[k] : staged[k][i] % PageBytes = 0
             /\ plan[k].linear => IsLinearDmaPageList(staged[k])
             /\ LinearSection(k) => staged[k][1] # 0 /\ staged[k][1] % PageBytes = 0
  <2> DEFINE n == Pages(in.size[k])
             b == StagedBase(k)
  <2>1. n \in Nat \ {0}
    BY <1>1, CeilPositive, Constants DEF Pages
  <2>2. b \in Nat \ {0}
    BY Constants DEF StagedBase
  <2>3. staged[k] = IF LinearSection(k) THEN Ascending(b, n) ELSE Descending(b, n)
    BY DEF StagedOf
  <2>4. RoundUp(in.size[k], PageBytes) # 0
    <3>1. /\ in.size[k] <= PageBytes * CeilDiv(in.size[k], PageBytes)
          /\ RoundUp(in.size[k], PageBytes) = PageBytes * CeilDiv(in.size[k], PageBytes)
      BY <1>1, CeilFacts, Constants
    <3> QED BY <1>1, <3>1
  <2> HIDE DEF n, b
  <2>5. staged[k] \in PageLists(b, n)
    BY <2>3 DEF PageLists
  <2>6. ListOf(staged[k], b, n)
    BY <2>1, <2>2, <2>5, ListFacts
  <2>7. ASSUME NEW i \in DOMAIN staged[k] PROVE staged[k][i] % PageBytes = 0
    <3>1. PICK f \in b..(b + n - 1) : staged[k][i] = PageBytes * f
      BY <2>6 DEF ListOf
    <3>2. f \in Nat
      BY <2>1, <2>2
    <3> QED BY <3>1, <3>2, Multiple
  <2>8. ASSUME LinearSection(k)
        PROVE  /\ IsLinearDmaPageList(staged[k]) /\ staged[k][1] # 0
               /\ staged[k][1] % PageBytes = 0
    <3>1. \A p \in 1..n : staged[k][p] = PageBytes * (b + p - 1)
      BY <2>3, <2>8 DEF Ascending
    <3>2. staged[k] # <<>> /\ Len(staged[k]) = n
      BY <2>1, <2>6 DEF ListOf
    <3>3. ASSUME NEW i \in 2..n PROVE staged[k][i] = staged[k][i - 1] + PageBytes
      <4>1. i \in 1..n /\ i - 1 \in 1..n
        BY <2>1
      <4>2. staged[k][i] = PageBytes * (b + i - 1) /\ staged[k][i - 1] = PageBytes * (b + (i - 1) - 1)
        BY <3>1, <4>1
      <4>3. PageBytes * (b + i - 1) = PageBytes * (b + (i - 1) - 1) + PageBytes
        BY <2>2, <4>1, Constants
      <4> QED BY <4>2, <4>3, Zenon
    <3>4. staged[k][1] # 0
      <4>1. staged[k][1] = PageBytes * b
        BY <2>1, <2>2, <3>1
      <4> QED BY <2>2, <4>1, Constants
    <3>5. 1 \in DOMAIN staged[k]
      BY <2>1, <2>6 DEF ListOf
    <3> QED BY <2>7, <3>2, <3>3, <3>4, <3>5 DEF IsLinearDmaPageList
  <2> QED BY <1>2, <2>4, <2>6, <2>7, <2>8 DEF ListOf, n
<1>4. summary = [kind |-> "summary",
                 entry |-> [k \in Sections |->
                   [base |-> staged[k][1], allocationBytes |-> plan[k].allocationBytes]]]
  BY <1>3 DEF ResolvePackageDmaSummary
<1> HIDE DEF summary
<1>5. summary # None
  <2>1. summary.kind = "summary"
    BY <1>4
  <2> QED BY <2>1 DEF None
<1>6. \A k \in Sections : /\ summary.entry[k].base = staged[k][1]
                          /\ summary.entry[k].allocationBytes = plan[k].allocationBytes
  BY <1>4
<1> QED BY <1>2, <1>3, <1>5, <1>6 DEF summary, plan

LEMMA PlanStep ==
  ASSUME MemoryInv, PlanPreparation
  PROVE  MemoryInv'
<1>1. pc = "plan" /\ StepInv
  BY DEF MemoryInv, PlanPreparation
<1>0. ManifestValid => PackageSummary # None
  BY <1>1, SummaryFacts DEF StepInv, PackageSummary
<1>2. CASE ManifestValid
  <2>1. /\ pc' = "map"
        /\ UNCHANGED <<in, staged, index, frame, pages, addresses, artifacts, mem, status,
                       faulted, readPtr, received>>
    BY <1>0, <1>2 DEF PlanPreparation, gspVars
  <2>2. StepInv'
    BY <1>1, <2>1 DEF StepInv, Steps
  <2>3. MappedInv'
    <3>1. ManifestValid' /\ Base(1)' = Base(1) /\ Base(1) = 0
      BY <1>1, <1>2, <2>1, SameInput, BaseFacts DEF StepInv
    <3>2. Last' = 0 /\ frame' \in {0, 1} /\ 1..0 = {}
      BY <1>1, <2>1 DEF StepInv, Last
    <3>3. frame' = frame' + Base(1)' /\ frame' <= MaxFrame + 1
      BY <3>1, <3>2, Constants
    <3>4. Base(Last + 1)' = Base(1)'
      BY <3>2
    <3> QED BY <3>1, <3>2, <3>3, <3>4 DEF MappedInv
  <2>4. ResolvedInv' /\ BuiltInv' /\ WrittenInv' /\ RefusalInv'
    BY <2>1 DEF ResolvedInv, BuiltInv, WrittenInv, RefusalInv
  <2> QED BY <2>2, <2>3, <2>4 DEF MemoryInv
<1>3. CASE ~ManifestValid
  <2>1. Fail("ProfileRejected")
    BY <1>3 DEF PlanPreparation, Refuse
  <2>2. RefusalInv'
    <3>1. status' = "ProfileRejected" /\ in' = in
      BY <2>1 DEF Fail
    <3>2. ~ManifestValid'
      BY <1>3, <3>1, SameInput
    <3> QED BY <3>1, <3>2 DEF RefusalInv
  <2> QED BY <1>1, <2>1, <2>2, FailStep
<1> QED BY <1>2, <1>3

LinearSections == {"GspFirmwareSignature", "GspBootloader"}

\* The only reason not to resolve is a page at address zero.
LEMMA ResolveFacts ==
  ASSUME Laid, staged = StagedOf(in)
  PROVE  IF \A i \in 1..10 : \A p \in 1..PageCount(i) : pages[i][p] # 0
           THEN ResolveGa10xBootMemory =
                  [kind |-> "addresses",
                   queueBacking |-> pages[1][1], cachedArguments |-> pages[2][1],
                   libosInitArguments |-> pages[3][1], wprMetadata |-> pages[4][1],
                   radix3FirmwareRoot |-> pages[5][1],
                   firmwareSignature |-> staged["GspFirmwareSignature"][1],
                   gspBootloader |-> staged["GspBootloader"][1]]
           ELSE ResolveGa10xBootMemory = None
<1> DEFINE summary == PackageSummary
           zero == \E i \in 1..10 : 0 \in {pages[i][p] : p \in 1..Len(pages[i])}
<1>1. in \in Inputs /\ ManifestValid
  BY DEF Laid
<1>2. /\ summary # None
      /\ \A k \in Sections : LinearSection(k) =>
           /\ summary.entry[k].base = staged[k][1] /\ summary.entry[k].base # 0
           /\ summary.entry[k].allocationBytes = RoundUp(in.size[k], PageBytes)
  BY <1>1, SummaryFacts DEF PackageSummary
<1>3. \A k \in LinearSections : k \in Sections /\ LinearSection(k)
  BY DEF LinearSections, Sections, LinearSection
<1>4. \A i \in 1..10 : /\ Len(pages[i]) = PageCount(i)
                       /\ LinearGenerated(i) => IsLinearDmaPageList(pages[i])
  BY <1>1, BufferFacts DEF Laid
<1>5. ~zero <=> \A i \in 1..10 : \A p \in 1..PageCount(i) : pages[i][p] # 0
  BY <1>4
<1> HIDE DEF zero, summary
<1>6. ResolveGa10xBootMemory =
        IF \/ summary = None
           \/ \E i \in 1..10 : \/ Len(pages[i]) # PageCount(i)
                               \/ 0 \in {pages[i][p] : p \in 1..Len(pages[i])}
                               \/ LinearGenerated(i) /\ ~IsLinearDmaPageList(pages[i])
           \/ \E k \in LinearSections :
                \/ summary.entry[k].base = 0
                \/ summary.entry[k].allocationBytes # RoundUp(in.size[k], PageBytes)
          THEN None
          ELSE [kind |-> "addresses",
                queueBacking |-> pages[1][1], cachedArguments |-> pages[2][1],
                libosInitArguments |-> pages[3][1], wprMetadata |-> pages[4][1],
                radix3FirmwareRoot |-> pages[5][1],
                firmwareSignature |-> summary.entry["GspFirmwareSignature"].base,
                gspBootloader |-> summary.entry["GspBootloader"].base]
  BY Zenon DEF ResolveGa10xBootMemory, summary, LinearSections
<1>7. /\ ~(\E k \in LinearSections :
             \/ summary.entry[k].base = 0
             \/ summary.entry[k].allocationBytes # RoundUp(in.size[k], PageBytes))
      /\ summary.entry["GspFirmwareSignature"].base = staged["GspFirmwareSignature"][1]
      /\ summary.entry["GspBootloader"].base = staged["GspBootloader"][1]
  BY <1>2, <1>3 DEF LinearSections
<1>8. (\E i \in 1..10 : \/ Len(pages[i]) # PageCount(i)
                        \/ 0 \in {pages[i][p] : p \in 1..Len(pages[i])}
                        \/ LinearGenerated(i) /\ ~IsLinearDmaPageList(pages[i])) <=> zero
  BY <1>4 DEF zero
<1>9. CASE zero
  BY <1>5, <1>6, <1>8, <1>9, Zenon
<1>10. CASE ~zero
  BY <1>2, <1>5, <1>6, <1>7, <1>8, <1>10, Zenon
<1> QED BY <1>9, <1>10

LEMMA SameLayout ==
  ASSUME in' = in, staged' = staged, pages' = pages
  PROVE  /\ ResolveGa10xBootMemory' = ResolveGa10xBootMemory
         /\ addresses' = addresses =>
              BuildResolvedArtifacts(addresses)' = BuildResolvedArtifacts(addresses)
<1>1. /\ Queues' = Queues /\ Radix' = Radix /\ \A i : PageCount(i)' = PageCount(i)
  BY SameInput
<1>2. ResolveGa10xBootMemory' = ResolveGa10xBootMemory
  BY <1>1 DEF ResolveGa10xBootMemory, PackageSummary
<1>3. LibosRegions' = LibosRegions
  BY DEF LibosRegions
<1>4. ASSUME addresses' = addresses
      PROVE  BuildResolvedArtifacts(addresses)' = BuildResolvedArtifacts(addresses)
  BY <1>1, <1>3, <1>4 DEF BuildResolvedArtifacts, BuildWprMeta, AddressesOk
<1> QED BY <1>2, <1>4

LEMMA StaysMapped ==
  ASSUME MappedInv, pc \in {"resolve", "build", "populate", "sequence", "ready"},
         pc' \in {"resolve", "build", "populate", "sequence", "ready"},
         in' = in, pages' = pages, frame' = frame
  PROVE  MappedInv'
<1>1. (ManifestValid' <=> ManifestValid) /\ Last' = 10 /\ Last = 10
  BY SameInput DEF Last
<1>2. /\ \A i : PageCount(i)' = PageCount(i)
      /\ Base(11)' = Base(11)
  BY SameInput
<1>3. Base(Last + 1)' = Base(11)' /\ Base(Last + 1) = Base(11)
  BY <1>1 DEF Base
<1>4. \A i, first : Mapped(i, first, pages[i])' <=> Mapped(i, first, pages[i])
  BY <1>2 DEF Mapped
<1>5. ManifestValid' /\ frame' <= MaxFrame + 1
  BY <1>1 DEF MappedInv
<1>6. \E first \in {0, 1} : /\ frame' = first + Base(Last + 1)'
                            /\ \A i \in 1..Last' : Mapped(i, first, pages[i])'
  <2>1. PICK first \in {0, 1} : /\ frame = first + Base(Last + 1)
                                /\ \A i \in 1..Last : Mapped(i, first, pages[i])
    BY DEF MappedInv
  <2>2. frame' = first + Base(Last + 1)'
    BY <1>2, <1>3, <2>1
  <2>3. \A i \in 1..Last' : Mapped(i, first, pages[i])'
    BY <1>1, <1>4, <2>1
  <2> QED BY <2>2, <2>3
<1>7. \A i, j \in 1..Last' : \A p \in 1..PageCount(i)', q \in 1..PageCount(j)' :
        pages'[i][p] = pages'[j][q] => i = j /\ p = q
  <2>1. \A i, j \in 1..Last : \A p \in 1..PageCount(i), q \in 1..PageCount(j) :
          pages[i][p] = pages[j][q] => i = j /\ p = q
    BY DEF MappedInv
  <2>2. ASSUME NEW i \in 1..10, NEW j \in 1..10, NEW p \in 1..PageCount(i)',
               NEW q \in 1..PageCount(j)', pages'[i][p] = pages'[j][q]
        PROVE  i = j /\ p = q
    <3>1. p \in 1..PageCount(i) /\ q \in 1..PageCount(j)
      BY <1>2, <2>2
    <3>2. pages[i][p] = pages[j][q]
      BY <2>2
    <3>3. i \in 1..Last /\ j \in 1..Last
      BY <1>1
    <3> QED BY <2>1, <3>1, <3>2, <3>3, Zenon
  <2> QED BY <1>1, <2>2
<1> QED BY <1>5, <1>6, <1>7 DEF MappedInv

LEMMA ResolveStep ==
  ASSUME MemoryInv, ResolveAddresses
  PROVE  MemoryInv'
<1>1. /\ pc = "resolve" /\ StepInv /\ MappedInv /\ staged = StagedOf(in) /\ Laid
      /\ frame = TotalPages \/ \A i \in 1..10 : \A p \in 1..PageCount(i) : pages[i][p] # 0
  BY MappedIsLaid DEF MemoryInv, StepInv, ResolveAddresses
<1>2. CASE ResolveGa10xBootMemory = None
  <2>1. Fail("AddressResolveFailed")
    BY <1>2 DEF ResolveAddresses, Refuse
  <2>2. in' = in /\ frame' = frame /\ status' = "AddressResolveFailed"
    BY <2>1 DEF Fail
  <2>3. frame = TotalPages
    <3>1. CASE \A i \in 1..10 : \A p \in 1..PageCount(i) : pages[i][p] # 0
      <4>1. ResolveGa10xBootMemory.kind = "addresses"
        BY <1>1, <3>1, ResolveFacts
      <4> QED BY <1>2, <4>1 DEF None
    <3> QED BY <1>1, <3>1
  <2>4. frame' = TotalPages'
    BY <2>2, <2>3, SameInput
  <2>5. RefusalInv'
    BY <2>2, <2>4 DEF RefusalInv
  <2> QED BY <1>1, <2>1, <2>5, FailStep
<1>3. CASE ResolveGa10xBootMemory # None
  <2>1. /\ addresses' = ResolveGa10xBootMemory /\ pc' = "build"
        /\ UNCHANGED <<in, staged, index, frame, pages, artifacts, mem, status, faulted,
                       readPtr, received>>
    BY <1>3 DEF ResolveAddresses, gspVars
  <2>2. StepInv'
    BY <1>1, <2>1 DEF StepInv, Steps
  <2>3. MappedInv'
    BY <1>1, <2>1, StaysMapped
  <2>4. ResolvedInv'
    <3>1. ResolveGa10xBootMemory' = ResolveGa10xBootMemory
      BY <2>1, SameLayout
    <3> QED BY <1>3, <2>1, <3>1 DEF ResolvedInv
  <2>5. BuiltInv' /\ WrittenInv' /\ RefusalInv'
    BY <2>1 DEF BuiltInv, WrittenInv, RefusalInv
  <2> QED BY <2>2, <2>3, <2>4, <2>5 DEF MemoryInv
<1> QED BY <1>2, <1>3

-----------------------------------------------------------------------------
(***************************************************************************)
(* The artifacts.                                                          *)
(***************************************************************************)

LEMMA PagesAreAligned ==
  ASSUME Laid, NEW i \in 1..10
  PROVE  ~\E p \in DOMAIN pages[i] : pages[i][p] % PageBytes # 0
<1>1. ASSUME NEW p \in DOMAIN pages[i] PROVE pages[i][p] % PageBytes = 0
  <2>1. PICK f \in 0..MaxFrame : pages[i][p] = PageBytes * f
    BY DEF Laid
  <2>2. f \in Nat
    BY Constants
  <2> QED BY <2>1, <2>2, Multiple
<1> QED BY <1>1

\* Whatever was resolved passes AddressesOk.
LEMMA AddressesAligned ==
  ASSUME MemoryInv, pc \in {"build", "populate", "sequence", "ready"}
  PROVE  AddressesOk(addresses)
<1>1. /\ Laid /\ staged = StagedOf(in) /\ ResolveGa10xBootMemory # None
      /\ addresses = ResolveGa10xBootMemory
  BY MappedIsLaid DEF MemoryInv, StepInv, ResolvedInv
<1>2. addresses =
        [kind |-> "addresses",
         queueBacking |-> pages[1][1], cachedArguments |-> pages[2][1],
         libosInitArguments |-> pages[3][1], wprMetadata |-> pages[4][1],
         radix3FirmwareRoot |-> pages[5][1],
         firmwareSignature |-> staged["GspFirmwareSignature"][1],
         gspBootloader |-> staged["GspBootloader"][1]]
  BY <1>1, ResolveFacts, Zenon
<1>3. \A i \in 1..10 : pages[i][1] % PageBytes = 0
  <2>1. ASSUME NEW i \in 1..10 PROVE 1 \in DOMAIN pages[i]
    <3>1. PageCount(i) \in Nat \ {0}
      BY <1>1, BufferFacts DEF Laid
    <3>2. DOMAIN pages[i] = 1..PageCount(i)
      BY <1>1, Zenon DEF Laid
    <3> QED BY <3>1, <3>2
  <2> QED BY <1>1, <2>1, PagesAreAligned
<1>4. \A k \in LinearSections : staged[k][1] % PageBytes = 0
  BY <1>1, SummaryFacts DEF Laid, LinearSections, Sections, LinearSection
<1> QED BY <1>2, <1>3, <1>4 DEF AddressesOk, LinearSections

\* The firmware tree is always built.
LEMMA RadixArtifact ==
  ASSUME Laid
  PROVE  /\ Len(pages[5]) = Radix.allocationPages
         /\ BuildRadix3AllocationImage(Radix, pages[5]) =
              [kind |-> "image", bytes |-> Radix.allocationPages * PageBytes,
               pages |-> [p \in 0..(Radix.allocationPages - 1) |->
                           IF p < Radix.firstPage[3]
                             THEN BuildRadix3Tables(Radix, pages[5])[p]
                             ELSE FirmwarePage(p - Radix.firstPage[3])]]
<1>1. Len(pages[5]) = Radix.allocationPages
  BY BufferFacts DEF Laid
<1>2. ~\E p \in DOMAIN pages[5] : pages[5][p] % PageBytes # 0
  BY PagesAreAligned
<1> QED BY <1>1, <1>2 DEF BuildRadix3AllocationImage

\* The queue memory is built when its table has counted its pages and the command
\* queue takes the two records.
QueueArtifact ==
  LET first == Queues.commandQueueOffset \div PageBytes
      second == Queues.statusQueueOffset \div PageBytes
      command == BuildBootstrapCommandQueue(Queues, in.registryBytes)
  IN  [kind |-> "image", bytes |-> Queues.totalBytes,
       pages |-> [p \in 0..(Pages(Queues.totalBytes) - 1) |->
         IF p < first
           THEN TablePages(Len(pages[1]), [i \in 0..(Len(pages[1]) - 1) |-> pages[1][i + 1]],
                           Queues.pageTableBytes \div PageBytes, QueueEntriesPerPage)[p]
         ELSE IF p < second THEN command.pages[p - first]
         ELSE ZeroPage]]

LEMMA QueueArtifactFacts ==
  ASSUME Laid
  PROVE  IF \/ Len(pages[1]) # Queues.pageTableEntryCount
            \/ BuildBootstrapCommandQueue(Queues, in.registryBytes) = None
           THEN BuildSharedQueueAllocationImage(Queues, pages[1], in.registryBytes) = None
           ELSE BuildSharedQueueAllocationImage(Queues, pages[1], in.registryBytes) = QueueArtifact
<1> DEFINE command == BuildBootstrapCommandQueue(Queues, in.registryBytes)
           table == BuildQueuePageTable(Queues, pages[1])
<1>1. /\ pages[1] # <<>> /\ ~\E p \in DOMAIN pages[1] : pages[1][p] % PageBytes # 0
      /\ ~(Queues.pageTableEntryCount * PteBytes > Queues.pageTableBytes)
  <2>1. Len(pages[1]) \in Nat \ {0}
    BY BufferFacts DEF Laid
  <2>2. pages[1] # <<>>
    BY <2>1
  <2>3. ~\E p \in DOMAIN pages[1] : pages[1][p] % PageBytes # 0
    BY PagesAreAligned
  <2>4. QueuesOf(Queues, in.queueBytes)
    BY PlanFacts DEF Laid
  <2> QED BY <2>2, <2>3, <2>4 DEF QueuesOf
<1>2. CASE Len(pages[1]) # Queues.pageTableEntryCount
  <2>1. table = None
    BY <1>2 DEF BuildQueuePageTable
  <2> QED BY <1>2, <2>1 DEF BuildSharedQueueAllocationImage
<1>3. CASE Len(pages[1]) = Queues.pageTableEntryCount
  <2> DEFINE spread == TablePages(Len(pages[1]), [i \in 0..(Len(pages[1]) - 1) |-> pages[1][i + 1]],
                                  Queues.pageTableBytes \div PageBytes, QueueEntriesPerPage)
  <2>1. table = [kind |-> "table", pages |-> spread]
    BY <1>1, <1>3 DEF BuildQueuePageTable
  <2> HIDE DEF table, spread
  <2>2. table # None /\ table.pages = spread
    <3>1. table.kind = "table"
      BY <2>1
    <3> QED BY <2>1, <3>1 DEF None
  <2>3. CASE command = None
    BY <1>3, <2>3 DEF BuildSharedQueueAllocationImage
  <2>4. CASE command # None
    <3>1. BuildSharedQueueAllocationImage(Queues, pages[1], in.registryBytes) =
            [kind |-> "image", bytes |-> Queues.totalBytes,
             pages |-> [p \in 0..(Pages(Queues.totalBytes) - 1) |->
               IF p < Queues.commandQueueOffset \div PageBytes THEN table.pages[p]
               ELSE IF p < Queues.statusQueueOffset \div PageBytes
                 THEN command.pages[p - Queues.commandQueueOffset \div PageBytes]
               ELSE ZeroPage]]
      BY <1>1, <2>2, <2>4 DEF BuildSharedQueueAllocationImage, table
    <3> QED BY <1>3, <2>2, <2>4, <3>1 DEF QueueArtifact, spread
  <2> QED BY <2>3, <2>4
<1> QED BY <1>2, <1>3

\* What was built.
Built(a) ==
  /\ Len(pages[1]) = Queues.pageTableEntryCount
  /\ BuildBootstrapCommandQueue(Queues, in.registryBytes) # None
  /\ a[1] = QueueArtifact
  /\ a[2] = OnePage(BuildCachedArguments(Queues, addresses.queueBacking))
  /\ a[3] = OnePage([kind |-> "libos", regions |-> LibosRegions])
  /\ a[4] = OnePage(BuildWprMeta(addresses))
  /\ a[5] = BuildRadix3AllocationImage(Radix, pages[5])

LEMMA BuildFacts ==
  ASSUME Laid, AddressesOk(addresses)
  PROVE  IF BuildResolvedArtifacts(addresses) = <<>>
           THEN \/ Pages(Queues.totalBytes) # Queues.pageTableEntryCount
                \/ BuildBootstrapCommandQueue(Queues, in.registryBytes) = None
           ELSE Built(BuildResolvedArtifacts(addresses))
<1> DEFINE shared == BuildSharedQueueAllocationImage(Queues, pages[1], in.registryBytes)
           radix == BuildRadix3AllocationImage(Radix, pages[5])
           command == BuildBootstrapCommandQueue(Queues, in.registryBytes)
           five == << shared, OnePage(BuildCachedArguments(Queues, addresses.queueBacking)),
                      OnePage([kind |-> "libos", regions |-> LibosRegions]),
                      OnePage(BuildWprMeta(addresses)), radix >>
<1>1. Len(pages[5]) = Radix.allocationPages /\ radix # None
  <2>1. radix.kind = "image"
    BY RadixArtifact
  <2> QED BY <2>1, RadixArtifact DEF None
<1>2. BuildResolvedArtifacts(addresses) =
        IF \/ ~AddressesOk(addresses)
           \/ Len(pages[1]) # Queues.pageTableEntryCount
           \/ Len(pages[5]) # Radix.allocationPages
           \/ None \in {shared, radix}
          THEN <<>> ELSE five
  BY Zenon DEF BuildResolvedArtifacts
<1>3. five # <<>>
  <2>1. Len(five) = 5
    OBVIOUS
  <2> HIDE DEF five
  <2>2. Len(<<>>) = 0
    OBVIOUS
  <2> QED BY <2>1, <2>2
<1>4. CASE \/ Len(pages[1]) # Queues.pageTableEntryCount
           \/ command = None
  <2>1. shared = None \/ Len(pages[1]) # Queues.pageTableEntryCount
    BY <1>4, QueueArtifactFacts
  <2>2. BuildResolvedArtifacts(addresses) = <<>>
    BY <1>2, <2>1
  <2>3. Len(pages[1]) = Pages(Queues.totalBytes)
    BY BufferFacts DEF Laid, PageCount
  <2> QED BY <1>4, <2>2, <2>3
<1>5. CASE Len(pages[1]) = Queues.pageTableEntryCount /\ command # None
  <2>1. shared = QueueArtifact
    BY <1>5, QueueArtifactFacts
  <2>2. QueueArtifact # None
    <3>1. QueueArtifact.kind = "image"
      BY DEF QueueArtifact
    <3> QED BY <3>1 DEF None
  <2> HIDE DEF shared, radix, command
  <2>3. BuildResolvedArtifacts(addresses) = five
    BY <1>1, <1>2, <1>5, <2>1, <2>2
  <2>4. /\ five[1] = shared /\ five[2] = OnePage(BuildCachedArguments(Queues, addresses.queueBacking))
        /\ five[3] = OnePage([kind |-> "libos", regions |-> LibosRegions])
        /\ five[4] = OnePage(BuildWprMeta(addresses)) /\ five[5] = radix
    OBVIOUS
  <2> HIDE DEF five
  <2> QED BY <1>3, <1>5, <2>1, <2>3, <2>4 DEF Built, radix, command
<1> QED BY <1>4, <1>5

LEMMA BuildStep ==
  ASSUME MemoryInv, BuildArtifacts
  PROVE  MemoryInv'
<1>1. /\ pc = "build" /\ StepInv /\ MappedInv /\ ResolvedInv /\ Laid
      /\ AddressesOk(addresses)
  BY MappedIsLaid, AddressesAligned DEF MemoryInv, BuildArtifacts
<1>2. CASE KernelFails("SystemInfoFailed")
  BY <1>1, <1>2, KernelFailsStep
<1>3. CASE Refuse("ArtifactBuildFailed") /\ BuildResolvedArtifacts(addresses) = <<>>
  <2>1. Fail("ArtifactBuildFailed")
    BY <1>3 DEF Refuse
  <2>2. in' = in /\ status' = "ArtifactBuildFailed"
    BY <2>1 DEF Fail
  <2>3. \/ Pages(Queues.totalBytes) # Queues.pageTableEntryCount
        \/ BuildBootstrapCommandQueue(Queues, in.registryBytes) = None
    BY <1>1, <1>3, BuildFacts
  <2>4. \/ Pages(Queues'.totalBytes) # Queues'.pageTableEntryCount
        \/ BuildBootstrapCommandQueue(Queues', in'.registryBytes) = None
    <3>1. Queues' = Queues
      BY <2>2, SameInput
    <3> QED BY <2>2, <2>3, <3>1
  <2>5. RefusalInv'
    BY <2>2, <2>4 DEF RefusalInv
  <2> QED BY <1>1, <2>1, <2>5, FailStep
<1>4. CASE /\ BuildResolvedArtifacts(addresses) # <<>>
           /\ artifacts' = BuildResolvedArtifacts(addresses)
           /\ pc' = "populate"
           /\ UNCHANGED <<in, staged, index, frame, pages, addresses, mem, status, faulted,
                          gspVars>>
  <2>1. UNCHANGED <<in, staged, index, frame, pages, addresses, mem, status, faulted,
                    readPtr, received>> /\ pc' = "populate" /\ index = 1 /\ mem = Blank
    BY <1>1, <1>4 DEF gspVars, StepInv
  <2>2. StepInv'
    BY <1>1, <2>1 DEF StepInv, Steps
  <2>3. MappedInv'
    BY <1>1, <2>1, StaysMapped
  <2>4. ResolvedInv' /\ BuiltInv'
    <3>1. /\ ResolveGa10xBootMemory' = ResolveGa10xBootMemory
          /\ BuildResolvedArtifacts(addresses)' = BuildResolvedArtifacts(addresses)
      BY <2>1, SameLayout
    <3>2. ResolvedInv'
      BY <1>1, <2>1, <3>1 DEF ResolvedInv
    <3>3. BuiltInv'
      BY <1>4, <3>1 DEF BuiltInv
    <3> QED BY <3>2, <3>3
  <2>5. WrittenInv'
    <3>1. 0 \in Frames
      <4>1. 0 \in 0..MaxFrame /\ PageBytes * 0 = 0
        BY Constants
      <4> QED BY <4>1 DEF Frames
    <3>2. mem'[0] = Unwritten
      BY <2>1, <3>1 DEF Blank
    <3>3. Written' = 0 /\ 1..0 = {}
      BY <2>1 DEF Written
    <3> QED BY <3>2, <3>3 DEF WrittenInv
  <2>6. RefusalInv'
    BY <2>1 DEF RefusalInv
  <2> QED BY <2>2, <2>3, <2>4, <2>5, <2>6 DEF MemoryInv
<1> QED BY <1>2, <1>3, <1>4 DEF BuildArtifacts

\* The size of every artifact is that of its buffer, except that a firmware image
\* that ends within a page is padded.
LEMMA ArtifactSizes ==
  ASSUME Laid, Built(artifacts), NEW i \in 1..10, ~SizeAgrees(i)
  PROVE  in.size["GspFirmwareImage"] % PageBytes # 0
<1> DEFINE bytes == in.size["GspFirmwareImage"]
<1>1. i \in {1, 2, 3, 4, 5} /\ artifacts[i].bytes # LogicalBytes(i)
  BY DEF SizeAgrees, Logs
<1>2. /\ LogicalBytes(1) = Queues.totalBytes /\ LogicalBytes(5) = Radix.allocationBytes
      /\ \A j \in 2..4 : LogicalBytes(j) = PageBytes
  BY BufferFacts DEF Laid
<1>3. artifacts[1].bytes = LogicalBytes(1)
  <2>1. artifacts[1].bytes = QueueArtifact.bytes
    BY DEF Built
  <2>2. QueueArtifact.bytes = Queues.totalBytes
    BY DEF QueueArtifact
  <2> QED BY <1>2, <2>1, <2>2
<1>4. \A j \in 2..4 : artifacts[j].bytes = LogicalBytes(j)
  <2>1. \A x : OnePage(x).bytes = PageBytes
    BY DEF OnePage
  <2>2. artifacts[2].bytes = PageBytes /\ artifacts[3].bytes = PageBytes /\ artifacts[4].bytes = PageBytes
    BY <2>1 DEF Built
  <2>3. \A j \in 2..4 : j = 2 \/ j = 3 \/ j = 4
    OBVIOUS
  <2> QED BY <1>2, <2>2, <2>3
<1>5. artifacts[5].bytes = Radix.allocationPages * PageBytes
  <2>1. artifacts[5].bytes = BuildRadix3AllocationImage(Radix, pages[5]).bytes
    BY DEF Built
  <2>2. BuildRadix3AllocationImage(Radix, pages[5]).bytes = Radix.allocationPages * PageBytes
    BY RadixArtifact
  <2> QED BY <2>1, <2>2
<1>6. i = 5
  BY <1>1, <1>3, <1>4
<1>7. Radix.allocationPages * PageBytes # Radix.allocationBytes
  BY <1>1, <1>2, <1>5, <1>6
<1>8. TreeOf(Radix, bytes) /\ bytes \in Nat
  BY PlanFacts, InputFacts DEF Laid
<1>9. ASSUME bytes % PageBytes = 0 PROVE FALSE
  <2> DEFINE m == 1 + LevelOne(bytes) + LevelTwo(bytes)
             d == bytes \div PageBytes
             n == Pages(bytes)
  <2>1. m \in Nat /\ n \in Nat
    BY <1>8, Constants DEF TreeOf
  <2>2. d \in Nat /\ bytes = PageBytes * d + 0
    <3>1. PageBytes \in Nat \ {0}
      BY Constants
    <3>2. d \in Nat /\ bytes = PageBytes * d + (bytes % PageBytes)
      BY <1>8, <3>1, Division
    <3> QED BY <1>9, <3>2, Zenon
  <2> HIDE DEF d
  <2>3. bytes = PageBytes * d
    BY <2>2, Constants
  <2>4. n = d
    <3>1. CeilDiv(PageBytes * d, PageBytes) = d
      BY <2>2, CeilExact, Constants
    <3> QED BY <2>3, <3>1 DEF Pages
  <2>5. Radix.allocationPages = m + n /\ Radix.allocationBytes = PageBytes * m + bytes
    BY <1>8 DEF TreeOf
  <2> HIDE DEF m, n
  <2>6. (m + n) * PageBytes = PageBytes * m + PageBytes * n
    BY <2>1, Constants
  <2>7. Radix.allocationPages * PageBytes = Radix.allocationBytes
    BY <2>3, <2>4, <2>5, <2>6, Zenon
  <2> QED BY <1>7, <2>7
<1> QED BY <1>9

\* Every page of a buffer is one the IOMMU has.
LEMMA PagesAreFrames ==
  ASSUME Laid, NEW i \in 1..10, NEW p \in 1..PageCount(i)
  PROVE  pages[i][p] \in Frames
BY DEF Laid, Frames

\* From the build on nothing is at address zero and the artifacts are built.
LEMMA BuiltFacts ==
  ASSUME MemoryInv, pc \in {"populate", "sequence", "ready"}
  PROVE  /\ Laid /\ Built(artifacts)
         /\ \A i \in 1..10 : \A p \in 1..PageCount(i) : pages[i][p] # 0
         /\ addresses =
              [kind |-> "addresses",
               queueBacking |-> pages[1][1], cachedArguments |-> pages[2][1],
               libosInitArguments |-> pages[3][1], wprMetadata |-> pages[4][1],
               radix3FirmwareRoot |-> pages[5][1],
               firmwareSignature |-> staged["GspFirmwareSignature"][1],
               gspBootloader |-> staged["GspBootloader"][1]]
<1>1. Laid
  BY MappedIsLaid
<1>2. Built(artifacts)
  BY <1>1, AddressesAligned, BuildFacts DEF MemoryInv, BuiltInv
<1>3. /\ staged = StagedOf(in) /\ ResolveGa10xBootMemory # None
      /\ addresses = ResolveGa10xBootMemory
  BY DEF MemoryInv, StepInv, ResolvedInv
<1>4. \A i \in 1..10 : \A p \in 1..PageCount(i) : pages[i][p] # 0
  BY <1>1, <1>3, ResolveFacts, Zenon
<1> QED BY <1>1, <1>2, <1>3, <1>4, ResolveFacts, Zenon

LEMMA PagesAreApart ==
  ASSUME Laid, NEW i \in 1..10, NEW j \in 1..10,
         NEW p \in 1..PageCount(i), NEW q \in 1..PageCount(j), pages[i][p] = pages[j][q]
  PROVE  i = j /\ p = q
<1>1. \A k, l \in 1..10 : \A a \in 1..PageCount(k), b \in 1..PageCount(l) :
        pages[k][a] = pages[l][b] => k = l /\ a = b
  BY DEF Laid
<1>2. \A a \in 1..PageCount(i), b \in 1..PageCount(j) :
        pages[i][a] = pages[j][b] => i = j /\ a = b
  BY <1>1
<1> QED BY <1>2

LEMMA PopulateStep ==
  ASSUME MemoryInv, PopulateGenerated
  PROVE  MemoryInv'
<1>1. /\ pc = "populate" /\ StepInv /\ MappedInv /\ ResolvedInv /\ BuiltInv /\ WrittenInv
      /\ index \in 1..10
  BY DEF MemoryInv, StepInv, PopulateGenerated
<1>2. /\ Laid /\ Built(artifacts)
      /\ \A i \in 1..10 : \A p \in 1..PageCount(i) : pages[i][p] # 0
  BY <1>1, BuiltFacts
<1>3. CASE KernelFails("ArtifactPopulationFailed")
  BY <1>1, <1>3, KernelFailsStep
<1>4. CASE ~SizeAgrees(index) /\ Refuse("ArtifactPopulationFailed")
  <2>1. Fail("ArtifactPopulationFailed")
    BY <1>4 DEF Refuse
  <2>2. in.size["GspFirmwareImage"] % PageBytes # 0
    BY <1>1, <1>2, <1>4, ArtifactSizes
  <2>3. RefusalInv'
    BY <2>1, <2>2 DEF Fail, RefusalInv
  <2> QED BY <1>1, <2>1, <2>3, FailStep
<1> DEFINE write(a) == \E p \in DOMAIN pages[index] : pages[index][p] = a
           at(a) == CHOOSE p \in DOMAIN pages[index] : pages[index][p] = a
           content(p) == IF index \in Logs THEN ZeroPage ELSE artifacts[index].pages[p - 1]
<1>5. CASE /\ mem' = [a \in Frames |-> IF write(a) THEN content(at(a)) ELSE mem[a]]
           /\ index' = IF index = 10 THEN 1 ELSE index + 1
           /\ pc' = IF index = 10 THEN "sequence" ELSE "populate"
           /\ UNCHANGED <<in, staged, frame, pages, addresses, artifacts, status, faulted,
                          gspVars>>
  <2>1. /\ pc' \in {"populate", "sequence"}
        /\ UNCHANGED <<in, staged, frame, pages, addresses, artifacts, faulted, readPtr, received>>
    BY <1>5 DEF gspVars
  <2>2. StepInv'
    <3>1. index' \in 1..10 /\ (pc' # "populate" => index' = 1)
      BY <1>1, <1>5
    <3>2. in' \in Inputs /\ staged' = StagedOf(in') /\ (pc' # "ready" => readPtr' = 0 /\ received' = <<>>)
      BY <1>1, <2>1 DEF StepInv
    <3> QED BY <2>1, <3>1, <3>2 DEF StepInv, Steps
  <2>3. MappedInv'
    BY <1>1, <2>1, StaysMapped
  <2>4. ResolvedInv' /\ BuiltInv'
    <3>1. /\ ResolveGa10xBootMemory' = ResolveGa10xBootMemory
          /\ BuildResolvedArtifacts(addresses)' = BuildResolvedArtifacts(addresses)
      BY <2>1, SameLayout
    <3>2. ResolvedInv'
      BY <1>1, <2>1, <3>1 DEF ResolvedInv
    <3>3. BuiltInv'
      BY <1>1, <2>1, <3>1 DEF BuiltInv
    <3> QED BY <3>2, <3>3
  <2>5. Written' = index /\ Written = index - 1
    BY <1>1, <1>5 DEF Written
  <2>6. \A a \in Frames : mem'[a] = IF write(a) THEN content(at(a)) ELSE mem[a]
    BY <1>5
  <2>7. DOMAIN pages[index] = 1..PageCount(index)
    BY <1>1, <1>2 DEF Laid
  <2>8. mem'[0] = Unwritten
    <3>1. 0 \in Frames
      <4>1. 0 \in 0..MaxFrame /\ PageBytes * 0 = 0
        BY Constants
      <4> QED BY <4>1 DEF Frames
    <3>2. ~write(0)
      BY <1>1, <1>2, <2>7
    <3>3. mem[0] = Unwritten
      BY <1>1 DEF WrittenInv
    <3> QED BY <2>6, <3>1, <3>2, <3>3
  <2>9. ASSUME NEW i \in 1..index, NEW p \in 1..PageCount(i)
        PROVE  mem'[pages[i][p]] = Content(i, p)
    <3> DEFINE a == pages[i][p]
    <3>1. i \in 1..10 /\ a \in Frames
      BY <1>1, <1>2, PagesAreFrames
    <3>2. CASE i = index
      <4>1. write(a) /\ at(a) \in 1..PageCount(i) /\ pages[i][at(a)] = a
        BY <2>7, <3>2
      <4> HIDE DEF at, write
      <4>2. at(a) = p
        BY <1>2, <3>1, <4>1, PagesAreApart
      <4>3. content(at(a)) = Content(i, p)
        BY <3>2, <4>2 DEF Content
      <4> QED BY <2>6, <3>1, <4>1, <4>3
    <3>3. CASE i # index
      <4>1. ~write(a)
        BY <1>1, <1>2, <2>7, <3>1, <3>3 DEF Laid
      <4>2. i \in 1..Written
        BY <1>1, <2>5, <3>3
      <4>3. mem[a] = Content(i, p)
        BY <1>1, <4>2 DEF WrittenInv
      <4> HIDE DEF write
      <4> QED BY <2>6, <3>1, <4>1, <4>3
    <3> QED BY <3>2, <3>3
  <2>10. WrittenInv'
    <3>1. \A i : PageCount(i)' = PageCount(i)
      BY <2>1, SameInput
    <3>2. \A i, p : Content(i, p)' = Content(i, p)
      BY <2>1 DEF Content
    <3>3. \A i \in 1..Written' : \A p \in 1..PageCount(i)' : mem'[pages'[i][p]] = Content(i, p)'
      BY <2>1, <2>5, <2>9, <3>1, <3>2
    <3> QED BY <2>8, <3>3 DEF WrittenInv
  <2>11. RefusalInv'
    BY <2>1 DEF RefusalInv
  <2> QED BY <2>2, <2>3, <2>4, <2>10, <2>11 DEF MemoryInv
<1> QED BY <1>3, <1>4, <1>5 DEF PopulateGenerated

LEMMA SequenceStep ==
  ASSUME MemoryInv, PlanSequence
  PROVE  MemoryInv'
<1>1. /\ pc = "sequence" /\ StepInv /\ MappedInv /\ ResolvedInv /\ BuiltInv /\ WrittenInv
      /\ AddressesOk(addresses)
  BY AddressesAligned DEF MemoryInv, PlanSequence
<1>2. CASE ~in.plannable /\ Refuse("SequenceRejected")
  <2>1. Fail("SequenceRejected")
    BY <1>2 DEF Refuse
  <2>2. RefusalInv'
    BY <1>2, <2>1 DEF Fail, RefusalInv
  <2> QED BY <1>1, <2>1, <2>2, FailStep
<1>3. CASE /\ pc' = "ready"
           /\ UNCHANGED <<in, staged, index, frame, pages, addresses, artifacts, mem, faulted,
                          readPtr, received>>
  <2>1. StepInv'
    BY <1>1, <1>3 DEF StepInv, Steps
  <2>2. MappedInv'
    BY <1>1, <1>3, StaysMapped
  <2>3. ResolvedInv' /\ BuiltInv'
    <3>1. /\ ResolveGa10xBootMemory' = ResolveGa10xBootMemory
          /\ BuildResolvedArtifacts(addresses)' = BuildResolvedArtifacts(addresses)
      BY <1>3, SameLayout
    <3>2. ResolvedInv'
      BY <1>1, <1>3, <3>1 DEF ResolvedInv
    <3>3. BuiltInv'
      BY <1>1, <1>3, <3>1 DEF BuiltInv
    <3> QED BY <3>2, <3>3
  <2>4. WrittenInv'
    <3>1. \A i : PageCount(i)' = PageCount(i)
      BY <1>3, SameInput
    <3>2. \A i, p : Content(i, p)' = Content(i, p)
      BY <1>3 DEF Content
    <3>3. Written' = Written
      BY <1>1, <1>3 DEF Written
    <3> QED BY <1>1, <1>3, <3>1, <3>2, <3>3 DEF WrittenInv
  <2>5. RefusalInv'
    BY <1>3 DEF RefusalInv
  <2> QED BY <2>1, <2>2, <2>3, <2>4, <2>5 DEF MemoryInv
<1> QED BY <1>1, <1>2, <1>3 DEF PlanSequence, gspVars

LEMMA ReceiveStep ==
  ASSUME MemoryInv, GspReceive
  PROVE  MemoryInv'
<1>1. /\ pc = "ready" /\ pc' = pc
      /\ UNCHANGED <<in, staged, index, frame, pages, addresses, artifacts, mem, status, faulted>>
  BY DEF GspReceive
<1>2. StepInv /\ MappedInv /\ ResolvedInv /\ BuiltInv /\ WrittenInv
  BY DEF MemoryInv
<1>3. StepInv'
  BY <1>1, <1>2 DEF StepInv
<1>4. MappedInv'
  BY <1>1, <1>2, StaysMapped
<1>5. ResolvedInv' /\ BuiltInv'
  <2>1. /\ ResolveGa10xBootMemory' = ResolveGa10xBootMemory
        /\ BuildResolvedArtifacts(addresses)' = BuildResolvedArtifacts(addresses)
    BY <1>1, SameLayout
  <2>2. ResolvedInv'
    BY <1>1, <1>2, <2>1 DEF ResolvedInv
  <2>3. BuiltInv'
    BY <1>1, <1>2, <2>1 DEF BuiltInv
  <2> QED BY <2>2, <2>3
<1>6. WrittenInv'
  <2>1. \A i : PageCount(i)' = PageCount(i)
    BY <1>1, SameInput
  <2>2. \A i, p : Content(i, p)' = Content(i, p)
    BY <1>1 DEF Content
  <2>3. Written' = Written
    BY <1>1 DEF Written
  <2> QED BY <1>1, <1>2, <2>1, <2>2, <2>3 DEF WrittenInv
<1>7. RefusalInv'
  BY <1>1 DEF RefusalInv
<1> QED BY <1>3, <1>4, <1>5, <1>6, <1>7 DEF MemoryInv

LEMMA StutterStep ==
  ASSUME MemoryInv, UNCHANGED vars
  PROVE  MemoryInv'
<1>1. /\ UNCHANGED <<in, staged, pc, index, frame, pages, addresses, artifacts, mem, status,
                     faulted, readPtr, received>>
  BY DEF vars
<1>2. /\ ManifestValid' <=> ManifestValid
      /\ Queues' = Queues /\ \A i : PageCount(i)' = PageCount(i)
      /\ TotalPages' = TotalPages /\ \A i : Base(i)' = Base(i)
  BY <1>1, SameInput
<1>3. StepInv'
  BY <1>1 DEF MemoryInv, StepInv
<1>4. MappedInv'
  <2>1. Last' = Last
    BY <1>1 DEF Last
  <2>2. Base(Last + 1)' = Base(Last + 1)
    BY <1>2, <2>1 DEF Base
  <2>3. \A i, first : Mapped(i, first, pages[i])' <=> Mapped(i, first, pages[i])
    BY <1>1, <1>2 DEF Mapped
  <2> QED BY <1>1, <1>2, <2>1, <2>2, <2>3 DEF MemoryInv, MappedInv
<1>5. ResolvedInv' /\ BuiltInv'
  <2>1. /\ ResolveGa10xBootMemory' = ResolveGa10xBootMemory
        /\ BuildResolvedArtifacts(addresses)' = BuildResolvedArtifacts(addresses)
    BY <1>1, SameLayout
  <2>2. ResolvedInv'
    BY <1>1, <2>1 DEF MemoryInv, ResolvedInv
  <2>3. BuiltInv'
    BY <1>1, <2>1 DEF MemoryInv, BuiltInv
  <2> QED BY <2>2, <2>3
<1>6. WrittenInv'
  <2>1. \A i, p : Content(i, p)' = Content(i, p)
    BY <1>1 DEF Content
  <2>2. Written' = Written
    BY <1>1 DEF Written
  <2> QED BY <1>1, <1>2, <2>1, <2>2 DEF MemoryInv, WrittenInv
<1>7. RefusalInv'
  BY <1>1, <1>2 DEF MemoryInv, RefusalInv
<1> QED BY <1>3, <1>4, <1>5, <1>6, <1>7 DEF MemoryInv

\* The preparation keeps its books: what is mapped, resolved, built and written.
LEMMA MemoryInvariant == Spec => []MemoryInv
<1>1. ASSUME MemoryInv, [Next]_vars PROVE MemoryInv'
  BY <1>1, PlanStep, MapStep, ResolveStep, BuildStep, PopulateStep, SequenceStep,
     ReceiveStep, StutterStep DEF Next
<1> QED BY <1>1, InitMemory, PTL DEF Spec

\* When no kernel call failed, a session for an image of whole pages is refused for
\* one of the listed reasons:
\* the sizes the preparation plans, maps, counts and builds agree (PlanQueueMemory,
\* PlanRadix3, ResolveGa10xBootMemory, BuildResolvedArtifacts, PopulateGenerated).
THEOREM RefusalsKnown == Spec => []RefusalsAreKnown
<1>1. MemoryInv => RefusalsAreKnown
  BY DEF MemoryInv, RefusalInv, RefusalsAreKnown
<1> QED BY <1>1, MemoryInvariant, PTL

-----------------------------------------------------------------------------
(***************************************************************************)
(* The firmware.                                                           *)
(***************************************************************************)

\* What GSP-RM reads in a prepared session.
Prepared ==
  /\ Laid /\ Built(artifacts)
  /\ addresses.queueBacking = pages[1][1] /\ addresses.libosInitArguments = pages[3][1]
  /\ addresses.wprMetadata = pages[4][1] /\ addresses.radix3FirmwareRoot = pages[5][1]
  /\ addresses.firmwareSignature = staged["GspFirmwareSignature"][1]
  /\ addresses.gspBootloader = staged["GspBootloader"][1]
  /\ \A i \in 1..10 : \A p \in 1..PageCount(i) : At(pages[i][p]) = Content(i, p)
  /\ At(0) = Unwritten

LEMMA ReadyIsPrepared ==
  ASSUME MemoryInv, Ready
  PROVE  Prepared
<1>1. pc = "ready" /\ Written = 10 /\ WrittenInv
  BY DEF Ready, Written, MemoryInv
<1>2. /\ Laid /\ Built(artifacts)
      /\ addresses =
              [kind |-> "addresses",
               queueBacking |-> pages[1][1], cachedArguments |-> pages[2][1],
               libosInitArguments |-> pages[3][1], wprMetadata |-> pages[4][1],
               radix3FirmwareRoot |-> pages[5][1],
               firmwareSignature |-> staged["GspFirmwareSignature"][1],
               gspBootloader |-> staged["GspBootloader"][1]]
  BY <1>1, BuiltFacts
<1>3. /\ addresses.queueBacking = pages[1][1] /\ addresses.libosInitArguments = pages[3][1]
      /\ addresses.wprMetadata = pages[4][1] /\ addresses.radix3FirmwareRoot = pages[5][1]
      /\ addresses.firmwareSignature = staged["GspFirmwareSignature"][1]
      /\ addresses.gspBootloader = staged["GspBootloader"][1]
  BY <1>2
<1>4. ASSUME NEW i \in 1..10, NEW p \in 1..PageCount(i) PROVE At(pages[i][p]) = Content(i, p)
  <2>1. pages[i][p] \in Frames
    BY <1>2, PagesAreFrames
  <2>2. mem[pages[i][p]] = Content(i, p)
    BY <1>1 DEF WrittenInv
  <2> QED BY <2>1, <2>2 DEF At
<1>5. At(0) = Unwritten
  BY <1>1 DEF At, WrittenInv
<1> QED BY <1>2, <1>3, <1>4, <1>5 DEF Prepared

LEMMA MetadataFacts ==
  ASSUME Prepared
  PROVE  At(addresses.wprMetadata) = BuildWprMeta(addresses)
<1>1. 1 \in 1..PageCount(4)
  BY BufferFacts DEF Prepared, Laid
<1>2. At(addresses.wprMetadata) = Content(4, 1)
  BY <1>1 DEF Prepared
<1>3. Content(4, 1) = artifacts[4].pages[0]
  BY DEF Content, Logs
<1>4. artifacts[4].pages[0] = BuildWprMeta(addresses)
  BY DEF Prepared, Built, OnePage
<1> QED BY <1>2, <1>3, <1>4

LEMMA RadixPages ==
  ASSUME Prepared, NEW q \in 0..(Radix.allocationPages - 1)
  PROVE  At(pages[5][q + 1]) = IF q < Radix.firstPage[3]
                                 THEN BuildRadix3Tables(Radix, pages[5])[q]
                                 ELSE FirmwarePage(q - Radix.firstPage[3])
<1>1. PageCount(5) = Radix.allocationPages /\ PageCount(5) \in Nat /\ Laid
  <2>1. Laid
    BY DEF Prepared
  <2>2. in \in Inputs /\ ManifestValid
    BY <2>1 DEF Laid
  <2> QED BY <2>1, <2>2, BufferFacts
<1>2. q + 1 \in 1..PageCount(5) /\ (q + 1) - 1 = q
  BY <1>1
<1>3. At(pages[5][q + 1]) = Content(5, q + 1)
  BY <1>2 DEF Prepared
<1>4. Content(5, q + 1) = artifacts[5].pages[(q + 1) - 1]
  BY DEF Content, Logs
<1>5. artifacts[5].pages = BuildRadix3AllocationImage(Radix, pages[5]).pages
  BY DEF Prepared, Built
<1>6. BuildRadix3AllocationImage(Radix, pages[5]).pages =
        [p \in 0..(Radix.allocationPages - 1) |->
           IF p < Radix.firstPage[3]
             THEN BuildRadix3Tables(Radix, pages[5])[p]
             ELSE FirmwarePage(p - Radix.firstPage[3])]
  BY <1>1, RadixArtifact
<1> QED BY <1>2, <1>3, <1>4, <1>5, <1>6

\* An entry of a table of the tree.
LEMMA TreeEntry ==
  ASSUME Prepared, NEW l \in 0..2, NEW a \in 0..(Radix.pageCounts[l] - 1),
         NEW e \in 0..(kRadixEntriesPerPage - 1), NEW x \in Nat,
         x = a * kRadixEntriesPerPage + e
  PROVE  Entry(pages[5][Radix.firstPage[l] + a + 1], e) =
           IF x < Radix.pageCounts[l + 1]
             THEN pages[5][Radix.firstPage[l + 1] + x + 1] ELSE 0
<1> DEFINE r == Radix
           bytes == in.size["GspFirmwareImage"]
           q == r.firstPage[l] + a
<1>1. TreeOf(r, bytes) /\ Laid
  BY PlanFacts DEF Prepared, Laid
<1> HIDE DEF r
<1>2. q \in 0..(r.firstPage[3] - 1) /\ BuildRadix3Tables(r, pages[5])[q] = ChildTable(r, pages[5], l, a)
  BY <1>1, TreeTables DEF r
<1>3. r.firstPage[3] \in Nat /\ r.allocationPages \in Nat /\ r.firstPage[3] <= r.allocationPages
  BY <1>1, Constants DEF TreeOf
<1> HIDE DEF q
<1>4. q \in 0..(r.allocationPages - 1) /\ q < r.firstPage[3]
  BY <1>2, <1>3
<1>5. At(pages[5][q + 1]) = ChildTable(r, pages[5], l, a)
  BY <1>2, <1>4, RadixPages DEF r
<1>6. /\ ChildTable(r, pages[5], l, a).kind = "table"
      /\ ChildTable(r, pages[5], l, a).entries[e] =
           IF a * kRadixEntriesPerPage + e < r.pageCounts[l + 1]
             THEN pages[5][r.firstPage[l + 1] + (a * kRadixEntriesPerPage + e) + 1] ELSE 0
  BY DEF ChildTable, TablePage
<1>7. Entry(pages[5][q + 1], e) =
        IF x < r.pageCounts[l + 1] THEN pages[5][r.firstPage[l + 1] + x + 1] ELSE 0
  BY <1>5, <1>6, Zenon DEF Entry
<1> QED BY <1>7 DEF q, r

LEMMA NoEntry ==
  ASSUME Prepared, NEW e
  PROVE  Entry(0, e) = 0
<1>1. At(0).kind = "unwritten"
  BY DEF Prepared, Unwritten
<1> QED BY <1>1 DEF Entry

LEMMA FirmwareWalk ==
  ASSUME Prepared, 
         NEW i \in 0..(kRadixEntriesPerPage * kRadixEntriesPerPage * kRadixEntriesPerPage - 1)
  PROVE  FirmwareAt(i) = IF i < Pages(in.size["GspFirmwareImage"])
                           THEN FirmwarePage(i) ELSE Unwritten
<1> DEFINE E == kRadixEntriesPerPage
           bytes == in.size["GspFirmwareImage"]
           image == Pages(bytes)
           first == 1 + LevelOne(bytes) + LevelTwo(bytes)
           b == i \div E
           a == b \div E
<1>1. E \in Nat \ {0} /\ i \in Nat /\ E * E \in Nat \ {0} /\ (E * E) * E \in Nat
  BY Constants
<1>2. TreeOf(Radix, bytes)
  BY PlanFacts DEF Prepared, Laid
<1>3. /\ Radix.firstPage[0] = 0 /\ Radix.firstPage[1] = 1
      /\ Radix.firstPage[2] = 1 + LevelOne(bytes) /\ Radix.firstPage[3] = first
      /\ Radix.pageCounts[0] = 1 /\ Radix.pageCounts[1] = LevelOne(bytes)
      /\ Radix.pageCounts[2] = LevelTwo(bytes) /\ Radix.pageCounts[3] = image
      /\ LevelOne(bytes) \in Nat \ {0} /\ LevelTwo(bytes) \in Nat \ {0} /\ image \in Nat \ {0}
      /\ Radix.allocationPages = first + image
  BY <1>2, Constants DEF TreeOf
<1> HIDE DEF E, image
<1>4. b \in Nat /\ i % E \in 0..(E - 1) /\ i = b * E + (i % E)
  <2>1. b \in Nat /\ i % E \in 0..(E - 1) /\ i = E * b + (i % E)
    BY <1>1, Division
  <2> HIDE DEF b
  <2>2. E * b = b * E
    BY <1>1, <2>1
  <2> QED BY <2>1, <2>2
<1>5. i \div (E * E) = a
  BY <1>1, DivDiv
<1> HIDE DEF b
<1>6. a \in Nat /\ b % E \in 0..(E - 1) /\ b = a * E + (b % E)
  <2>1. a \in Nat /\ b % E \in 0..(E - 1) /\ b = E * a + (b % E)
    BY <1>1, <1>4, Division
  <2> HIDE DEF a
  <2>2. E * a = a * E
    BY <1>1, <2>1
  <2> QED BY <2>1, <2>2
<1>7. a < E
  <2> DEFINE S == E * E
  <2>1. i < S * E
    BY <1>1 DEF E
  <2> HIDE DEF S
  <2>2. i \div S < E
    BY <1>1, <2>1, DivLess DEF S
  <2> QED BY <1>5, <2>2 DEF S
<1> HIDE DEF a
<1>8. a % E = a
  <2>1. a \in 0..(E - 1)
    BY <1>1, <1>6, <1>7
  <2>2. (E * 0 + a) % E = a
    BY <1>1, <2>1, DivisionUnique
  <2>3. E * 0 + a = a
    BY <1>1, <1>6
  <2> QED BY <2>2, <2>3
<1> DEFINE one == Entry(pages[5][1], a)
           two == Entry(one, b % E)
           last == Entry(two, i % E)
<1>9. FirmwareAt(i) = At(last)
  <2>1. At(addresses.wprMetadata).radix = pages[5][1]
    BY MetadataFacts DEF BuildWprMeta, Prepared
  <2> QED BY <1>5, <1>8, <2>1, Zenon DEF FirmwareAt, E, b, one, two, last
<1>10. one = IF a < LevelOne(bytes) THEN pages[5][1 + a + 1] ELSE 0
  <2>1. 0 \in 0..(Radix.pageCounts[0] - 1) /\ a \in 0..(E - 1) /\ a = 0 * E + a
    BY <1>1, <1>3, <1>6, <1>7
  <2>2. Entry(pages[5][Radix.firstPage[0] + 0 + 1], a) =
          IF a < Radix.pageCounts[0 + 1] THEN pages[5][Radix.firstPage[0 + 1] + a + 1] ELSE 0
    BY <1>6, <2>1, TreeEntry DEF E
  <2>3. Radix.firstPage[0] + 0 + 1 = 1 /\ 0 + 1 = 1
    BY <1>3
  <2> QED BY <1>3, <2>2, <2>3
<1> HIDE DEF one
<1>11. two = IF a < LevelOne(bytes) /\ b < LevelTwo(bytes)
               THEN pages[5][1 + LevelOne(bytes) + b + 1] ELSE 0
  <2>1. CASE a < LevelOne(bytes)
    <3>1. a \in 0..(Radix.pageCounts[1] - 1)
      BY <1>3, <1>6, <2>1
    <3>2. Entry(pages[5][Radix.firstPage[1] + a + 1], b % E) =
            IF b < Radix.pageCounts[1 + 1] THEN pages[5][Radix.firstPage[1 + 1] + b + 1] ELSE 0
      BY <1>4, <1>6, <3>1, TreeEntry DEF E
    <3>3. 1 + 1 = 2
      OBVIOUS
    <3> QED BY <1>3, <1>10, <2>1, <3>2, <3>3
  <2>2. CASE ~(a < LevelOne(bytes))
    BY <1>10, <2>2, NoEntry
  <2> QED BY <2>1, <2>2
<1> HIDE DEF two
<1>12. last = IF a < LevelOne(bytes) /\ b < LevelTwo(bytes) /\ i < image
                THEN pages[5][first + i + 1] ELSE 0
  <2>1. CASE a < LevelOne(bytes) /\ b < LevelTwo(bytes)
    <3>1. b \in 0..(Radix.pageCounts[2] - 1)
      BY <1>3, <1>4, <2>1
    <3>2. Entry(pages[5][Radix.firstPage[2] + b + 1], i % E) =
            IF i < Radix.pageCounts[2 + 1] THEN pages[5][Radix.firstPage[2 + 1] + i + 1] ELSE 0
      BY <1>1, <1>4, <3>1, TreeEntry DEF E
    <3>3. 2 + 1 = 3
      OBVIOUS
    <3> QED BY <1>3, <1>11, <2>1, <3>2, <3>3
  <2>2. CASE ~(a < LevelOne(bytes) /\ b < LevelTwo(bytes))
    BY <1>11, <2>2, NoEntry
  <2> QED BY <2>1, <2>2
<1> HIDE DEF last
<1>13. CASE i < image
  <2>1. b < LevelTwo(bytes)
    <3>1. i \in 0..(image - 1)
      BY <1>1, <1>3, <1>13
    <3>2. i \div E \in 0..(CeilDiv(image, E) - 1)
      BY <1>1, <1>3, <3>1, GroupExists
    <3> QED BY <1>3, <3>2 DEF LevelTwo, E, image, b
  <2>2. a < LevelOne(bytes)
    <3>1. b \in 0..(LevelTwo(bytes) - 1)
      BY <1>3, <1>4, <2>1
    <3>2. b \div E \in 0..(CeilDiv(LevelTwo(bytes), E) - 1)
      BY <1>1, <1>3, <3>1, GroupExists
    <3> QED BY <1>3, <3>2 DEF LevelOne, E, a
  <2>3. last = pages[5][first + i + 1]
    BY <1>12, <1>13, <2>1, <2>2
  <2> DEFINE q == first + i
  <2>4. q \in 0..(Radix.allocationPages - 1) /\ ~(q < Radix.firstPage[3]) /\ q - Radix.firstPage[3] = i
    BY <1>1, <1>3, <1>13
  <2> HIDE DEF q, first
  <2>5. At(pages[5][q + 1]) = FirmwarePage(i)
    BY <2>4, RadixPages
  <2> QED BY <1>9, <1>13, <2>3, <2>5 DEF q, image
<1>14. CASE ~(i < image)
  <2>1. last = 0
    BY <1>12, <1>14
  <2> QED BY <1>9, <1>14, <2>1 DEF Prepared, image
<1> QED BY <1>13, <1>14

\* GSP-RM finds every page of the firmware behind the root address, in order, and
\* nothing behind the last one, for every size of image and table and each order of
\* the pages in PageLists (BuildRadix3Tables, BuildRadix3AllocationImage, BuildWprMeta).
THEOREM FirmwareIsReachable == Spec => []FirmwareReachable
<1>1. ASSUME MemoryInv PROVE FirmwareReachable
  <2> SUFFICES ASSUME Ready
      PROVE  LET meta  == At(addresses.wprMetadata)
                 count == Pages(meta.radixBytes)
             IN  /\ \A i \in 0..(count - 1) : FirmwareAt(i) = FirmwarePage(i)
                 /\ \A i \in count..(kRadixEntriesPerPage * kRadixEntriesPerPage * kRadixEntriesPerPage - 1) :
                      FirmwareAt(i).kind # "firmware"
                 /\ meta.signature = staged["GspFirmwareSignature"][1]
                 /\ meta.bootloader = staged["GspBootloader"][1]
    BY DEF FirmwareReachable
  <2> DEFINE E == kRadixEntriesPerPage
             bytes == in.size["GspFirmwareImage"]
             count == Pages(bytes)
             meta == At(addresses.wprMetadata)
  <2>1. Prepared
    BY <1>1, ReadyIsPrepared
  <2>2. meta.radixBytes = bytes /\ meta.signature = staged["GspFirmwareSignature"][1]
        /\ meta.bootloader = staged["GspBootloader"][1]
    BY <2>1, MetadataFacts DEF BuildWprMeta, Prepared
  <2>3. count \in Nat /\ count <= E * E * E
    <3>1. TreeOf(Radix, bytes)
      BY <2>1, PlanFacts DEF Prepared, Laid
    <3>2. count \in Nat /\ LevelTwo(bytes) \in Nat /\ LevelOne(bytes) \in Nat /\ LevelOne(bytes) <= E
      BY <3>1, Constants DEF TreeOf
    <3> DEFINE two == LevelTwo(bytes)
               one == LevelOne(bytes)
    <3> HIDE DEF count, E
    <3>3. count <= E * two
      BY <3>2, CeilFacts, Constants DEF LevelTwo, count, E
    <3>4. two <= E * one
      BY <3>2, CeilFacts, Constants DEF LevelOne, E
    <3> HIDE DEF two, one
    <3>5. two \in Nat /\ one \in Nat /\ one <= E /\ E \in Nat \ {0}
      BY <3>2, Constants DEF two, one, E
    <3>6. E * one <= E * E
      <4>1. one < E => E * one + E <= E * E
        BY <3>5, ProductOrder
      <4>2. E * one \in Nat /\ E * E \in Nat
        BY <3>5
      <4> QED BY <3>5, <4>1, <4>2
    <3> DEFINE S == E * E
    <3>7. S \in Nat /\ two <= S
      BY <3>4, <3>5, <3>6
    <3> HIDE DEF S
    <3>8. E * two <= E * S
      <4>1. two < S => E * two + E <= E * S
        BY <3>5, <3>7, ProductOrder
      <4>2. E * two \in Nat /\ E * S \in Nat
        BY <3>5, <3>7
      <4> QED BY <3>5, <3>7, <4>1, <4>2
    <3>9. E * S = E * E * E /\ E * S \in Nat /\ E * two \in Nat
      BY <3>5 , <3>7 DEF S
    <3> QED BY <3>2, <3>3, <3>8, <3>9
  <2>4. E * E * E \in Nat
    BY Constants
  <2> HIDE DEF count
  <2>5. ASSUME NEW i \in 0..(count - 1) PROVE FirmwareAt(i) = FirmwarePage(i)
    <3>1. i \in 0..(E * E * E - 1) /\ i < count
      BY <2>3, <2>4
    <3> QED BY <2>1, <3>1, FirmwareWalk DEF count
  <2>6. ASSUME NEW i \in count..(E * E * E - 1) PROVE FirmwareAt(i).kind # "firmware"
    <3>1. i \in 0..(E * E * E - 1) /\ ~(i < count)
      BY <2>3, <2>4
    <3>2. FirmwareAt(i) = Unwritten
      BY <2>1, <3>1, FirmwareWalk DEF count
    <3> QED BY <3>2 DEF Unwritten
  <2> QED BY <2>2, <2>5, <2>6 DEF count
<1> QED BY <1>1, MemoryInvariant, PTL

-----------------------------------------------------------------------------
(***************************************************************************)
(* The regions and the shared queue memory.                                *)
(***************************************************************************)

LEMMA RegionList ==
  /\ \A r \in 1..5 :
       LibosRegions[r] = LibosRegion(LogNames[r], pages[r + 5][1], LogPages * PageBytes)
  /\ LibosRegions[6] = LibosRegion("RMARGS", pages[2][1], PageBytes)
<1> DEFINE s == [r \in 1..5 |-> LibosRegion(LogNames[r], pages[r + 5][1], LogPages * PageBytes)]
           t == << LibosRegion("RMARGS", pages[2][1], PageBytes) >>
           T == {s[r] : r \in 1..5} \cup {t[1]}
<1>1. LibosRegions = s \o t
  BY DEF LibosRegions
<1>2. Len(s) = 5 /\ Len(t) = 1 /\ s \in Seq(T) /\ t \in Seq(T)
  OBVIOUS
<1>3. \A r \in 1..5 : s[r] = LibosRegion(LogNames[r], pages[r + 5][1], LogPages * PageBytes)
  OBVIOUS
<1>4. t[1] = LibosRegion("RMARGS", pages[2][1], PageBytes)
  OBVIOUS
<1> HIDE DEF s, t, T
<1>a. \A i \in 1..(Len(s) + Len(t)) : (s \o t)[i] = IF i <= Len(s) THEN s[i] ELSE t[i - Len(s)]
  BY <1>2, ConcatProperties
<1> DEFINE u == s \o t
<1>b. \A i \in 1..(5 + 1) : u[i] = IF i <= 5 THEN s[i] ELSE t[i - 5]
  BY <1>2, <1>a, Zenon
<1> HIDE DEF u
<1>5. \A r \in 1..5 : u[r] = s[r]
  BY <1>b
<1>6. u[6] = t[1]
  <2>1. 6 \in 1..(5 + 1) /\ ~(6 <= 5) /\ 6 - 5 = 1
    OBVIOUS
  <2> QED BY <1>b, <2>1
<1> QED BY <1>1, <1>3, <1>4, <1>5, <1>6 DEF u

LEMMA RegionFacts ==
  ASSUME Prepared
  PROVE  /\ \A n \in 1..5 :
              Region(LogNames[n]) = LibosRegion(LogNames[n], pages[n + 5][1], LogPages * PageBytes)
         /\ Region("RMARGS") = LibosRegion("RMARGS", pages[2][1], PageBytes)
<1> DEFINE all == {LibosRegions[n] : n \in 1..6}
           name == [n \in 1..6 |-> IF n = 6 THEN "RMARGS" ELSE LogNames[n]]
<1>1. \A n : Region(n) = CHOOSE r \in all : r.id = n
  <2>1. 1 \in 1..PageCount(3)
    BY BufferFacts DEF Prepared, Laid
  <2>2. At(addresses.libosInitArguments) = Content(3, 1)
    BY <2>1 DEF Prepared
  <2>3. Content(3, 1) = artifacts[3].pages[0]
    BY DEF Content, Logs
  <2>4. artifacts[3].pages[0] = [kind |-> "libos", regions |-> LibosRegions]
    BY DEF Prepared, Built, OnePage
  <2>5. At(addresses.libosInitArguments).regions = LibosRegions
    BY <2>2, <2>3, <2>4
  <2> QED BY <2>5, Zenon DEF Region
<1>2. \A n \in 1..6 : LibosRegions[n].id = name[n]
  <2>1. \A n \in 1..6 : n \in 1..5 \/ n = 6
    OBVIOUS
  <2> QED BY <2>1, RegionList DEF LibosRegion
<1>3. \A n, m \in 1..6 : name[n] = name[m] => n = m
  <2>1. \A n \in 1..6 : n = 1 \/ n = 2 \/ n = 3 \/ n = 4 \/ n = 5 \/ n = 6
    OBVIOUS
  <2> QED BY <2>1 DEF LogNames
<1>4. ASSUME NEW n \in 1..6 PROVE Region(name[n]) = LibosRegions[n]
  <2> HIDE DEF name
  <2>1. LibosRegions[n] \in all /\ LibosRegions[n].id = name[n]
    BY <1>2
  <2>2. \A r \in all : r.id = name[n] => r = LibosRegions[n]
    BY <1>2, <1>3
  <2> HIDE DEF all
  <2>3. (CHOOSE r \in all : r.id = name[n]) = LibosRegions[n]
    BY <2>1, <2>2
  <2> QED BY <1>1, <2>3
<1>5. \A n \in 1..5 : name[n] = LogNames[n] /\ n \in 1..6
  OBVIOUS
<1>6. name[6] = "RMARGS" /\ 6 \in 1..6
  OBVIOUS
<1> QED BY <1>4, <1>5, <1>6, RegionList

LEMMA ArgumentFacts ==
  ASSUME Prepared
  PROVE  /\ Arguments.kind = "arguments"
         /\ Arguments.sharedMemPhysAddr = pages[1][1]
         /\ Arguments.cmdQueueOffset \div PageBytes = QueueTablePages(in.queueBytes)
         /\ Arguments.statQueueOffset \div PageBytes
              = QueueTablePages(in.queueBytes) + QueuePages(in.queueBytes)
<1>1. Region("RMARGS").base = pages[2][1]
  BY RegionFacts DEF LibosRegion
<1>2. 1 \in 1..PageCount(2)
  BY BufferFacts DEF Prepared, Laid
<1>3. Arguments = Content(2, 1)
  BY <1>1, <1>2 DEF Arguments, Prepared
<1>4. Content(2, 1) = artifacts[2].pages[0]
  BY DEF Content, Logs
<1>5. artifacts[2].pages[0] = BuildCachedArguments(Queues, pages[1][1])
  BY DEF Prepared, Built, OnePage
<1>6. /\ Arguments.kind = "arguments" /\ Arguments.sharedMemPhysAddr = pages[1][1]
      /\ Arguments.cmdQueueOffset = Queues.commandQueueOffset
      /\ Arguments.statQueueOffset = Queues.statusQueueOffset
  BY <1>3, <1>4, <1>5 DEF BuildCachedArguments
<1> DEFINE t == QueueTablePages(in.queueBytes)
           w == QueuePages(in.queueBytes)
<1>7. /\ t \in Nat /\ w \in Nat /\ Queues.commandQueueOffset = PageBytes * t
      /\ Queues.statusQueueOffset = PageBytes * (t + w)
  BY PlanFacts DEF Prepared, Laid, QueuesOf
<1> HIDE DEF t, w
<1>8. \A m \in Nat : (PageBytes * m) \div PageBytes = m
  <2> SUFFICES ASSUME NEW m \in Nat PROVE (PageBytes * m) \div PageBytes = m
    OBVIOUS
  <2>1. PageBytes \in Nat \ {0} /\ 0 \in 0..(PageBytes - 1)
    BY Constants
  <2>2. (PageBytes * m + 0) \div PageBytes = m
    BY <2>1, DivisionUnique
  <2>3. PageBytes * m + 0 = PageBytes * m
    BY <2>1
  <2> QED BY <2>2, <2>3
<1>9. t + w \in Nat
  BY <1>7
<1> QED BY <1>6, <1>7, <1>8, <1>9 DEF t, w

\* A page of the shared memory, by its place.
LEMMA SharedContent ==
  ASSUME Prepared, NEW p \in 0..(PageCount(1) - 1)
  PROVE  At(pages[1][p + 1]) = QueueArtifact.pages[p]
<1>1. PageCount(1) \in Nat
  BY BufferFacts DEF Prepared, Laid
<1>2. p + 1 \in 1..PageCount(1) /\ (p + 1) - 1 = p
  BY <1>1
<1>3. At(pages[1][p + 1]) = Content(1, p + 1)
  BY <1>2 DEF Prepared
<1>4. Content(1, p + 1) = artifacts[1].pages[(p + 1) - 1]
  BY DEF Content, Logs
<1>5. artifacts[1] = QueueArtifact
  BY DEF Prepared, Built
<1> QED BY <1>2, <1>3, <1>4, <1>5

LEMMA DivExact ==
  ASSUME NEW m \in Nat
  PROVE  (PageBytes * m) \div PageBytes = m
<1>1. PageBytes \in Nat \ {0} /\ 0 \in 0..(PageBytes - 1)
  BY Constants
<1>2. (PageBytes * m + 0) \div PageBytes = m
  BY <1>1, DivisionUnique
<1>3. PageBytes * m + 0 = PageBytes * m
  BY <1>1
<1> QED BY <1>2, <1>3

\* The parts of the shared memory in a prepared session: t pages of table, then two
\* queues of w pages, and an entry of the table for each of them.
LEMMA SharedFacts ==
  ASSUME Prepared
  PROVE  LET t == QueueTablePages(in.queueBytes)
             w == QueuePages(in.queueBytes)
         IN  /\ t \in Nat \ {0} /\ w \in Nat \ {0} /\ PageCount(1) = t + 2 * w
             /\ Len(pages[1]) = PageCount(1) /\ t = CeilDiv(PageCount(1), QueueEntriesPerPage)
             /\ PageCount(1) <= QueueEntriesPerPage * QueueEntriesPerPage
             /\ Queues.commandQueueOffset \div PageBytes = t
             /\ Queues.statusQueueOffset \div PageBytes = t + w
             /\ Queues.pageTableBytes \div PageBytes = t
             /\ Pages(Queues.totalBytes) = t + 2 * w
             /\ Queues.queueBytes = PageBytes * w /\ in.queueBytes = PageBytes * w
<1> DEFINE t == QueueTablePages(in.queueBytes)
           w == QueuePages(in.queueBytes)
<1>1. Laid /\ Len(pages[1]) = Queues.pageTableEntryCount
  BY DEF Prepared, Built
<1>2. in \in Inputs /\ ManifestValid /\ Len(pages[1]) = PageCount(1)
  BY <1>1 DEF Laid
<1>3. QueuesOf(Queues, in.queueBytes)
  BY <1>2, PlanFacts
<1>4. PageCount(1) = t + 2 * w
  BY <1>2, BufferFacts
<1>5. PageCount(1) = QueueEntries(in.queueBytes)
  BY <1>1, <1>2, <1>3 DEF QueuesOf
<1>6. QueueEntries(in.queueBytes) <= QueueEntriesPerPage * QueueEntriesPerPage
  BY <1>2, InputFacts
<1>7. /\ t \in Nat \ {0} /\ w \in Nat \ {0} /\ Queues.commandQueueOffset = PageBytes * t
      /\ Queues.statusQueueOffset = PageBytes * (t + w) /\ Queues.pageTableBytes = PageBytes * t
      /\ Pages(Queues.totalBytes) = t + 2 * w
      /\ Queues.queueBytes = PageBytes * w /\ in.queueBytes = PageBytes * w
  BY <1>3 DEF QueuesOf
<1>8. t = CeilDiv(PageCount(1), QueueEntriesPerPage)
  BY <1>5 DEF QueueTablePages
<1> HIDE DEF t, w
<1>9. /\ (PageBytes * t) \div PageBytes = t
      /\ (PageBytes * (t + w)) \div PageBytes = t + w
  <2>1. t + w \in Nat
    BY <1>7
  <2> QED BY <1>7, <2>1, DivExact
<1> QED BY <1>2, <1>4, <1>5, <1>6, <1>7, <1>8, <1>9 DEF t, w

\* What lies at each place of the shared memory.
LEMMA SharedParts ==
  ASSUME Prepared, NEW p \in 0..(PageCount(1) - 1)
  PROVE  LET t == QueueTablePages(in.queueBytes)
             w == QueuePages(in.queueBytes)
         IN  /\ p < t => At(pages[1][p + 1]) =
                  TablePage([e \in 0..(QueueEntriesPerPage - 1) |->
                    IF p * QueueEntriesPerPage + e < PageCount(1)
                      THEN pages[1][p * QueueEntriesPerPage + e + 1] ELSE 0])
             /\ t <= p /\ p < t + w => At(pages[1][p + 1]) =
                  BuildBootstrapCommandQueue(Queues, in.registryBytes).pages[p - t]
             /\ t + w <= p => At(pages[1][p + 1]) = ZeroPage
<1> DEFINE t == QueueTablePages(in.queueBytes)
           w == QueuePages(in.queueBytes)
           N == PageCount(1)
           Q == QueueEntriesPerPage
           spread == TablePages(N, [i \in 0..(N - 1) |-> pages[1][i + 1]], t, Q)
           command == BuildBootstrapCommandQueue(Queues, in.registryBytes)
<1>1. /\ t \in Nat \ {0} /\ w \in Nat \ {0} /\ N = t + 2 * w /\ Len(pages[1]) = N
      /\ Queues.commandQueueOffset \div PageBytes = t
      /\ Queues.statusQueueOffset \div PageBytes = t + w
      /\ Queues.pageTableBytes \div PageBytes = t
      /\ Pages(Queues.totalBytes) = N
  BY SharedFacts
<1>2. At(pages[1][p + 1]) = QueueArtifact.pages[p]
  BY SharedContent
<1> HIDE DEF t, w, N, spread, command
<1>3. QueueArtifact.pages =
        [q \in 0..(N - 1) |-> IF q < t THEN spread[q]
                              ELSE IF q < t + w THEN command.pages[q - t] ELSE ZeroPage]
  <2>1. QueueArtifact.pages =
          [q \in 0..(Pages(Queues.totalBytes) - 1) |->
            IF q < Queues.commandQueueOffset \div PageBytes
              THEN TablePages(Len(pages[1]), [i \in 0..(Len(pages[1]) - 1) |-> pages[1][i + 1]],
                              Queues.pageTableBytes \div PageBytes, QueueEntriesPerPage)[q]
            ELSE IF q < Queues.statusQueueOffset \div PageBytes
              THEN command.pages[q - Queues.commandQueueOffset \div PageBytes]
            ELSE ZeroPage]
    BY DEF QueueArtifact, command
  <2> QED BY <1>1, <2>1, Zenon DEF spread
<1>4. QueueArtifact.pages[p] = IF p < t THEN spread[p]
                               ELSE IF p < t + w THEN command.pages[p - t] ELSE ZeroPage
  BY <1>3 DEF N
<1>5. ASSUME p < t
      PROVE  spread[p] = TablePage([e \in 0..(Q - 1) |->
                                     IF p * Q + e < N THEN pages[1][p * Q + e + 1] ELSE 0])
  <2>1. p \in 0..(t - 1)
    BY <1>1, <1>5
  <2> DEFINE from == [i \in 0..(N - 1) |-> pages[1][i + 1]]
  <2>2. spread[p] = TablePage([e \in 0..(Q - 1) |-> IF p * Q + e < N THEN from[p * Q + e] ELSE 0])
    BY <2>1 DEF spread, TablePages
  <2>3. ASSUME NEW e \in 0..(Q - 1)
        PROVE  (IF p * Q + e < N THEN from[p * Q + e] ELSE 0)
                 = (IF p * Q + e < N THEN pages[1][p * Q + e + 1] ELSE 0)
    <3>1. p * Q + e \in Nat
      <4>1. p \in Nat /\ Q \in Nat
        BY <1>1, <2>1, Constants
      <4> QED BY <4>1
    <3> DEFINE x == p * Q + e
    <3> HIDE DEF x
    <3>2. x < N => from[x] = pages[1][x + 1]
      BY <1>1, <3>1 DEF x
    <3>3. (IF x < N THEN from[x] ELSE 0) = (IF x < N THEN pages[1][x + 1] ELSE 0)
      BY <3>2
    <3> QED BY <3>3 DEF x
  <2> HIDE DEF from
  <2>4. [e \in 0..(Q - 1) |-> IF p * Q + e < N THEN from[p * Q + e] ELSE 0]
          = [e \in 0..(Q - 1) |-> IF p * Q + e < N THEN pages[1][p * Q + e + 1] ELSE 0]
    BY <2>3
  <2> QED BY <2>2, <2>4
<1>6. p < t => At(pages[1][p + 1]) =
                 TablePage([e \in 0..(Q - 1) |->
                   IF p * Q + e < N THEN pages[1][p * Q + e + 1] ELSE 0])
  BY <1>2, <1>4, <1>5
<1>7. t <= p /\ p < t + w => At(pages[1][p + 1]) = command.pages[p - t]
  <2>1. t <= p => ~(p < t)
    BY <1>1
  <2> QED BY <1>2, <1>4, <2>1
<1>8. t + w <= p => At(pages[1][p + 1]) = ZeroPage
  <2>1. t + w <= p => ~(p < t) /\ ~(p < t + w)
    BY <1>1
  <2> QED BY <1>2, <1>4, <2>1
<1> QED BY <1>6, <1>7, <1>8 DEF t, w, N, command

LEMMA SharedWalk ==
  ASSUME Prepared, NEW p \in 0..(PageCount(1) - 1)
  PROVE  SharedAddress(p) = pages[1][p + 1]
<1> DEFINE t == QueueTablePages(in.queueBytes)
           N == PageCount(1)
           Q == QueueEntriesPerPage
           d == p \div Q
           m == p % Q
<1>1. /\ t \in Nat \ {0} /\ N \in Nat \ {0} /\ t <= N /\ t = CeilDiv(N, Q) /\ N <= Q * Q
      /\ Q \in Nat \ {0} /\ p \in Nat
  BY SharedFacts, Constants
<1> HIDE DEF t, N, Q
<1>2. d \in 0..(t - 1) /\ m \in 0..(Q - 1) /\ d * Q + m = p
  BY <1>1, GroupExists DEF N
<1>3. d < Q
  <2>1. p < Q * Q
    <3>1. Q * Q \in Nat /\ p < N
      BY <1>1 DEF N
    <3> QED BY <1>1, <3>1
  <2> QED BY <1>1, <2>1, DivLess
<1> HIDE DEF d, m
<1>4. ASSUME NEW q \in 0..(t - 1), NEW e \in 0..(Q - 1), NEW x \in 0..(N - 1), x = q * Q + e
      PROVE  Entry(pages[1][q + 1], e) = pages[1][x + 1]
  <2>1. q \in 0..(N - 1) /\ q < t
    BY <1>1
  <2>2. At(pages[1][q + 1]) = TablePage([k \in 0..(Q - 1) |->
          IF q * Q + k < N THEN pages[1][q * Q + k + 1] ELSE 0])
    BY <2>1, SharedParts DEF t, N, Q
  <2>3. /\ At(pages[1][q + 1]).kind = "table"
        /\ At(pages[1][q + 1]).entries[e] = IF q * Q + e < N THEN pages[1][q * Q + e + 1] ELSE 0
    BY <2>2 DEF TablePage
  <2>4. x < N
    BY <1>1
  <2> QED BY <1>4, <2>3, <2>4, Zenon DEF Entry
<1>5. Entry(pages[1][1], d) = pages[1][d + 1]
  <2>1. 0 \in 0..(t - 1) /\ d \in 0..(Q - 1) /\ d \in 0..(N - 1) /\ d = 0 * Q + d /\ 0 + 1 = 1
    BY <1>1, <1>2, <1>3
  <2>2. Entry(pages[1][0 + 1], d) = pages[1][d + 1]
    BY <1>4, <2>1
  <2> QED BY <2>1, <2>2
<1>6. Entry(pages[1][d + 1], m) = pages[1][p + 1]
  <2>1. p \in 0..(N - 1)
    BY DEF N
  <2> QED BY <1>2, <1>4, <2>1
<1>7. Arguments.sharedMemPhysAddr = pages[1][1]
  BY ArgumentFacts
<1>8. SharedAddress(p) = Entry(Entry(pages[1][1], d), m)
  BY <1>7 DEF SharedAddress, d, m, Q
<1> QED BY <1>5, <1>6, <1>8

\* The two records and the ring they are put into.
SysRecord == BuildRpcRecord("GspSetSystemInfo", SystemInfoBytes, 0)
RegRecord == BuildRpcRecord("SetRegistry", in.registryBytes, 1)
Slots == MsgCount(Queues)
FullRing ==
  PutRecord(PutRecord([slots |-> [s \in 1..Slots |-> ZeroPage], writePtr |-> 0], SysRecord),
            RegRecord)

LEMMA SharedPages ==
  ASSUME Prepared
  PROVE  /\ \A n \in 0..(QueuePages(in.queueBytes) - 1) :
              CommandPage(n) = BuildBootstrapCommandQueue(Queues, in.registryBytes).pages[n]
         /\ \A n \in 0..(QueuePages(in.queueBytes) - 1) :
              SharedPage(Arguments.statQueueOffset \div PageBytes + n) = ZeroPage
<1> DEFINE t == QueueTablePages(in.queueBytes)
           w == QueuePages(in.queueBytes)
<1>1. t \in Nat \ {0} /\ w \in Nat \ {0} /\ PageCount(1) = t + 2 * w
  BY SharedFacts
<1>2. /\ Arguments.cmdQueueOffset \div PageBytes = t
      /\ Arguments.statQueueOffset \div PageBytes = t + w
  BY ArgumentFacts
<1> HIDE DEF t, w
<1>3. ASSUME NEW n \in 0..(w - 1)
      PROVE  CommandPage(n) = BuildBootstrapCommandQueue(Queues, in.registryBytes).pages[n]
  <2> DEFINE p == t + n
  <2>1. p \in 0..(PageCount(1) - 1) /\ t <= p /\ p < t + w /\ p - t = n
    BY <1>1
  <2> HIDE DEF p
  <2>2. At(pages[1][p + 1]) = BuildBootstrapCommandQueue(Queues, in.registryBytes).pages[n]
    BY <2>1, SharedParts DEF t, w
  <2>3. SharedPage(p) = At(pages[1][p + 1])
    BY <2>1, SharedWalk DEF SharedPage
  <2> QED BY <1>2, <2>2, <2>3 DEF CommandPage, p
<1>4. ASSUME NEW n \in 0..(w - 1) PROVE SharedPage(t + w + n) = ZeroPage
  <2> DEFINE p == t + w + n
  <2>1. p \in 0..(PageCount(1) - 1) /\ t + w <= p
    BY <1>1
  <2> HIDE DEF p
  <2>2. At(pages[1][p + 1]) = ZeroPage
    BY <2>1, SharedParts DEF t, w
  <2>3. SharedPage(p) = At(pages[1][p + 1])
    BY <2>1, SharedWalk DEF SharedPage
  <2> QED BY <2>2, <2>3 DEF p
<1> QED BY <1>2, <1>3, <1>4 DEF w

LEMMA QueueFits ==
  ASSUME Prepared
  PROVE  /\ Slots \in Nat /\ Slots >= 2 /\ QueuePages(in.queueBytes) = Slots + 1
         /\ SysRecord # None /\ RegRecord # None
         /\ CommandPage(0) = [kind |-> "tx", msgCount |-> Slots, entryOff |-> PageBytes,
                              writePtr |-> FullRing.writePtr]
         /\ \A s \in 1..Slots : CommandPage(s) = FullRing.slots[s]
<1> DEFINE w == QueuePages(in.queueBytes)
           command == BuildBootstrapCommandQueue(Queues, in.registryBytes)
<1>1. w \in Nat \ {0} /\ Queues.queueBytes = PageBytes * w
  BY SharedFacts
<1>2. command # None
  BY DEF Prepared, Built
<1> HIDE DEF w
<1>3. Slots = w - 1
  <2>1. w - 1 \in Nat /\ PageBytes * w - PageBytes = PageBytes * (w - 1)
    BY <1>1, Constants
  <2> QED BY <1>1, <2>1, DivExact DEF Slots, MsgCount
<1>4. /\ ~(Slots < 2) /\ SysRecord # None /\ RegRecord # None
  BY <1>2 DEF BuildBootstrapCommandQueue, Slots, SysRecord, RegRecord
<1>5. command.pages =
        [p \in 0..Slots |->
          IF p = 0 THEN [kind |-> "tx", msgCount |-> Slots, entryOff |-> PageBytes,
                         writePtr |-> FullRing.writePtr]
          ELSE FullRing.slots[p]]
  <2>1. command =
          [kind |-> "image", bytes |-> Queues.queueBytes,
           pages |-> [p \in 0..Slots |->
             IF p = 0 THEN [kind |-> "tx", msgCount |-> Slots, entryOff |-> PageBytes,
                            writePtr |-> FullRing.writePtr]
             ELSE FullRing.slots[p]]]
    BY <1>2 DEF BuildBootstrapCommandQueue, FullRing, Slots, SysRecord, RegRecord
  <2> HIDE DEF command
  <2> QED BY <2>1
<1> HIDE DEF command
<1>6. ASSUME NEW n \in 0..Slots PROVE CommandPage(n) = command.pages[n]
  <2>1. n \in 0..(w - 1)
    BY <1>1, <1>3
  <2> QED BY <2>1, SharedPages DEF w, command
<1>7. Slots \in Nat /\ Slots >= 2 /\ w = Slots + 1
  BY <1>1, <1>3, <1>4
<1>8. CommandPage(0) = [kind |-> "tx", msgCount |-> Slots, entryOff |-> PageBytes,
                        writePtr |-> FullRing.writePtr]
  <2>1. 0 \in 0..Slots
    BY <1>7
  <2> QED BY <1>5, <1>6, <2>1
<1>9. ASSUME NEW s \in 1..Slots PROVE CommandPage(s) = FullRing.slots[s]
  <2>1. s \in 0..Slots /\ s # 0
    BY <1>7
  <2> QED BY <1>5, <1>6, <2>1
<1> QED BY <1>4, <1>7, <1>8, <1>9 DEF w

\* Every region GSP-RM is told of lies in the pages of the buffer it is meant for:
\* the shared queue memory behind its own page table, both queues where the arguments
\* say, and the LibOS regions (PlanQueueMemory, BuildQueuePageTable,
\* ResolveGa10xBootMemory).
THEOREM RegionsMapped == Spec => []RegionsAreMapped
<1>1. ASSUME MemoryInv, Ready PROVE Prepared
  BY <1>1, ReadyIsPrepared
<1>2. ASSUME MemoryInv PROVE QueueMemoryMapped
  <2> SUFFICES ASSUME Prepared
      PROVE  /\ Arguments.kind = "arguments"
             /\ \A p \in 0..(PageCount(1) - 1) : SharedAddress(p) = pages[1][p + 1]
             /\ CommandPage(0).kind = "tx"
             /\ \A p \in 0..(in.queueBytes \div PageBytes - 1) :
                  SharedPage(Arguments.statQueueOffset \div PageBytes + p) = ZeroPage
    BY <1>1, <1>2 DEF QueueMemoryMapped
  <2>1. CommandPage(0).kind = "tx"
    BY QueueFits
  <2>2. \A p \in 0..(in.queueBytes \div PageBytes - 1) :
          SharedPage(Arguments.statQueueOffset \div PageBytes + p) = ZeroPage
    BY SharedPages DEF QueuePages
  <2> QED BY <2>1, <2>2, ArgumentFacts, SharedWalk
<1>3. ASSUME MemoryInv PROVE RegionsInsideBuffers
  <2> DEFINE touched(r) == {r.base + PageBytes * p : p \in 0..(r.size \div PageBytes - 1)}
             own(i) == {pages[i][p] : p \in DOMAIN pages[i]}
  <2> SUFFICES ASSUME Prepared
      PROVE  /\ \A n \in 1..5 : touched(Region(LogNames[n])) \subseteq own(n + 5)
             /\ touched(Region("RMARGS")) \subseteq own(2)
    BY <1>1, <1>3 DEF RegionsInsideBuffers
  <2>1. /\ PageCount(2) = 1 /\ \A i \in Logs : PageCount(i) = LogPages
    BY BufferFacts DEF Prepared, Laid
  <2>2. ASSUME NEW i \in 2..10, i # 5, NEW c \in Nat, PageCount(i) = c,
               NEW r, r.base = pages[i][1], r.size \div PageBytes = c
        PROVE  touched(r) \subseteq own(i)
    <3>1. /\ DOMAIN pages[i] = 1..c
          /\ \A p \in 1..c : pages[i][p] = pages[i][1] + PageBytes * (p - 1)
      <4>1. Laid /\ i \in 1..10 /\ i \notin {1, 5}
        BY <2>2 DEF Prepared
      <4>2. /\ DOMAIN pages[i] = 1..PageCount(i)
            /\ \A p \in 1..PageCount(i) : pages[i][p] = pages[i][1] + PageBytes * (p - 1)
        BY <4>1 DEF Laid
      <4> QED BY <2>2, <4>2
    <3>2. ASSUME NEW p \in 0..(c - 1) PROVE r.base + PageBytes * p \in own(i)
      <4>1. p + 1 \in 1..c /\ (p + 1) - 1 = p
        OBVIOUS
      <4>2. pages[i][p + 1] = r.base + PageBytes * p
        BY <2>2, <3>1, <4>1
      <4> QED BY <3>1, <4>1, <4>2
    <3> QED BY <2>2, <3>2
  <2>3. ASSUME NEW n \in 1..5 PROVE touched(Region(LogNames[n])) \subseteq own(n + 5)
    <3>1. /\ Region(LogNames[n]).base = pages[n + 5][1]
          /\ Region(LogNames[n]).size = LogPages * PageBytes
      BY RegionFacts DEF LibosRegion
    <3>2. (LogPages * PageBytes) \div PageBytes = LogPages
      <4>1. LogPages * PageBytes = PageBytes * LogPages /\ LogPages \in Nat
        BY Constants
      <4> QED BY <4>1, DivExact
    <3>3. n + 5 \in Logs /\ n + 5 \in 2..10 /\ n + 5 # 5
      BY DEF Logs
    <3>4. PageCount(n + 5) = LogPages
      BY <2>1, <3>3
    <3> HIDE DEF touched, own
    <3> QED BY <2>2, <3>1, <3>2, <3>3, <3>4, Constants
  <2>4. touched(Region("RMARGS")) \subseteq own(2)
    <3>1. Region("RMARGS").base = pages[2][1] /\ Region("RMARGS").size = PageBytes
      BY RegionFacts DEF LibosRegion
    <3>2. PageBytes \div PageBytes = 1
      <4>1. PageBytes * 1 = PageBytes /\ 1 \in Nat
        BY Constants
      <4>2. (PageBytes * 1) \div PageBytes = 1
        BY DivExact
      <4> QED BY <4>1, <4>2
    <3> HIDE DEF touched, own
    <3> QED BY <2>1, <2>2, <3>1, <3>2
  <2> QED BY <2>3, <2>4
<1>4. MemoryInv => RegionsAreMapped
  BY <1>2, <1>3 DEF RegionsAreMapped
<1> QED BY <1>4, MemoryInvariant, PTL

-----------------------------------------------------------------------------
(***************************************************************************)
(* The records.                                                            *)
(***************************************************************************)

LEMMA RpcConstants ==
  /\ kProtocolOverheadBytes \in Nat \ {0} /\ SystemInfoBytes \in Nat /\ MaxElements \in Nat \ {0}
  /\ PageBytes * MaxElements \in Nat /\ PageBytes * MaxElements > kProtocolOverheadBytes
BY RpcAssumption, Constants

LEMMA RecordFacts ==
  ASSUME NEW f, NEW b \in Nat, NEW s, BuildRpcRecord(f, b, s) # None
  PROVE  LET r == BuildRpcRecord(f, b, s)
         IN  /\ r.elementCount = CeilDiv(kProtocolOverheadBytes + b, PageBytes)
             /\ r.elementCount \in 1..MaxElements
             /\ r.function = f /\ r.sequence = s /\ r.payloadBytes = b
<1> DEFINE r == BuildRpcRecord(f, b, s)
           c == CeilDiv(kProtocolOverheadBytes + b, PageBytes)
<1>1. kProtocolOverheadBytes + b \in Nat
  BY RpcConstants
<1>2. c \in Nat
  BY <1>1, CeilFacts, Constants
<1> HIDE DEF c
<1>3. ~(c = 0 \/ c > MaxElements)
  BY DEF BuildRpcRecord, c
<1>4. r = [kind |-> "record", function |-> f, sequence |-> s, elementCount |-> c, payloadBytes |-> b]
  BY <1>3 DEF BuildRpcRecord, c
<1>5. c \in 1..MaxElements
  BY <1>2, <1>3, RpcConstants
<1> HIDE DEF r
<1>6. r.elementCount = c /\ r.function = f /\ r.sequence = s /\ r.payloadBytes = b
  BY <1>4
<1> QED BY <1>5, <1>6 DEF r, c

\* A record of e elements is put into a ring of n slots from place w on.
IsPut(new, ring, n, w, record, e) ==
  /\ new.writePtr = w + e /\ new.slots = [s \in 1..n |-> new.slots[s]]
  /\ \A s \in 1..n : s <= w => new.slots[s] = ring.slots[s]
  /\ \A s \in 1..n : w < s /\ s <= w + e => new.slots[s] = Element(record, s - w)

\* Putting a record that fits before the end of the ring.
LEMMA PutFits ==
  ASSUME NEW n \in Nat \ {0}, NEW ring, ring.slots = [s \in 1..n |-> ring.slots[s]],
         NEW w \in 0..(n - 1), ring.writePtr = w,
         NEW record, NEW e \in Nat \ {0}, record.elementCount = e, w + e < n
  PROVE  IsPut(PutRecord(ring, record), ring, n, w, record, e)
<1> DEFINE new == PutRecord(ring, record)
           k(s) == (s - 1 + n - w) % n
<1>1. Len(ring.slots) = n
  <2>1. Len([s \in 1..n |-> ring.slots[s]]) = n
    OBVIOUS
  <2> QED BY <2>1, Zenon
<1>2. new = [slots |-> [s \in 1..n |-> IF k(s) < e THEN Element(record, k(s) + 1)
                                       ELSE ring.slots[s]],
             writePtr |-> (w + e) % n]
  BY <1>1 DEF PutRecord
<1>3. (w + e) % n = w + e
  <2>1. w + e \in 0..(n - 1)
    OBVIOUS
  <2>2. (n * 0 + (w + e)) % n = w + e
    BY <2>1, DivisionUnique
  <2>3. n * 0 + (w + e) = w + e
    OBVIOUS
  <2> QED BY <2>2, <2>3
<1>4. ASSUME NEW s \in 1..n, s <= w PROVE k(s) = s - 1 + n - w
  <2>1. s - 1 + n - w \in 0..(n - 1)
    BY <1>4
  <2> DEFINE x == s - 1 + n - w
  <2> HIDE DEF x
  <2>2. (n * 0 + x) % n = x
    BY <2>1, DivisionUnique DEF x
  <2>3. n * 0 + x = x
    BY <2>1 DEF x
  <2> QED BY <2>2, <2>3 DEF x
<1>5. ASSUME NEW s \in 1..n, w < s PROVE k(s) = s - 1 - w
  <2> DEFINE x == s - 1 - w
  <2>1. x \in 0..(n - 1) /\ n * 1 + x = s - 1 + n - w
    BY <1>5
  <2> HIDE DEF x
  <2>2. (n * 1 + x) % n = x
    BY <2>1, DivisionUnique
  <2> QED BY <2>1, <2>2 DEF x
<1> HIDE DEF new, k
<1>6. new.writePtr = w + e
  BY <1>2, <1>3
<1>7. new.slots = [s \in 1..n |-> IF k(s) < e THEN Element(record, k(s) + 1) ELSE ring.slots[s]]
  BY <1>2
<1>8. \A s \in 1..n : new.slots[s] = IF k(s) < e THEN Element(record, k(s) + 1) ELSE ring.slots[s]
  BY <1>7
<1>9. new.slots = [s \in 1..n |-> new.slots[s]]
  BY <1>7
<1>10. ASSUME NEW s \in 1..n, s <= w PROVE new.slots[s] = ring.slots[s]
  <2>1. ~(k(s) < e)
    BY <1>4, <1>10
  <2> QED BY <1>8, <2>1
<1>11. ASSUME NEW s \in 1..n, w < s, s <= w + e PROVE new.slots[s] = Element(record, s - w)
  <2>1. k(s) < e /\ k(s) + 1 = s - w
    BY <1>5, <1>11
  <2> QED BY <1>8, <2>1
<1> QED BY <1>6, <1>9, <1>10, <1>11 DEF new, IsPut

\* The ring of a session with room for both records.
LEMMA RingFacts ==
  ASSUME Prepared, Room
  PROVE  LET a == SysRecord.elementCount
             b == RegRecord.elementCount
         IN  /\ a \in Nat \ {0} /\ b \in Nat \ {0} /\ a + b < Slots
             /\ CommandPage(0).msgCount = Slots /\ CommandPage(0).writePtr = a + b
             /\ \A j \in 0..(a - 1) : RingAt(j) = Element(SysRecord, j + 1)
             /\ \A j \in a..(a + b - 1) : RingAt(j) = Element(RegRecord, j - a + 1)
<1> DEFINE n == Slots
           a == SysRecord.elementCount
           b == RegRecord.elementCount
           empty == [slots |-> [s \in 1..n |-> ZeroPage], writePtr |-> 0]
           half == PutRecord(empty, SysRecord)
<1>1. /\ n \in Nat /\ n >= 2 /\ SysRecord # None /\ RegRecord # None
      /\ CommandPage(0) = [kind |-> "tx", msgCount |-> Slots, entryOff |-> PageBytes,
                           writePtr |-> FullRing.writePtr]
      /\ \A s \in 1..n : CommandPage(s) = FullRing.slots[s]
  BY QueueFits
<1>2. a \in Nat \ {0} /\ b \in Nat \ {0}
  <2>1. in.registryBytes \in Nat
    BY InputFacts DEF Prepared, Laid
  <2>2. a \in 1..MaxElements
    BY <1>1, RecordFacts, RpcConstants DEF SysRecord
  <2>3. b \in 1..MaxElements
    BY <1>1, <2>1, RecordFacts DEF RegRecord
  <2> QED BY <2>2, <2>3, RpcConstants
<1>3. a + b < n
  <2>1. b + a < n
    BY DEF Room, SysRecord, RegRecord, Slots
  <2> QED BY <1>1, <1>2, <2>1
<1> HIDE DEF n, a, b
<1>4. empty.slots = [s \in 1..n |-> empty.slots[s]] /\ empty.writePtr = 0
  OBVIOUS
<1> HIDE DEF empty
<1>5. /\ half.writePtr = a /\ half.slots = [s \in 1..n |-> half.slots[s]]
      /\ \A s \in 1..n : s <= a => half.slots[s] = Element(SysRecord, s)
  <2>1. n \in Nat \ {0} /\ 0 \in 0..(n - 1) /\ 0 + a < n /\ 0 + a = a
    BY <1>1, <1>2, <1>3
  <2>2. /\ half.writePtr = 0 + a /\ half.slots = [s \in 1..n |-> half.slots[s]]
        /\ \A s \in 1..n : 0 < s /\ s <= 0 + a => half.slots[s] = Element(SysRecord, s - 0)
    <3>1. SysRecord.elementCount = a
      BY DEF a
    <3>2. IsPut(half, empty, n, 0, SysRecord, a)
      BY <1>2, <1>4, <2>1, <3>1, PutFits
    <3> QED BY <3>2 DEF IsPut
  <2>3. \A s \in 1..n : 0 < s /\ s - 0 = s
    OBVIOUS
  <2> HIDE DEF half
  <2> QED BY <2>1, <2>2, <2>3
<1>6. FullRing = PutRecord(half, RegRecord)
  BY DEF FullRing, half, empty, n
<1> HIDE DEF half
<1>7. /\ FullRing.writePtr = a + b
      /\ \A s \in 1..n : s <= a => FullRing.slots[s] = half.slots[s]
      /\ \A s \in 1..n : a < s /\ s <= a + b => FullRing.slots[s] = Element(RegRecord, s - a)
  <2>1. n \in Nat \ {0} /\ a \in 0..(n - 1)
    BY <1>1, <1>2, <1>3
  <2>2. half.slots = [s \in 1..n |-> half.slots[s]] /\ half.writePtr = a
    BY <1>5
  <2> DEFINE full == PutRecord(half, RegRecord)
  <2>3. /\ full.writePtr = a + b
        /\ \A s \in 1..n : s <= a => full.slots[s] = half.slots[s]
        /\ \A s \in 1..n : a < s /\ s <= a + b => full.slots[s] = Element(RegRecord, s - a)
    <3>1. RegRecord.elementCount = b /\ b \in Nat \ {0} /\ a + b < n
      BY <1>2, <1>3 DEF b
    <3>2. IsPut(full, half, n, a, RegRecord, b)
      BY <2>1, <2>2, <3>1, PutFits
    <3> QED BY <3>2 DEF IsPut
  <2> HIDE DEF full
  <2>4. FullRing = full
    BY <1>6 DEF full
  <2> QED BY <2>3, <2>4
<1>8. CommandPage(0).msgCount = n /\ CommandPage(0).writePtr = a + b
  BY <1>1, <1>7 DEF n
<1>9. ASSUME NEW j \in 0..(n - 1) PROVE RingAt(j) = FullRing.slots[j + 1]
  <2>1. j % n = j
    <3>1. n \in Nat \ {0}
      BY <1>1
    <3>2. (n * 0 + j) % n = j
      BY <3>1, DivisionUnique
    <3>3. n * 0 + j = j
      BY <3>1
    <3> QED BY <3>2, <3>3
  <2>2. 1 + j = j + 1 /\ j + 1 \in 1..n
    BY <1>1
  <2> QED BY <1>1, <1>8, <2>1, <2>2 DEF RingAt
<1>10. ASSUME NEW j \in 0..(a - 1) PROVE RingAt(j) = Element(SysRecord, j + 1)
  <2>1. j \in 0..(n - 1) /\ j + 1 \in 1..n /\ j + 1 <= a
    BY <1>1, <1>2, <1>3
  <2> QED BY <1>5, <1>7, <1>9, <2>1
<1>11. ASSUME NEW j \in a..(a + b - 1) PROVE RingAt(j) = Element(RegRecord, j - a + 1)
  <2>1. /\ j \in 0..(n - 1) /\ j + 1 \in 1..n /\ a < j + 1 /\ j + 1 <= a + b
        /\ (j + 1) - a = j - a + 1
    BY <1>1, <1>2, <1>3
  <2> QED BY <1>7, <1>9, <2>1
<1> QED BY <1>2, <1>3, <1>8, <1>10, <1>11 DEF n, a, b

\* A record whose elements lie from the read pointer on is taken.
LEMMA RecordIsTaken ==
  ASSUME NEW record, NEW e \in Nat \ {0}, record.elementCount = e, e \in 1..MaxElements,
         CeilDiv(kProtocolOverheadBytes + record.payloadBytes, PageBytes) = e,
         readPtr \in Nat, readPtr # CommandPage(0).writePtr,
         \A k \in 1..e : RingAt(readPtr + k - 1) = Element(record, k)
  PROVE  NextMessage.of = record /\ Receivable
<1>1. 1 \in 1..e /\ readPtr + 1 - 1 = readPtr
  OBVIOUS
<1>2. NextMessage = Element(record, 1)
  BY <1>1 DEF NextMessage
<1>3. NextMessage.of = record /\ NextMessage.kind = "message"
  BY <1>2 DEF Element
<1> DEFINE elements == [k \in 1..e |-> Element(record, k)]
<1>4. [k \in 1..NextMessage.of.elementCount |-> RingAt(readPtr + k - 1)] = elements
  <2>1. NextMessage.of.elementCount = e
    BY <1>3
  <2> QED BY <2>1
<1>5. /\ DOMAIN elements = 1..e /\ Len(elements) = e
      /\ \A k \in 1..e : elements[k] = Element(record, k)
  OBVIOUS
<1> HIDE DEF elements
<1>6. \A k \in DOMAIN elements : elements[k].kind = "message"
  BY <1>5 DEF Element
<1>7. elements[1].of = record /\ elements[1].part = 1
  BY <1>1, <1>5 DEF Element
<1>8. ValidateRpcRecord(elements)
  BY <1>5, <1>7 DEF ValidateRpcRecord
<1>9. Receivable
  BY <1>3, <1>4, <1>6, <1>8, Zenon DEF Receivable
<1> QED BY <1>3, <1>9

\* How far GSP-RM has come.
Taken(n) ==
  \/ n = 0 /\ readPtr = 0 /\ received = <<>>
  \/ n = 1 /\ readPtr = SysRecord.elementCount /\ received = <<SysRecord>>
  \/ /\ n = 2 /\ readPtr = SysRecord.elementCount + RegRecord.elementCount
     /\ Len(received) = 2 /\ received[1] = SysRecord /\ received[2] = RegRecord

DeliveryInv == Ready /\ Room => \E n \in 0..2 : Taken(n)

\* The record next in turn is at the read pointer; after the second the ring is empty.
LEMMA TurnFacts ==
  ASSUME Prepared, Room
  PROVE  /\ Taken(0) => NextMessage.of = SysRecord /\ Receivable
         /\ Taken(1) => NextMessage.of = RegRecord /\ Receivable
         /\ Taken(2) => ~Receivable /\ readPtr = CommandPage(0).writePtr
<1> DEFINE a == SysRecord.elementCount
           b == RegRecord.elementCount
<1>1. /\ a \in Nat \ {0} /\ b \in Nat \ {0}
      /\ CommandPage(0).writePtr = a + b
      /\ \A j \in 0..(a - 1) : RingAt(j) = Element(SysRecord, j + 1)
      /\ \A j \in a..(a + b - 1) : RingAt(j) = Element(RegRecord, j - a + 1)
  BY RingFacts
<1>2. /\ a \in 1..MaxElements /\ b \in 1..MaxElements
      /\ CeilDiv(kProtocolOverheadBytes + SysRecord.payloadBytes, PageBytes) = a
      /\ CeilDiv(kProtocolOverheadBytes + RegRecord.payloadBytes, PageBytes) = b
  <2>1. in.registryBytes \in Nat /\ SysRecord # None /\ RegRecord # None
    BY InputFacts, QueueFits DEF Prepared, Laid
  <2>2. a \in 1..MaxElements /\ CeilDiv(kProtocolOverheadBytes + SysRecord.payloadBytes, PageBytes) = a
    BY <2>1, RecordFacts, RpcConstants DEF SysRecord
  <2>3. b \in 1..MaxElements /\ CeilDiv(kProtocolOverheadBytes + RegRecord.payloadBytes, PageBytes) = b
    BY <2>1, RecordFacts DEF RegRecord
  <2> QED BY <2>2, <2>3
<1> HIDE DEF a, b
<1>3. ASSUME Taken(0) PROVE NextMessage.of = SysRecord /\ Receivable
  <2>1. readPtr = 0
    BY <1>3 DEF Taken
  <2>2. ASSUME NEW k \in 1..a PROVE RingAt(readPtr + k - 1) = Element(SysRecord, k)
    <3>1. readPtr + k - 1 \in 0..(a - 1) /\ readPtr + k - 1 + 1 = k
      BY <1>1, <2>1
    <3> QED BY <1>1, <3>1
  <2>3. readPtr # CommandPage(0).writePtr /\ readPtr \in Nat
    BY <1>1, <2>1
  <2>4. SysRecord.elementCount = a
    BY DEF a
  <2> QED BY <1>1, <1>2, <2>2, <2>3, <2>4, RecordIsTaken
<1>4. ASSUME Taken(1) PROVE NextMessage.of = RegRecord /\ Receivable
  <2>1. readPtr = a
    BY <1>4 DEF Taken, a
  <2>2. ASSUME NEW k \in 1..b PROVE RingAt(readPtr + k - 1) = Element(RegRecord, k)
    <3>1. readPtr + k - 1 \in a..(a + b - 1) /\ (readPtr + k - 1) - a + 1 = k
      BY <1>1, <2>1
    <3> QED BY <1>1, <3>1
  <2>3. readPtr # CommandPage(0).writePtr /\ readPtr \in Nat
    BY <1>1, <2>1
  <2>4. RegRecord.elementCount = b
    BY DEF b
  <2> QED BY <1>1, <1>2, <2>2, <2>3, <2>4, RecordIsTaken
<1>5. ASSUME Taken(2) PROVE ~Receivable /\ readPtr = CommandPage(0).writePtr
  <2>1. readPtr = CommandPage(0).writePtr
    BY <1>1, <1>5 DEF Taken, a, b
  <2> QED BY <2>1, Zenon DEF Receivable
<1> QED BY <1>3, <1>4, <1>5

LEMMA DeliveryStep ==
  ASSUME MemoryInv, MemoryInv', DeliveryInv, [Next]_vars
  PROVE  DeliveryInv'
<1> SUFFICES ASSUME Ready', Room' PROVE \E n \in 0..2 : Taken(n)'
  BY DEF DeliveryInv
<1>1. pc' = "ready" /\ in' = in
  BY DEF Ready, Next, vars, PlanPreparation, MapGenerated, ResolveAddresses, BuildArtifacts,
         PopulateGenerated, PlanSequence, GspReceive, KernelFails, Refuse, Fail
<1>2. SysRecord' = SysRecord /\ RegRecord' = RegRecord /\ (Room' <=> Room) /\ Slots' = Slots
  <2>1. Queues' = Queues
    BY <1>1, SameInput
  <2> QED BY <1>1, <2>1 DEF SysRecord, RegRecord, Room, Slots
<1>3. CASE pc # "ready"
  <2>1. readPtr = 0 /\ received = <<>>
    BY <1>3 DEF MemoryInv, StepInv
  <2>2. readPtr' = readPtr /\ received' = received
    BY <1>1, <1>3 DEF Next, vars, PlanPreparation, MapGenerated, ResolveAddresses, BuildArtifacts,
       PopulateGenerated, PlanSequence, GspReceive, KernelFails, Refuse, Fail, gspVars
  <2>3. Taken(0)'
    BY <2>1, <2>2 DEF Taken
  <2> QED BY <2>3
<1>4. CASE pc = "ready"
  <2>1. Prepared /\ Room /\ \E n \in 0..2 : Taken(n)
    BY <1>2, <1>4, ReadyIsPrepared DEF DeliveryInv, Ready
  <2>2. CASE UNCHANGED vars
    <3>1. \A n : Taken(n)' <=> Taken(n)
      BY <1>2, <2>2 DEF vars, Taken
    <3> QED BY <2>1, <3>1
  <2>3. CASE GspReceive
    <3> DEFINE a == SysRecord.elementCount
               b == RegRecord.elementCount
    <3>1. /\ Receivable /\ received' = Append(received, NextMessage.of)
          /\ readPtr' = (readPtr + NextMessage.of.elementCount) % CommandPage(0).msgCount
      BY <2>3 DEF GspReceive
    <3>2. a \in Nat \ {0} /\ b \in Nat \ {0} /\ a + b < Slots /\ CommandPage(0).msgCount = Slots
          /\ Slots \in Nat
      BY <2>1, RingFacts, QueueFits
    <3> HIDE DEF a, b
    <3>3. \A x \in 0..(Slots - 1) : x % Slots = x
      <4> SUFFICES ASSUME NEW x \in 0..(Slots - 1) PROVE x % Slots = x
        OBVIOUS
      <4>1. Slots \in Nat \ {0}
        BY <3>2
      <4>2. (Slots * 0 + x) % Slots = x
        BY <4>1, DivisionUnique
      <4>3. Slots * 0 + x = x
        BY <4>1
      <4> QED BY <4>2, <4>3
    <3>4. CASE Taken(0)
      <4>1. NextMessage.of = SysRecord /\ readPtr = 0 /\ received = <<>>
        BY <2>1, <3>4, TurnFacts DEF Taken
      <4>2. received' = <<SysRecord>>
        BY <3>1, <4>1
      <4>3. 0 + a = a /\ a \in 0..(Slots - 1)
        BY <3>2
      <4>4. readPtr' = a
        BY <3>1, <3>2, <3>3, <4>1, <4>3 DEF a
      <4>5. Taken(1)'
        BY <1>2, <4>2, <4>4 DEF Taken, a
      <4> QED BY <4>5
    <3>5. CASE Taken(1)
      <4>1. NextMessage.of = RegRecord /\ readPtr = a /\ received = <<SysRecord>>
        BY <2>1, <3>5, TurnFacts DEF Taken, a
      <4>2. Len(received') = 2 /\ received'[1] = SysRecord /\ received'[2] = RegRecord
        <5>1. received' = Append(<<SysRecord>>, RegRecord)
          BY <3>1, <4>1, Zenon
        <5> QED BY <5>1
      <4>3. a + b \in 0..(Slots - 1)
        BY <3>2
      <4>4. readPtr' = a + b
        BY <3>1, <3>2, <3>3, <4>1, <4>3 DEF b
      <4>5. Taken(2)'
        BY <1>2, <4>2, <4>4 DEF Taken, a, b
      <4> QED BY <4>5
    <3>6. CASE Taken(2)
      BY <2>1, <3>1, <3>6, TurnFacts
    <3>7. \A n \in 0..2 : n = 0 \/ n = 1 \/ n = 2
      OBVIOUS
    <3> QED BY <2>1, <3>4, <3>5, <3>6, <3>7
  <2> QED BY <1>4, <2>2, <2>3 DEF Next, PlanPreparation, MapGenerated, ResolveAddresses,
        BuildArtifacts, PopulateGenerated, PlanSequence
<1> QED BY <1>3, <1>4

\* The fragments of a payload.
LEMMA FragmentFacts ==
  ASSUME in \in Inputs
  PROVE  FragmentsCarryPayload
<1> DEFINE P == in.registryBytes
           M == PageBytes * MaxElements - kProtocolOverheadBytes
           last == IF P = 0 THEN 1 ELSE CeilDiv(P, M)
           f == PlanRpcFragments(P)
           rest == P - (last - 1) * M
<1>1. P \in Nat /\ M \in Nat \ {0}
  BY InputFacts, RpcConstants
<1>2. M + kProtocolOverheadBytes = PageBytes * MaxElements
  BY RpcConstants
<1>3. f = [i \in 1..last |-> [offset |-> (i - 1) * M, continuation |-> i # 1,
                             bytes |-> IF i < last THEN M ELSE rest]]
  BY DEF PlanRpcFragments
<1> HIDE DEF P, M, f
<1>4. last \in Nat \ {0} /\ rest \in 0..M /\ (last > 1 => rest > 0)
      /\ (last - 1) * M + rest = P /\ (last - 1) * M \in Nat
  <2>1. CASE P = 0
    BY <1>1, <2>1
  <2>2. CASE P # 0
    <3> DEFINE c == CeilDiv(P, M)
    <3>1. c \in Nat \ {0} /\ P <= M * c /\ M * c < P + M
      BY <1>1, <2>2, CeilFacts, CeilPositive
    <3> HIDE DEF c
    <3>2. last = c
      BY <2>2 DEF c
    <3>3. (c - 1) * M = M * c - M /\ M * c \in Nat /\ (c - 1) * M \in Nat
      BY <1>1, <3>1
    <3> HIDE DEF last
    <3>4. rest = P - (M * c - M)
      BY <3>2, <3>3
    <3> QED BY <1>1, <3>1, <3>2, <3>3, <3>4
  <2> QED BY <2>1, <2>2
<1> HIDE DEF last, rest
<1>5. /\ DOMAIN f = 1..last /\ Len(f) = last
      /\ \A i \in 1..last : /\ f[i].offset = (i - 1) * M /\ f[i].continuation = (i # 1)
                            /\ f[i].bytes = IF i < last THEN M ELSE rest
  <2>1. DOMAIN f = 1..last /\ Len(f) = last
    BY <1>3, <1>4
  <2>2. ASSUME NEW i \in 1..last
        PROVE  f[i] = [offset |-> (i - 1) * M, continuation |-> i # 1,
                       bytes |-> IF i < last THEN M ELSE rest]
    BY <1>3
  <2>3. ASSUME NEW i \in 1..last
        PROVE  /\ f[i].offset = (i - 1) * M /\ f[i].continuation = (i # 1)
               /\ f[i].bytes = IF i < last THEN M ELSE rest
    <3> DEFINE more == i # 1
               size == IF i < last THEN M ELSE rest
    <3>1. f[i] = [offset |-> (i - 1) * M, continuation |-> more, bytes |-> size]
      BY <2>2
    <3> HIDE DEF more, size
    <3>2. f[i].offset = (i - 1) * M /\ f[i].continuation = more /\ f[i].bytes = size
      BY <3>1
    <3> QED BY <3>2 DEF more, size
  <2> QED BY <2>1, <2>3
<1>6. f[1].offset = 0 /\ ~f[1].continuation
  <2>1. 1 \in 1..last /\ (1 - 1) * M = 0
    BY <1>1, <1>4
  <2> QED BY <1>5, <2>1
<1>7. ASSUME NEW i \in 2..last
      PROVE  /\ f[i].offset = f[i - 1].offset + f[i - 1].bytes
             /\ f[i].continuation /\ f[i].bytes > 0
  <2>1. i \in 1..last /\ i - 1 \in 1..last /\ i - 1 < last /\ i # 1 /\ last > 1
    BY <1>4
  <2>2. f[i].offset = (i - 1) * M /\ f[i - 1].offset = (i - 1 - 1) * M /\ f[i - 1].bytes = M
    BY <1>5, <2>1
  <2>3. (i - 1) * M = (i - 1 - 1) * M + M
    BY <1>1, <2>1
  <2>4. f[i].continuation
    BY <1>5, <2>1, Zenon
  <2>5. f[i].bytes > 0
    <3>1. f[i].bytes = IF i < last THEN M ELSE rest
      BY <1>5, <2>1
    <3> QED BY <1>1, <1>4, <2>1, <3>1
  <2> QED BY <2>2, <2>3, <2>4, <2>5
<1>8. f[last].offset + f[last].bytes = P
  <2>1. last \in 1..last /\ ~(last < last)
    BY <1>4
  <2>2. f[last].offset = (last - 1) * M /\ f[last].bytes = rest
    BY <1>5, <2>1
  <2> QED BY <1>4, <2>2
<1>9. ASSUME NEW i \in 1..last PROVE BuildRpcRecord("any", f[i].bytes, i) # None
  <2> DEFINE b == f[i].bytes
             x == kProtocolOverheadBytes + b
             c == CeilDiv(x, PageBytes)
  <2>1. b \in 0..M
    <3>1. b = IF i < last THEN M ELSE rest
      BY <1>5
    <3> QED BY <1>1, <1>4, <3>1
  <2> HIDE DEF b
  <2>2. x \in Nat \ {0} /\ x <= PageBytes * MaxElements
    BY <1>1, <1>2, <2>1, RpcConstants
  <2> HIDE DEF x
  <2>3. c \in Nat \ {0} /\ PageBytes * c < x + PageBytes
    BY <2>2, CeilFacts, CeilPositive, Constants
  <2> HIDE DEF c
  <2>4. ~(c > MaxElements)
    <3>1. MaxElements < c => PageBytes * MaxElements + PageBytes <= PageBytes * c
      BY <2>3, ProductOrder, Constants, RpcConstants
    <3>2. PageBytes * c \in Nat
      BY <2>3, Constants
    <3> QED BY <2>2, <2>3, <3>1, <3>2, Constants, RpcConstants
  <2>5. BuildRpcRecord("any", b, i).kind = "record"
    BY <2>3, <2>4 DEF BuildRpcRecord, c, x
  <2> QED BY <2>5 DEF None, b
<1> QED BY <1>5, <1>6, <1>7, <1>8, <1>9 DEF FragmentsCarryPayload, f, P

\* Once the ring has room for both records GSP-RM takes the system information, then
\* the registry, whole and in order, and finds the ring empty; and the fragments of a
\* longer payload cover it exactly (PutRecord, BuildBootstrapCommandQueue,
\* PlanRpcFragments).
THEOREM PayloadsCarried == Spec => []PayloadsAreCarried
<1>1. Init => DeliveryInv
  BY DEF Init, DeliveryInv, Ready
<1>2. MemoryInv /\ MemoryInv' /\ DeliveryInv /\ [Next]_vars => DeliveryInv'
  BY DeliveryStep
<1>3. ASSUME MemoryInv, DeliveryInv PROVE PayloadsAreCarried
  <2>1. FragmentsCarryPayload
    BY <1>3, FragmentFacts DEF MemoryInv, StepInv
  <2>2. BootstrapRecordsDelivered
    <3> SUFFICES ASSUME Ready, Room, ~Receivable
        PROVE  /\ Len(received) = 2
               /\ \A n \in 1..2 : received[n].sequence = n - 1
               /\ received[1].function = "GspSetSystemInfo"
               /\ received[2].function = "SetRegistry"
               /\ received[2].payloadBytes = in.registryBytes
               /\ readPtr = CommandPage(0).writePtr
      BY DEF BootstrapRecordsDelivered
    <3>1. Prepared /\ \E n \in 0..2 : Taken(n)
      BY <1>3, ReadyIsPrepared DEF DeliveryInv
    <3>2. \A n \in 0..2 : n = 0 \/ n = 1 \/ n = 2
      OBVIOUS
    <3>3. Taken(2) /\ readPtr = CommandPage(0).writePtr
      BY <3>1, <3>2, TurnFacts
    <3>5. in.registryBytes \in Nat /\ SysRecord # None /\ RegRecord # None
      BY <3>1, InputFacts, QueueFits DEF Prepared, Laid
    <3>6. SysRecord.function = "GspSetSystemInfo" /\ SysRecord.sequence = 0
      BY <3>5, RecordFacts, RpcConstants DEF SysRecord
    <3>7. /\ RegRecord.function = "SetRegistry" /\ RegRecord.sequence = 1
          /\ RegRecord.payloadBytes = in.registryBytes
      BY <3>5, RecordFacts DEF RegRecord
    <3>8. Len(received) = 2 /\ received[1] = SysRecord /\ received[2] = RegRecord
      BY <3>3 DEF Taken
    <3>9. \A n \in 1..2 : received[n].sequence = n - 1
      <4>1. \A n \in 1..2 : n = 1 \/ n = 2
        OBVIOUS
      <4> QED BY <3>6, <3>7, <3>8, <4>1
    <3> QED BY <3>3, <3>6, <3>7, <3>8, <3>9
  <2> QED BY <2>1, <2>2 DEF PayloadsAreCarried
<1> QED BY <1>1, <1>2, <1>3, MemoryInvariant, PTL DEF Spec

=============================================================================
