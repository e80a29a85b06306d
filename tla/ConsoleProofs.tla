--------------------------- MODULE ConsoleProofs ---------------------------
(***************************************************************************)
(* TLAPS proofs about the console as a whole.  What is proved about a part *)
(* by itself holds of the part in the console; the pages of a list tile    *)
(* it; and the engine's configuration never changes, whatever is stored.   *)
(***************************************************************************)
EXTENDS Console, RegistryProofs, ApiTokensProofs, SessionsProofs

-----------------------------------------------------------------------------
(***************************************************************************)
(* What Array.filter keeps.                                                *)
(***************************************************************************)
\* The place a position takes among those that are kept.
Rank(K, k) == Cardinality({m \in K : m <= k})

\* Every place is taken by one position, and every position has a place.
LEMMA RanksAreThePlaces ==
    ASSUME NEW n \in Nat, NEW K \in SUBSET (1 .. n)
    PROVE  /\ Cardinality(K) \in Nat
           /\ \A k \in K : Rank(K, k) \in 1 .. Cardinality(K)
           /\ \A j \in 1 .. Cardinality(K) : \E k \in K : Rank(K, k) = j
           /\ \A k, m \in K : Rank(K, k) = Rank(K, m) => k = m
<1>1. IsFiniteSet(K) /\ Cardinality(K) \in Nat
  <2>1. IsFiniteSet(1 .. n)
    BY FS_Interval
  <2>2. IsFiniteSet(K)
    BY <2>1, FS_Subset
  <2> QED
    BY <2>2, FS_CardinalityType
<1>2. ASSUME NEW k \in K PROVE Rank(K, k) \in 1 .. Cardinality(K)
  <2> DEFINE T == {m \in K : m <= k}
  <2>1. T \in SUBSET K /\ T # {}
    BY <1>1
  <2>2. IsFiniteSet(T) /\ Cardinality(T) <= Cardinality(K)
    BY <1>1, <2>1, FS_Subset
  <2>3. Cardinality(T) \in Nat /\ Cardinality(T) # 0
    BY <2>1, <2>2, FS_EmptySet, FS_CardinalityType
  <2> QED
    BY <1>1, <2>2, <2>3 DEF Rank
<1>3. ASSUME NEW k \in K, NEW m \in K, Rank(K, k) = Rank(K, m), k < m PROVE FALSE
  <2> DEFINE T(x) == {y \in K : y <= x}
  <2>1. T(k) \in SUBSET T(m) /\ m \in T(m) /\ m \notin T(k)
    <3>1. \A y \in K : y \in Nat
      OBVIOUS
    <3>2. m <= m /\ ~(m <= k) /\ \A y \in K : y <= k => y <= m
      BY <1>3, <3>1
    <3> QED
      BY <3>2
  <2>2. IsFiniteSet(T(m))
    BY <1>1, FS_Subset
  <2>3. Cardinality(T(m)) = Cardinality(T(k))
    BY <1>3 DEF Rank
  <2>4. T(m) = T(k)
    BY <2>1, <2>2, <2>3, FS_Subset
  <2> QED
    BY <2>1, <2>4
<1>4. \A k, m \in K : Rank(K, k) = Rank(K, m) => k = m
  BY <1>3
<1> DEFINE f == [k \in K |-> Rank(K, k)]
<1>5. f \in Injection(K, 1 .. Cardinality(K))
  BY <1>2, <1>4 DEF Injection, IsInjective
<1>6. IsFiniteSet(1 .. Cardinality(K)) /\ Cardinality(1 .. Cardinality(K)) = Cardinality(K)
  BY <1>1, FS_Interval
<1>7. f \in Surjection(K, 1 .. Cardinality(K))
  BY <1>5, <1>6, FS_Injection
<1>8. \A j \in 1 .. Cardinality(K) : \E k \in K : Rank(K, k) = j
  BY <1>7 DEF Surjection
<1> QED
  BY <1>1, <1>2, <1>4, <1>8

\* Array.filter returns the entries at the positions it keeps, all of them, and
\* none twice if none is twice in the list.
LEMMA AtPositionsElements ==
    ASSUME NEW S, NEW l \in Seq(S), NEW K \in SUBSET DOMAIN l
    PROVE  /\ AtPositions(l, K) \in Seq(S)
           /\ Len(AtPositions(l, K)) = Cardinality(K)
           /\ \A j \in DOMAIN AtPositions(l, K) : \E k \in K : AtPositions(l, K)[j] = l[k]
           /\ \A k \in K : \E j \in DOMAIN AtPositions(l, K) : AtPositions(l, K)[j] = l[k]
           /\ IsInjective(l) => IsInjective(AtPositions(l, K))
<1> DEFINE Nth(j) == CHOOSE k \in K : Rank(K, k) = j
           t == AtPositions(l, K)
<1>1. Len(l) \in Nat /\ DOMAIN l = 1 .. Len(l) /\ K \in SUBSET (1 .. Len(l))
  OBVIOUS
<1>2. /\ Cardinality(K) \in Nat
      /\ \A k \in K : Rank(K, k) \in 1 .. Cardinality(K)
      /\ \A j \in 1 .. Cardinality(K) : \E k \in K : Rank(K, k) = j
      /\ \A k, m \in K : Rank(K, k) = Rank(K, m) => k = m
  BY <1>1, RanksAreThePlaces
<1>3. \A j \in 1 .. Cardinality(K) : Nth(j) \in K /\ Rank(K, Nth(j)) = j
  BY <1>2
<1>4. \A k \in K : Nth(Rank(K, k)) = k
  BY <1>2, <1>3
<1>5. t = [j \in 1 .. Cardinality(K) |-> l[Nth(j)]]
  BY DEF AtPositions, Rank
<1> HIDE DEF Nth, t
<1>6. \A k \in K : l[k] \in S
  BY <1>1
<1>7. t \in Seq(S) /\ Len(t) = Cardinality(K) /\ DOMAIN t = 1 .. Cardinality(K)
  BY <1>2, <1>3, <1>5, <1>6
<1>8. \A j \in DOMAIN t : Nth(j) \in K /\ t[j] = l[Nth(j)]
  BY <1>3, <1>5, <1>7
<1>9. \A k \in K : Rank(K, k) \in DOMAIN t /\ t[Rank(K, k)] = l[k]
  BY <1>2, <1>4, <1>7, <1>8
<1>10. ASSUME IsInjective(l) PROVE IsInjective(t)
  <2>1. \A k, m \in K : l[k] = l[m] => k = m
    BY <1>10 DEF IsInjective
  <2>2. \A i, j \in DOMAIN t : t[i] = t[j] => i = j
    BY <1>3, <1>7, <1>8, <2>1
  <2> QED
    BY <2>2 DEF IsInjective
<1> QED
  BY <1>7, <1>8, <1>9, <1>10 DEF t

-----------------------------------------------------------------------------
(***************************************************************************)
(* Pages: how many entries stand above page p, and the page of entry k.    *)
(***************************************************************************)
Above(p, limit) == (p - 1) * limit
PageOf(k, limit) == (k - 1) \div limit + 1

LEMMA PageSpan ==
    ASSUME NEW limit \in Nat \ {0}, NEW k \in Nat \ {0}
    PROVE  /\ PageOf(k, limit) \in 1 .. k
           /\ Above(PageOf(k, limit), limit) < k
           /\ k <= Above(PageOf(k, limit), limit) + limit
<1> DEFINE q == (k - 1) \div limit
<1>1. q \in Nat
  OBVIOUS
<1>2. q * limit <= k - 1
  OBVIOUS
<1>3. k - 1 < q * limit + limit
  OBVIOUS
<1> HIDE DEF q
<1>4. q <= q * limit
  BY <1>1
<1>5. (q + 1) * limit = q * limit + limit
  BY <1>1
<1>6. q * limit \in Nat
  BY <1>1
<1> QED
  BY <1>1, <1>2, <1>3, <1>4, <1>5, <1>6 DEF q, Above, PageOf

\* slice() returns the entries below those above the page, up to the limit.
LEMMA PageEntries ==
    ASSUME NEW S, NEW l \in Seq(S), NEW p \in Nat \ {0}, NEW limit \in Nat \ {0}
    PROVE  /\ Above(p, limit) \in Nat
           /\ \A j : j \in DOMAIN Page(l, p, limit)
                        <=> j \in 1 .. limit /\ Above(p, limit) + j <= Len(l)
           /\ \A j \in DOMAIN Page(l, p, limit) : Page(l, p, limit)[j] = l[Above(p, limit) + j]
<1> DEFINE above == (p - 1) * limit
           last == Min({p * limit, Len(l)})
           t == SubSeq(l, above + 1, last)
<1>1. above \in Nat /\ p * limit = above + limit /\ Len(l) \in Nat
  OBVIOUS
<1>2. last = IF above + limit <= Len(l) THEN above + limit ELSE Len(l)
  <2> DEFINE I == {p * limit, Len(l)}
  <2>1. I \in SUBSET Nat /\ I # {}
    BY <1>1
  <2> HIDE DEF I
  <2>2. Min(I) \in I /\ \A j \in I : Min(I) <= j
    BY <2>1, MinIsLeast
  <2> QED
    BY <1>1, <2>2 DEF I
<1> HIDE DEF above, last
<1>3. DOMAIN t = 1 .. (last - above) /\ \A j \in DOMAIN t : t[j] = l[above + j]
  BY <1>1, <1>2
<1>4. DOMAIN t = {j \in 1 .. limit : above + j <= Len(l)}
  BY <1>1, <1>2, <1>3
<1> QED
  BY <1>1, <1>3, <1>4 DEF Page, t, last, above, Above

\* The pages of a list are the list, cut into pieces of the same length.
LEMMA PagesTile ==
    ASSUME NEW S, NEW l \in Seq(S), NEW limit \in Nat \ {0}
    PROVE  /\ \A p \in 1 .. Len(l) + 1 : \A j \in DOMAIN Page(l, p, limit) :
                /\ j <= limit /\ Above(p, limit) + j \in DOMAIN l
                /\ Page(l, p, limit)[j] = l[Above(p, limit) + j]
           /\ \A k \in DOMAIN l :
                k - Above(PageOf(k, limit), limit) \in DOMAIN Page(l, PageOf(k, limit), limit)
<1>1. ASSUME NEW p \in Nat \ {0}
      PROVE  /\ Above(p, limit) \in Nat
             /\ \A j : j \in DOMAIN Page(l, p, limit)
                          <=> j \in 1 .. limit /\ Above(p, limit) + j <= Len(l)
             /\ \A j \in DOMAIN Page(l, p, limit) :
                  Page(l, p, limit)[j] = l[Above(p, limit) + j]
  BY PageEntries
<1>2. ASSUME NEW p \in 1 .. Len(l) + 1, NEW j \in DOMAIN Page(l, p, limit)
      PROVE  /\ j <= limit /\ Above(p, limit) + j \in DOMAIN l
             /\ Page(l, p, limit)[j] = l[Above(p, limit) + j]
  <2>1. p \in Nat \ {0}
    OBVIOUS
  <2>2. /\ Above(p, limit) \in Nat
        /\ \A m : m \in DOMAIN Page(l, p, limit)
                     <=> m \in 1 .. limit /\ Above(p, limit) + m <= Len(l)
        /\ \A m \in DOMAIN Page(l, p, limit) :
             Page(l, p, limit)[m] = l[Above(p, limit) + m]
    BY <2>1, <1>1
  <2>3. j \in 1 .. limit /\ Above(p, limit) + j <= Len(l)
    BY <1>2, <2>2
  <2>4. Above(p, limit) + j \in 1 .. Len(l) /\ DOMAIN l = 1 .. Len(l)
    BY <2>2, <2>3
  <2> QED
    BY <1>2, <2>2, <2>3, <2>4
<1>3. ASSUME NEW k \in DOMAIN l
      PROVE  k - Above(PageOf(k, limit), limit) \in DOMAIN Page(l, PageOf(k, limit), limit)
  <2> DEFINE p == PageOf(k, limit)
  <2>1. k \in Nat \ {0} /\ k <= Len(l) /\ Len(l) \in Nat
    OBVIOUS
  <2>2. p \in 1 .. k /\ Above(p, limit) < k /\ k <= Above(p, limit) + limit
    BY <2>1, PageSpan
  <2> HIDE DEF p
  <2>3. p \in Nat \ {0}
    BY <2>1, <2>2
  <2>4. /\ Above(p, limit) \in Nat
        /\ \A j : j \in DOMAIN Page(l, p, limit)
                     <=> j \in 1 .. limit /\ Above(p, limit) + j <= Len(l)
    BY <2>3, PageEntries
  <2>5. k - Above(p, limit) \in 1 .. limit /\ Above(p, limit) + (k - Above(p, limit)) <= Len(l)
    BY <2>1, <2>2, <2>4
  <2> QED
    BY <2>4, <2>5 DEF p
<1> QED
  BY <1>2, <1>3

\* The positions of a list whose entries are in T.
KeptIn(order, T) == {k \in DOMAIN order : order[k] \in T}

\* Filtering the order of creation, in which no id stands twice, by a condition
\* only created ids meet, returns each id that meets it once, and nothing else.
LEMMA FilterShowsEach ==
    ASSUME NEW S, NEW order \in Seq(S), IsInjective(order), NEW T \in SUBSET Range(order)
    PROVE  LET l == AtPositions(order, KeptIn(order, T))
           IN  /\ l \in Seq(S)
               /\ \A k \in DOMAIN l : l[k] \in T
               /\ \A i \in T : \E k \in DOMAIN l : l[k] = i
               /\ \A j, k \in DOMAIN l : l[j] = l[k] => j = k
<1> DEFINE K == KeptIn(order, T)
           l == AtPositions(order, K)
<1>1. K \in SUBSET DOMAIN order
  BY DEF KeptIn
<1>2. \A k \in K : order[k] \in T
  BY DEF KeptIn
<1>3. \A i \in T : \E k \in K : order[k] = i
  BY DEF Range, KeptIn
<1> HIDE DEF K
<1>4. /\ l \in Seq(S)
      /\ \A j \in DOMAIN l : \E k \in K : l[j] = order[k]
      /\ \A k \in K : \E j \in DOMAIN l : l[j] = order[k]
      /\ IsInjective(l)
  BY <1>1, AtPositionsElements
<1>5. \A j, k \in DOMAIN l : l[j] = l[k] => j = k
  BY <1>4 DEF IsInjective
<1> HIDE DEF l
<1> QED
  BY <1>2, <1>3, <1>4, <1>5 DEF l, K

-----------------------------------------------------------------------------
(***************************************************************************)
(* The parts in the console: every step of it is one of theirs, and the    *)
(* others stand still.                                                     *)
(***************************************************************************)
LEMMA InitsParts == Init => FqdnInit /\ CustomerInit /\ TokenInit /\ SessionInit
  BY DEF Init

LEMMA StepsParts ==
    [Next]_vars => /\ [FqdnNext]_fqdnVars /\ [CustomerNext]_customerVars
                   /\ [TokenNext]_tokenVars /\ [SessionNext]_sessionVars
  BY DEF Next, FqdnMoves, CustomerMoves, TokenMoves, SessionMoves, vars

\* The console implements the specification of each of its parts: what is proved
\* of a part from its own specification holds in the console.
THEOREM ConsoleRunsParts == Spec => FqdnSpec /\ CustomerSpec /\ TokenSpec /\ SessionSpec
  BY InitsParts, StepsParts, PTL DEF Spec, FqdnSpec, CustomerSpec, TokenSpec, SessionSpec

-----------------------------------------------------------------------------
(***************************************************************************)
(* The lists in pages.                                                     *)
(***************************************************************************)
\* No id stands twice in the order of creation: an id is drawn once.
DrawnOnce == IsInjective(fqdnOrder) /\ IsInjective(customerOrder)

\* A step leaves the order of creation alone, or adds an id that was not in it.
LEMMA FqdnOrderStep ==
    ASSUME FqdnIInv, [FqdnNext]_fqdnVars
    PROVE  \/ UNCHANGED fqdnOrder
           \/ \E i \in FqdnIds \ Range(fqdnOrder) : fqdnOrder' = Append(fqdnOrder, i)
<1>1. CASE FqdnNext
  <2>1. \/ UNCHANGED fqdnStore
        \/ \E r \in FqdnRequests, i \in FqdnIds :
             LET c == fqdnCalls[r] IN
             \/ i \notin Range(fqdnOrder) /\ CreateRow(i, c.rec)
             \/ UpdateRow(i, c.rec)
        \/ \E i \in FqdnIds : DeleteRow(i)
    BY <1>1, FqdnStepDoes
  <2> QED
    BY <2>1 DEF fqdnStore, CreateRow, UpdateRow, DeleteRow
<1>2. CASE UNCHANGED fqdnVars
  BY <1>2 DEF fqdnVars, fqdnStore
<1> QED
  BY <1>1, <1>2

LEMMA CustomerOrderStep ==
    ASSUME CustomerIInv, [CustomerNext]_customerVars
    PROVE  \/ UNCHANGED customerOrder
           \/ \E i \in CustomerIds \ Range(customerOrder) :
                customerOrder' = Append(customerOrder, i)
<1>1. ASSUME NEW r \in CustomerRequests, Begins(r) PROVE UNCHANGED customerOrder
  BY <1>1, BeginsKeeps DEF customerStore
<1>2. ASSUME NEW r \in CustomerRequests, CustomerCreated(r)
      PROVE  \/ UNCHANGED customerOrder
             \/ \E i \in CustomerIds \ Range(customerOrder) :
                  customerOrder' = Append(customerOrder, i)
  BY <1>2 DEF CustomerCreated, AddCustomer, customerStore
<1>3. ASSUME NEW r \in CustomerRequests, CustomerWritten(r) \/ CustomerDeleted(r)
      PROVE  UNCHANGED customerOrder
  BY <1>3 DEF CustomerWritten, CustomerDeleted, PutCustomer, RemoveCustomer
<1>4. CASE UNCHANGED customerVars
  BY <1>4 DEF customerVars, customerStore
<1> QED
  BY <1>1, <1>2, <1>3, <1>4 DEF CustomerNext, Begins

LEMMA OneMore ==
    ASSUME NEW S, NEW s \in Seq(S), IsInjective(s), NEW e \in S \ Range(s)
    PROVE  IsInjective(Append(s, e))
<1>1. \A t : ToSet(t) = Range(t)
  BY DEF ToSet, Range
<1>2. e \in S /\ e \notin ToSet(s)
  BY <1>1
<1>3. IsInjective(s) /\ e \notin ToSet(s) => IsInjective(Append(s, e))
  BY <1>2, AppendElements
<1> QED
  BY <1>2, <1>3

LEMMA DrawnOnceInvariant == Spec => []DrawnOnce
<1>1. Init => DrawnOnce
  BY DEF Init, FqdnInit, CustomerInit, DrawnOnce, IsInjective
<1>2. FqdnIInv /\ CustomerIInv /\ DrawnOnce /\ [Next]_vars => DrawnOnce'
  <2> SUFFICES ASSUME FqdnIInv, CustomerIInv, DrawnOnce, [Next]_vars PROVE DrawnOnce'
    OBVIOUS
  <2>1. fqdnOrder \in Seq(FqdnIds) /\ customerOrder \in Seq(CustomerIds)
    BY DEF FqdnIInv, FqdnStoreOK, CustomerIInv, CustomerStoreOK
  <2>2. IsInjective(fqdnOrder')
    <3>1. \/ UNCHANGED fqdnOrder
          \/ \E i \in FqdnIds \ Range(fqdnOrder) : fqdnOrder' = Append(fqdnOrder, i)
      BY StepsParts, FqdnOrderStep
    <3> QED
      BY <2>1, <3>1, OneMore DEF DrawnOnce
  <2>3. IsInjective(customerOrder')
    <3>1. \/ UNCHANGED customerOrder
          \/ \E i \in CustomerIds \ Range(customerOrder) :
               customerOrder' = Append(customerOrder, i)
      BY StepsParts, CustomerOrderStep
    <3> QED
      BY <2>1, <3>1, OneMore DEF DrawnOnce
  <2> QED
    BY <2>2, <2>3 DEF DrawnOnce
<1> QED
  BY <1>1, <1>2, ConsoleRunsParts, FqdnInvariant, CustomerInvariant, PTL DEF Spec

\* The ids of the FQDNs, or customers, that fit: they have all been created.
LEMMA FqdnListShows ==
    ASSUME FqdnIInv, DrawnOnce, NEW names, NEW statuses
    PROVE  LET l == FqdnList(names, statuses)
           IN  /\ l \in Seq(FqdnIds)
               /\ \A k \in DOMAIN l : FqdnFits(l[k], names, statuses)
               /\ \A i \in FqdnIds : FqdnFits(i, names, statuses) => \E k \in DOMAIN l : l[k] = i
               /\ \A j, k \in DOMAIN l : l[j] = l[k] => j = k
<1> DEFINE T == {i \in FqdnIds : FqdnFits(i, names, statuses)}
           l == AtPositions(fqdnOrder, KeptIn(fqdnOrder, T))
<1>1. fqdnOrder \in Seq(FqdnIds) /\ IsInjective(fqdnOrder)
  BY DEF FqdnIInv, FqdnStoreOK, DrawnOnce
<1>2. T \in SUBSET Range(fqdnOrder)
  BY DEF FqdnIInv, FqdnStoreOK, FqdnFits
<1>3. KeptIn(fqdnOrder, T)
        = {k \in DOMAIN fqdnOrder : FqdnFits(fqdnOrder[k], names, statuses)}
  BY <1>1 DEF KeptIn
<1>4. FqdnList(names, statuses) = l
  BY <1>3 DEF FqdnList
<1>5. \A i : i \in T <=> i \in FqdnIds /\ FqdnFits(i, names, statuses)
  OBVIOUS
<1> HIDE DEF T
<1>6. /\ l \in Seq(FqdnIds)
      /\ \A k \in DOMAIN l : l[k] \in T
      /\ \A i \in T : \E k \in DOMAIN l : l[k] = i
      /\ \A j, k \in DOMAIN l : l[j] = l[k] => j = k
  BY <1>1, <1>2, FilterShowsEach
<1> HIDE DEF l
<1> QED
  BY <1>4, <1>5, <1>6

LEMMA CustomerListShows ==
    ASSUME CustomerIInv, DrawnOnce, NEW emails, NEW statuses
    PROVE  LET l == CustomerList(emails, statuses)
           IN  /\ l \in Seq(CustomerIds)
               /\ \A k \in DOMAIN l : CustomerFits(l[k], emails, statuses)
               /\ \A i \in CustomerIds :
                    CustomerFits(i, emails, statuses) => \E k \in DOMAIN l : l[k] = i
               /\ \A j, k \in DOMAIN l : l[j] = l[k] => j = k
<1> DEFINE T == {i \in CustomerIds : CustomerFits(i, emails, statuses)}
           l == AtPositions(customerOrder, KeptIn(customerOrder, T))
<1>1. customerOrder \in Seq(CustomerIds) /\ IsInjective(customerOrder)
  BY DEF CustomerIInv, CustomerStoreOK, DrawnOnce
<1>2. T \in SUBSET Range(customerOrder)
  BY DEF CustomerIInv, CustomerStoreOK, CustomerFits
<1>3. KeptIn(customerOrder, T)
        = {k \in DOMAIN customerOrder : CustomerFits(customerOrder[k], emails, statuses)}
  BY <1>1 DEF KeptIn
<1>4. CustomerList(emails, statuses) = l
  BY <1>3 DEF CustomerList
<1>5. \A i : i \in T <=> i \in CustomerIds /\ CustomerFits(i, emails, statuses)
  OBVIOUS
<1> HIDE DEF T
<1>6. /\ l \in Seq(CustomerIds)
      /\ \A k \in DOMAIN l : l[k] \in T
      /\ \A i \in T : \E k \in DOMAIN l : l[k] = i
      /\ \A j, k \in DOMAIN l : l[j] = l[k] => j = k
  BY <1>1, <1>2, FilterShowsEach
<1> HIDE DEF l
<1> QED
  BY <1>4, <1>5, <1>6

\* Whoever turns the pages of the FQDNs or of the customers, with whatever page
\* size is legal and whatever status is asked for, sees each entry that fits once,
\* however many were created, changed and deleted before.
THEOREM EveryPageTiles == Spec => []PagesTileLists
<1>1. ASSUME FqdnIInv, CustomerIInv, DrawnOnce PROVE PagesTileLists
  <2> SUFFICES ASSUME NEW statuses \in {{"ACTIVE"}, {"INACTIVE"}, {"ACTIVE", "INACTIVE"}}
               PROVE  LET fqdnList == FqdnList(Names, statuses)
                          customerList == CustomerList(Addresses, statuses)
                          FqdnAsked(i) == FqdnFits(i, Names, statuses)
                          CustomerAsked(i) == CustomerFits(i, Addresses, statuses)
                      IN  /\ ShowsEach(fqdnList, FqdnIds, FqdnAsked)
                          /\ ShowsEach(customerList, CustomerIds, CustomerAsked)
                          /\ \A limit \in Limits :
                              LET FqdnPage(p) == FindAllFqdns(statuses, p, limit)
                                  CustomerPage(p) == FindAllCustomers(statuses, p, limit)
                              IN  /\ Tiles(fqdnList, limit, FqdnPage)
                                  /\ Tiles(customerList, limit, CustomerPage)
    BY DEF PagesTileLists
  <2> DEFINE f == FqdnList(Names, statuses)
             c == CustomerList(Addresses, statuses)
  <2>2. /\ f \in Seq(FqdnIds)
        /\ \A k \in DOMAIN f : FqdnFits(f[k], Names, statuses)
        /\ \A i \in FqdnIds : FqdnFits(i, Names, statuses) => \E k \in DOMAIN f : f[k] = i
        /\ \A j, k \in DOMAIN f : f[j] = f[k] => j = k
    BY <1>1, FqdnListShows
  <2>3. /\ c \in Seq(CustomerIds)
        /\ \A k \in DOMAIN c : CustomerFits(c[k], Addresses, statuses)
        /\ \A i \in CustomerIds :
             CustomerFits(i, Addresses, statuses) => \E k \in DOMAIN c : c[k] = i
        /\ \A j, k \in DOMAIN c : c[j] = c[k] => j = k
    BY <1>1, CustomerListShows
  <2> HIDE DEF f, c
  <2>4. \A k \in DOMAIN f : f[k] \in FqdnIds
    BY <2>2
  <2>5. \A k \in DOMAIN c : c[k] \in CustomerIds
    BY <2>3
  <2>6. ShowsEach(f, FqdnIds, LAMBDA i : FqdnFits(i, Names, statuses))
    BY <2>2, <2>4 DEF ShowsEach
  <2>7. ShowsEach(c, CustomerIds, LAMBDA i : CustomerFits(i, Addresses, statuses))
    BY <2>3, <2>5 DEF ShowsEach
  <2>8. ASSUME NEW limit \in Limits
        PROVE  /\ Tiles(f, limit, LAMBDA p : Page(f, p, limit))
               /\ Tiles(c, limit, LAMBDA p : Page(c, p, limit))
    <3>1. limit \in Nat \ {0}
      BY LimitsAssumption DEF LegalPage
    <3>2. Tiles(f, limit, LAMBDA p : Page(f, p, limit))
      BY <3>1, <2>2, PagesTile DEF Tiles, Above, PageOf
    <3>3. Tiles(c, limit, LAMBDA p : Page(c, p, limit))
      BY <3>1, <2>3, PagesTile DEF Tiles, Above, PageOf
    <3> QED
      BY <3>2, <3>3
  <2> QED
    BY <2>6, <2>7, <2>8 DEF Tiles, ShowsEach, FindAllFqdns, FindAllCustomers, f, c
<1> QED
  BY <1>1, ConsoleRunsParts, FqdnInvariant, CustomerInvariant, DrawnOnceInvariant, PTL

-----------------------------------------------------------------------------
(***************************************************************************)
(* The configuration engines fetch.                                        *)
(***************************************************************************)
\* No handler of the management API reaches the engine's repositories.
EngineUntouched == engineFqdnOrder = << >> /\ engineCustomerOrder = << >>

LEMMA EngineUntouchedInvariant == Spec => []EngineUntouched
<1>1. Init => EngineUntouched
  BY DEF Init, EngineUntouched
<1>2. EngineUntouched /\ [Next]_vars => EngineUntouched'
  BY DEF EngineUntouched, Next, FqdnMoves, CustomerMoves, TokenMoves, SessionMoves,
         vars, engineStore
<1> QED
  BY <1>1, <1>2, PTL DEF Spec

\* The operators of the engine's repositories are those of their classes.
LEMMA InstancesCount ==
    \A K : EF!Cardinality(K) = Cardinality(K) /\ EC!Cardinality(K) = Cardinality(K)
<1>1. \A K : EF!Cardinality(K) = Cardinality(K)
  BY Zenon DEF Cardinality, EF!Cardinality
<1>2. \A K : EC!Cardinality(K) = Cardinality(K)
  BY Zenon DEF Cardinality, EC!Cardinality
<1> QED
  BY <1>1, <1>2

LEMMA NothingOfNothing ==
    \A K : K \subseteq {} => /\ EF!AtPositions(<< >>, K) = << >>
                            /\ EC!AtPositions(<< >>, K) = << >>
<1>1. EF!Cardinality({}) = 0 /\ EC!Cardinality({}) = 0
  BY InstancesCount, FS_EmptySet
<1>2. EF!AtPositions(<< >>, {}) = << >>
  BY <1>1 DEF EF!AtPositions
<1>3. EC!AtPositions(<< >>, {}) = << >>
  BY <1>1 DEF EC!AtPositions
<1>4. \A K : K \subseteq {} => K = {}
  OBVIOUS
<1> QED
  BY <1>2, <1>3, <1>4

LEMMA PageOfNothing == Page(<< >>, 1, MaxFetchLimit) = << >>
<1> DEFINE I == {1 * MaxFetchLimit, Len(<< >>)}
<1>1. I \in SUBSET Nat /\ I # {} /\ I = {10000, 0}
  BY DEF MaxFetchLimit
<1> HIDE DEF I
<1>2. Min(I) \in I /\ \A j \in I : Min(I) <= j
  BY <1>1, MinIsLeast
<1>3. Min(I) = 0
  BY <1>1, <1>2
<1>4. (1 - 1) * MaxFetchLimit + 1 = 1
  BY DEF MaxFetchLimit
<1>5. SubSeq(<< >>, 1, 0) = << >>
  OBVIOUS
<1> QED
  BY <1>3, <1>4, <1>5 DEF Page, I

\* The engine's configuration is empty for ever: its module has repositories of
\* its own, which nothing writes.
THEOREM EngineConfigIsEmpty ==
    Spec => [](GetConfig = [fqdns |-> << >>, ipAllowLists |-> << >>, customers |-> << >>])
<1> DEFINE Empty == [fqdns |-> << >>, ipAllowLists |-> << >>, customers |-> << >>]
<1>1. ASSUME EngineUntouched PROVE GetConfig = Empty
  <2>1. EF!FqdnList(Names, {"ACTIVE"}) = << >>
    <3> DEFINE K == {k \in DOMAIN engineFqdnOrder :
                       EF!FqdnFits(engineFqdnOrder[k], Names, {"ACTIVE"})}
    <3>1. engineFqdnOrder = << >> /\ K \subseteq {}
      BY <1>1 DEF EngineUntouched
    <3>2. EF!FqdnList(Names, {"ACTIVE"}) = EF!AtPositions(engineFqdnOrder, K)
      BY DEF EF!FqdnList
    <3> HIDE DEF K
    <3> QED
      BY <3>1, <3>2, NothingOfNothing
  <2>2. EC!CustomerList(Addresses, {"ACTIVE"}) = << >>
    <3> DEFINE K == {k \in DOMAIN engineCustomerOrder :
                       EC!CustomerFits(engineCustomerOrder[k], Addresses, {"ACTIVE"})}
    <3>1. engineCustomerOrder = << >> /\ K \subseteq {}
      BY <1>1 DEF EngineUntouched
    <3>2. EC!CustomerList(Addresses, {"ACTIVE"}) = EC!AtPositions(engineCustomerOrder, K)
      BY DEF EC!CustomerList
    <3> HIDE DEF K
    <3> QED
      BY <3>1, <3>2, NothingOfNothing
  <2>3. GetEngineConfig = Empty
    BY <2>1, <2>2, PageOfNothing DEF GetEngineConfig, EngineConfig, FindAllIpAllowLists
  <2> QED
    BY <2>3 DEF GetConfig, ToResponseDto
<1> QED
  BY <1>1, EngineUntouchedInvariant, PTL

\* So engines are told what the design document promises only while there is
\* nothing to tell: no FQDN and no customer that is active.
THEOREM EngineToldOnlyNothing ==
    Spec => [](EngineIsTold <=>
        /\ \A i \in FqdnIds : ~(Live(i) /\ fqdns[i].status = "ACTIVE")
        /\ \A i \in CustomerIds : ~(Exists(i) /\ customers[i].status = "ACTIVE"))
<1> DEFINE Empty == [fqdns |-> << >>, ipAllowLists |-> << >>, customers |-> << >>]
           Nothing == /\ \A i \in FqdnIds : ~(Live(i) /\ fqdns[i].status = "ACTIVE")
                      /\ \A i \in CustomerIds :
                            ~(Exists(i) /\ customers[i].status = "ACTIVE")
<1>1. ASSUME GetConfig = Empty PROVE EngineIsTold <=> Nothing
  <2>1. Range(GetConfig.fqdns) = {} /\ Range(GetConfig.customers) = {}
    BY <1>1 DEF Range
  <2> QED
    BY <2>1 DEF EngineIsTold
<1> QED
  BY <1>1, EngineConfigIsEmpty, PTL

-----------------------------------------------------------------------------
(***************************************************************************)
(* What holds of the parts, in the console.                                *)
(***************************************************************************)
\* The invariants of the registries, the tokens and the sessions are invariants
\* of the console, in which the parts move in any order.
THEOREM ConsoleSafety ==
    Spec => [](/\ FqdnTypeOK /\ IndexLeads /\ OnlyOvertakenClash
               /\ CustomerTypeOK /\ OnlyOvertakenShare
               /\ TokenTypeOK /\ DeadStaysDead
               /\ SessionTypeOK /\ EndedIsListed /\ OnlyOutageReadmits)
  BY ConsoleRunsParts, FqdnTyping, FqdnIndexLeads, FqdnOnlyOvertaken, CustomerTyping,
     CustomerOnlyOvertaken, TokenTyping, DeadTokensStayDead, SessionTyping,
     EndedStaysListed, OutageAloneReadmits, PTL

\* And so are the promises about their steps.
THEOREM ConsoleSteps ==
    Spec => /\ DeletedStays /\ OnlyStaleEditsToggle
            /\ OnlyLiveAdmitted /\ LiveAdmitted /\ OnlyEarlierLoginsSkipCode
  BY ConsoleRunsParts, FqdnStaysDeleted, CustomerStaysDeleted, CustomerStatusAsked,
     LiveAloneAdmitted, LiveAreAdmitted, EarlierLoginsAloneSkip DEF DeletedStays
=============================================================================
