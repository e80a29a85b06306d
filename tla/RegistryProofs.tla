--------------------------- MODULE RegistryProofs ---------------------------
(***************************************************************************)
(* TLAPS proofs about the registries of FQDNs and customers, for any       *)
(* number of records, names and requests: their typing invariants, that    *)
(* the index of names leads to what has the name, that what was deleted    *)
(* stays deleted, and that names and addresses are shared only after a     *)
(* request was overtaken between its check and its write.                  *)
(***************************************************************************)
EXTENDS FqdnRegistry, CustomerRegistry, ListLemmas

LEMMA AppendRange ==
    ASSUME NEW S, NEW s \in Seq(S), NEW e \in S
    PROVE  Append(s, e) \in Seq(S) /\ Range(Append(s, e)) = Range(s) \cup {e}
<1>1. Append(s, e) \in Seq(S) /\ ToSet(Append(s, e)) = ToSet(s) \cup {e}
  BY AppendElements
<1>2. \A t : ToSet(t) = Range(t)
  BY DEF ToSet, Range
<1> QED
  BY <1>1, <1>2

-----------------------------------------------------------------------------
(***************************************************************************)
(* FQDNs: what is stored, and what requests are about to write.            *)
(***************************************************************************)
FqdnStoreOK ==
    /\ fqdns \in [FqdnIds -> Fqdn \cup {None}]
    /\ fqdnToIdMap \in [Names -> FqdnIds \cup {None}]
    /\ fqdnOrder \in Seq(FqdnIds)
    /\ \A i \in FqdnIds : Live(i) =>
          Legal(fqdns[i]) /\ i \in Range(fqdnOrder)

\* A name that will be created is normal, a record that will be written legal.
CallOK(c) ==
    /\ c \in Call
    /\ c.at = "create" => c.rec \in Fqdn /\ Named(c.rec.fqdn) = c.rec.fqdn
    /\ c.at = "rename" => c.id \in FqdnIds /\ c.rec \in Fqdn /\ c.want \in Names
    /\ c.at = "write" => c.id \in FqdnIds /\ Legal(c.rec)
    /\ c.at = "delete" => c.id \in FqdnIds

CallsOK ==
    /\ fqdnCalls \in [FqdnRequests -> Call]
    /\ \A r \in FqdnRequests : CallOK(fqdnCalls[r])

FqdnIInv == FqdnStoreOK /\ CallsOK /\ fqdnClash \in BOOLEAN

LEMMA NamedNormal == \A n \in Names : Named(n) \in Names /\ Named(Named(n)) = Named(n)
  BY NormalAssumption DEF Named

LEMMA LiveTyped == FqdnStoreOK => \A i \in FqdnIds : Live(i) => fqdns[i] \in Fqdn /\ Legal(fqdns[i])
  BY DEF FqdnStoreOK, Live

LEMMA CreateRowOK ==
    ASSUME FqdnStoreOK, NEW i \in FqdnIds, NEW u, Legal(u), CreateRow(i, u)
    PROVE  FqdnStoreOK'
<1>1. u \in Fqdn /\ u.fqdn \in Names
  BY DEF Legal, Fqdn
<1>2. fqdnOrder' \in Seq(FqdnIds) /\ Range(fqdnOrder') = Range(fqdnOrder) \cup {i}
  BY AppendRange DEF CreateRow, FqdnStoreOK
<1> QED
  BY <1>1, <1>2 DEF CreateRow, FqdnStoreOK, Live

LEMMA UpdateRowOK ==
    ASSUME FqdnStoreOK, NEW i \in FqdnIds, NEW u, Legal(u), UpdateRow(i, u)
    PROVE  FqdnStoreOK'
<1>1. u \in Fqdn /\ u.fqdn \in Names
  BY DEF Legal, Fqdn
<1>2. CASE Live(i)
  BY <1>1, <1>2 DEF UpdateRow, FqdnStoreOK, Live
<1>3. CASE ~Live(i)
  BY <1>3 DEF UpdateRow, FqdnStoreOK, Live
<1> QED
  BY <1>2, <1>3

LEMMA DeleteRowOK ==
    ASSUME FqdnStoreOK, NEW i \in FqdnIds, DeleteRow(i)
    PROVE  FqdnStoreOK'
<1>1. CASE Live(i)
  BY <1>1 DEF DeleteRow, FqdnStoreOK, Live
<1>2. CASE ~Live(i)
  BY <1>2 DEF DeleteRow, FqdnStoreOK, Live
<1> QED
  BY <1>1, <1>2

LEMMA FreeBoolean == \A n, i : Free(n, i) \in BOOLEAN
  BY DEF Free

LEMMA LeaveOK == ASSUME CallsOK, NEW r \in FqdnRequests, Leave(r) PROVE CallsOK'
<1>1. CallOK(Idle)
  BY DEF CallOK, Idle, Call, Stage
<1> QED
  BY <1>1 DEF CallsOK, CallOK, Leave

LEMMA EnterOK ==
    ASSUME CallsOK, NEW r \in FqdnRequests, NEW w \in Stage, NEW i \in FqdnIds \cup {None},
           NEW u \in Fqdn \cup {None}, NEW n \in Names \cup {None}, NEW f \in BOOLEAN,
           w = "create" => u \in Fqdn /\ Named(u.fqdn) = u.fqdn,
           w = "rename" => i \in FqdnIds /\ u \in Fqdn /\ n \in Names,
           w = "write" => i \in FqdnIds /\ Legal(u),
           w = "delete" => i \in FqdnIds,
           Enter(r, w, i, u, n, f)
    PROVE  CallsOK'
<1> DEFINE c == [at |-> w, id |-> i, rec |-> u, want |-> n, free |-> f]
<1>1. CallOK(c)
  BY DEF CallOK, Call
<1>2. fqdnCalls' = [fqdnCalls EXCEPT ![r] = c]
  BY DEF Enter
<1> HIDE DEF c
<1> QED
  BY <1>1, <1>2 DEF CallsOK, CallOK

LEMMA EnterWriteOK ==
    ASSUME CallsOK, NEW r \in FqdnRequests, NEW i \in FqdnIds, NEW u, Legal(u),
           Enter(r, "write", i, u, None, Free(u.fqdn, i))
    PROVE  CallsOK'
  BY EnterOK, FreeBoolean DEF Legal, Stage

LEMMA FqdnInitOK == FqdnInit => FqdnIInv
<1> SUFFICES ASSUME FqdnInit PROVE FqdnIInv
  OBVIOUS
<1>1. CallOK(Idle) /\ Idle \in Call
  BY DEF CallOK, Idle, Call, Stage
<1>2. CallsOK
  BY <1>1 DEF FqdnInit, CallsOK
<1>3. fqdns \in [FqdnIds -> Fqdn \cup {None}] /\ \A i \in FqdnIds : ~Live(i)
  BY DEF FqdnInit, Live
<1>4. fqdnOrder \in Seq(FqdnIds) /\ fqdnToIdMap \in [Names -> FqdnIds \cup {None}]
  BY DEF FqdnInit
<1> QED
  BY <1>2, <1>3, <1>4 DEF FqdnInit, FqdnIInv, FqdnStoreOK

LEMMA CreateFqdnOK ==
    ASSUME CallsOK, NEW r \in FqdnRequests, CreateFqdn(r) PROVE CallsOK'
<1>1. PICK n \in Names, d \in Descriptions :
        Enter(r, "create", None, NewFqdn(n, d), None, Free(Named(n), None))
  BY DEF CreateFqdn
<1>2. NewFqdn(n, d) \in Fqdn /\ NewFqdn(n, d).fqdn = Named(n)
  BY NamedNormal DEF NewFqdn, Fqdn, FqdnStatus
<1>3. Named(NewFqdn(n, d).fqdn) = NewFqdn(n, d).fqdn
  BY <1>2, NamedNormal
<1> QED
  BY <1>1, <1>2, <1>3, EnterOK, FreeBoolean DEF Stage

LEMMA UpdateFqdnOK ==
    ASSUME FqdnStoreOK, CallsOK, NEW r \in FqdnRequests, UpdateFqdn(r) PROVE CallsOK'
<1>1. PICK i \in FqdnIds, n \in Names \cup {None}, d \in Descriptions :
        /\ Live(i)
        /\ LET u == [fqdns[i] EXCEPT !.description = d] IN
           IF n # None => Named(n) = u.fqdn
           THEN ValidDescription(d) /\ Enter(r, "write", i, u, None, Free(u.fqdn, i))
           ELSE Enter(r, "rename", i, u, n, TRUE)
  BY DEF UpdateFqdn
<1> DEFINE u == [fqdns[i] EXCEPT !.description = d]
<1>2. fqdns[i] \in Fqdn /\ Legal(fqdns[i])
  BY <1>1, LiveTyped
<1>3. u \in Fqdn /\ u.fqdn = fqdns[i].fqdn /\ u.description = d
  BY <1>2 DEF Fqdn
<1> HIDE DEF u
<1>4. CASE n # None => Named(n) = u.fqdn
  <2>1. ValidDescription(d) /\ Enter(r, "write", i, u, None, Free(u.fqdn, i))
    BY <1>1, <1>4 DEF u
  <2>2. Legal(u)
    BY <1>2, <1>3, <2>1 DEF Legal
  <2> QED
    BY <2>1, <2>2, EnterWriteOK
<1>5. CASE ~(n # None => Named(n) = u.fqdn)
  <2>1. Enter(r, "rename", i, u, n, TRUE) /\ n \in Names
    BY <1>1, <1>5 DEF u
  <2> QED
    BY <1>3, <2>1, EnterOK DEF Stage
<1> QED
  BY <1>4, <1>5

LEMMA FqdnRenamedOK ==
    ASSUME CallsOK, NEW r \in FqdnRequests, FqdnRenamed(r) PROVE CallsOK'
<1> DEFINE c == fqdnCalls[r]
           u == Renamed(c.rec, c.want)
<1>1. c.id \in FqdnIds /\ c.rec \in Fqdn /\ c.want \in Names
  BY DEF FqdnRenamed, Waits, CallsOK, CallOK
<1>2. u \in Fqdn /\ u.fqdn = Named(c.want) /\ Named(u.fqdn) = u.fqdn
  BY <1>1, NamedNormal DEF Renamed, Fqdn
<1>3. \/ Leave(r)
      \/ /\ ValidFqdn(u.fqdn) /\ ValidDescription(u.description)
         /\ Enter(r, "write", c.id, u, None, Free(u.fqdn, c.id))
  BY DEF FqdnRenamed
<1> HIDE DEF u, c
<1>4. CASE Leave(r)
  BY <1>4, LeaveOK
<1>5. CASE /\ ValidFqdn(u.fqdn) /\ ValidDescription(u.description)
           /\ Enter(r, "write", c.id, u, None, Free(u.fqdn, c.id))
  BY <1>1, <1>2, <1>5, EnterWriteOK DEF Legal
<1> QED
  BY <1>3, <1>4, <1>5

LEMMA UpdateFqdnStatusOK ==
    ASSUME FqdnStoreOK, CallsOK, NEW r \in FqdnRequests, UpdateFqdnStatus(r) PROVE CallsOK'
<1>1. PICK i \in FqdnIds : /\ Live(i)
                           /\ \E u \in {Active(fqdns[i]), Inactive(fqdns[i])} :
                                 Enter(r, "write", i, u, None, Free(u.fqdn, i))
  BY DEF UpdateFqdnStatus
<1>2. fqdns[i] \in Fqdn /\ Legal(fqdns[i])
  BY <1>1, LiveTyped
<1>3. Legal(Active(fqdns[i])) /\ Legal(Inactive(fqdns[i]))
  BY <1>2 DEF Legal, Active, Inactive, Fqdn, FqdnStatus
<1> QED
  BY <1>1, <1>3, EnterWriteOK

LEMMA FqdnStepOK ==
    ASSUME FqdnIInv, FqdnNext PROVE FqdnIInv'
<1> USE DEF FqdnIInv
<1>1. PICK r \in FqdnRequests :
        \/ CreateFqdn(r) \/ FqdnCreated(r)
        \/ UpdateFqdn(r) \/ FqdnRenamed(r) \/ UpdateFqdnStatus(r) \/ FqdnWritten(r)
        \/ DeleteFqdn(r) \/ FqdnDeleted(r)
  BY DEF FqdnNext
<1> DEFINE c == fqdnCalls[r]
<1>2. UNCHANGED fqdnStore => FqdnStoreOK'
  BY DEF fqdnStore, FqdnStoreOK, Live
<1>3. CASE CreateFqdn(r)
  BY <1>2, <1>3, CreateFqdnOK DEF CreateFqdn
<1>4. CASE FqdnCreated(r)
  <2>1. CallsOK'
    BY <1>4, LeaveOK DEF FqdnCreated
  <2>2. CASE UNCHANGED <<fqdnStore, fqdnClash>>
    BY <1>2, <2>1, <2>2
  <2>3. CASE /\ ValidFqdn(c.rec.fqdn) /\ ValidDescription(c.rec.description)
             /\ \E i \in FqdnIds : CreateRow(i, c.rec) /\ Note(i, c.rec, c.free)
    <3>1. Legal(c.rec)
      BY <1>4, <2>3 DEF FqdnCreated, Waits, CallsOK, CallOK, Legal
    <3>2. FqdnStoreOK'
      BY <2>3, <3>1, CreateRowOK
    <3>3. fqdnClash' \in BOOLEAN
      BY <2>3 DEF Note
    <3> QED
      BY <2>1, <3>2, <3>3
  <2> QED
    BY <1>4, <2>2, <2>3 DEF FqdnCreated
<1>5. CASE UpdateFqdn(r)
  BY <1>2, <1>5, UpdateFqdnOK DEF UpdateFqdn
<1>6. CASE FqdnRenamed(r)
  BY <1>2, <1>6, FqdnRenamedOK DEF FqdnRenamed
<1>7. CASE UpdateFqdnStatus(r)
  BY <1>2, <1>7, UpdateFqdnStatusOK DEF UpdateFqdnStatus
<1>8. CASE FqdnWritten(r)
  <2>1. Legal(c.rec) /\ c.id \in FqdnIds
    BY <1>8 DEF FqdnWritten, Waits, CallsOK, CallOK
  <2>2. FqdnStoreOK'
    BY <1>8, <2>1, UpdateRowOK DEF FqdnWritten
  <2>3. CallsOK' /\ fqdnClash' \in BOOLEAN
    BY <1>8, LeaveOK DEF FqdnWritten, Note
  <2> QED
    BY <2>2, <2>3
<1>9. CASE DeleteFqdn(r)
  BY <1>2, <1>9, EnterOK DEF DeleteFqdn, Stage
<1>10. CASE FqdnDeleted(r)
  <2>1. c.id \in FqdnIds
    BY <1>10 DEF FqdnDeleted, Waits, CallsOK, CallOK
  <2> QED
    BY <1>10, <2>1, DeleteRowOK, LeaveOK DEF FqdnDeleted
<1> QED
  BY <1>1, <1>3, <1>4, <1>5, <1>6, <1>7, <1>8, <1>9, <1>10

LEMMA FqdnStutterOK == FqdnIInv /\ UNCHANGED fqdnVars => FqdnIInv'
  BY DEF FqdnIInv, fqdnVars, fqdnStore, FqdnStoreOK, Live, CallsOK, CallOK

LEMMA FqdnInvariant == FqdnSpec => []FqdnIInv
  BY FqdnInitOK, FqdnStepOK, FqdnStutterOK, PTL DEF FqdnSpec

\* What is stored is a legal FQDN that was created, whatever stale records were
\* written over it.
THEOREM FqdnTyping == FqdnSpec => []FqdnTypeOK
<1>1. FqdnIInv => FqdnTypeOK
  BY DEF FqdnIInv, FqdnStoreOK, CallsOK, FqdnTypeOK
<1> QED
  BY <1>1, FqdnInvariant, PTL

-----------------------------------------------------------------------------
(***************************************************************************)
(* FQDNs: the index of names, and deletion.                                *)
(***************************************************************************)
LEMMA CreateRowLeads ==
    ASSUME FqdnStoreOK, IndexLeads, NEW i \in FqdnIds \ Range(fqdnOrder), NEW u, Legal(u),
           CreateRow(i, u)
    PROVE  IndexLeads'
<1>1. u \in Fqdn /\ u.fqdn \in Names /\ u # None
  BY FqdnRecordAssumption DEF Legal, Fqdn
<1>2. ~Live(i)
  BY DEF FqdnStoreOK
<1> QED
  BY <1>1, <1>2 DEF CreateRow, FqdnStoreOK, IndexLeads, HasName, Live

LEMMA UpdateRowLeads ==
    ASSUME FqdnStoreOK, IndexLeads, NEW i \in FqdnIds, NEW u, Legal(u), UpdateRow(i, u)
    PROVE  IndexLeads'
<1>1. u \in Fqdn /\ u.fqdn \in Names /\ u # None
  BY FqdnRecordAssumption DEF Legal, Fqdn
<1>2. CASE ~Live(i)
  BY <1>2 DEF UpdateRow, IndexLeads, HasName, Live
<1>3. CASE Live(i) /\ fqdns[i].fqdn = u.fqdn
  BY <1>1, <1>3 DEF UpdateRow, FqdnStoreOK, IndexLeads, HasName, Live
<1>4. CASE Live(i) /\ fqdns[i].fqdn # u.fqdn
  <2>1. /\ fqdns' = [fqdns EXCEPT ![i] = u]
        /\ fqdnToIdMap' = [fqdnToIdMap EXCEPT ![fqdns[i].fqdn] = None, ![u.fqdn] = i]
    BY <1>4 DEF UpdateRow
  <2>2. \A n \in Names : fqdnToIdMap'[n] =
            IF n = u.fqdn THEN i ELSE IF n = fqdns[i].fqdn THEN None ELSE fqdnToIdMap[n]
    BY <1>1, <2>1 DEF FqdnStoreOK
  <2>3. \A j \in FqdnIds : fqdns'[j] = IF j = i THEN u ELSE fqdns[j]
    BY <2>1 DEF FqdnStoreOK
  <2>4. ASSUME NEW n \in Names, NEW j, j = fqdnToIdMap'[n], j # None
        PROVE  fqdns'[j] # None /\ fqdns'[j].fqdn = n
    <3>1. CASE n = u.fqdn
      BY <1>1, <2>2, <2>3, <2>4, <3>1
    <3>2. CASE n # u.fqdn
      <4>1. j = fqdnToIdMap[n] /\ n # fqdns[i].fqdn
        BY <2>2, <2>4, <3>2
      <4>2. j \in FqdnIds /\ fqdns[j] # None /\ fqdns[j].fqdn = n
        BY <2>4, <4>1 DEF IndexLeads, FqdnStoreOK, HasName, Live
      <4> QED
        BY <2>3, <4>1, <4>2
    <3> QED
      BY <3>1, <3>2
  <2> QED
    BY <2>4 DEF IndexLeads, HasName, Live
<1> QED
  BY <1>2, <1>3, <1>4

LEMMA DeleteRowLeads ==
    ASSUME FqdnStoreOK, IndexLeads, NEW i \in FqdnIds, DeleteRow(i)
    PROVE  IndexLeads'
<1>1. CASE ~Live(i)
  BY <1>1 DEF DeleteRow, IndexLeads, HasName, Live
<1>2. CASE Live(i)
  <2>1. fqdns[i].fqdn \in Names
    BY <1>2, LiveTyped DEF Fqdn
  <2> QED
    BY <1>2, <2>1 DEF DeleteRow, FqdnStoreOK, IndexLeads, HasName, Live
<1> QED
  BY <1>1, <1>2

\* What a step does to the repository: it creates a new row, writes one, deletes
\* one, or leaves the repository alone.
LEMMA FqdnStepDoes ==
    ASSUME FqdnIInv, FqdnNext
    PROVE  \/ UNCHANGED fqdnStore
           \/ \E r \in FqdnRequests, i \in FqdnIds :
                LET c == fqdnCalls[r] IN
                /\ Leave(r) /\ Legal(c.rec)
                /\ \/ /\ c.at = "create" /\ i \notin Range(fqdnOrder)
                      /\ CreateRow(i, c.rec) /\ Note(i, c.rec, c.free)
                   \/ /\ c.at = "write" /\ c.id = i /\ Live(i)
                      /\ UpdateRow(i, c.rec) /\ Note(i, c.rec, c.free)
           \/ \E r \in FqdnRequests, i \in FqdnIds :
                Leave(r) /\ Live(i) /\ DeleteRow(i) /\ UNCHANGED fqdnClash
<1>1. PICK r \in FqdnRequests :
        \/ CreateFqdn(r) \/ FqdnCreated(r)
        \/ UpdateFqdn(r) \/ FqdnRenamed(r) \/ UpdateFqdnStatus(r) \/ FqdnWritten(r)
        \/ DeleteFqdn(r) \/ FqdnDeleted(r)
  BY DEF FqdnNext
<1> DEFINE c == fqdnCalls[r]
<1>2. CASE CreateFqdn(r) \/ UpdateFqdn(r) \/ FqdnRenamed(r) \/ UpdateFqdnStatus(r) \/ DeleteFqdn(r)
  BY <1>2 DEF CreateFqdn, UpdateFqdn, FqdnRenamed, UpdateFqdnStatus, DeleteFqdn
<1>3. CASE FqdnCreated(r)
  <2>1. CASE UNCHANGED <<fqdnStore, fqdnClash>>
    BY <2>1
  <2>2. CASE /\ ValidFqdn(c.rec.fqdn) /\ ValidDescription(c.rec.description)
             /\ \E i \in FqdnIds \ Range(fqdnOrder) :
                   CreateRow(i, c.rec) /\ Note(i, c.rec, c.free)
    <3>1. Legal(c.rec) /\ c.at = "create" /\ Leave(r)
      BY <1>3, <2>2 DEF FqdnCreated, Waits, FqdnIInv, CallsOK, CallOK, Legal
    <3> QED
      BY <2>2, <3>1
  <2> QED
    BY <1>3, <2>1, <2>2 DEF FqdnCreated
<1>4. CASE FqdnWritten(r)
  <2>1. Legal(c.rec) /\ c.id \in FqdnIds /\ c.at = "write" /\ Leave(r)
    BY <1>4 DEF FqdnWritten, Waits, FqdnIInv, CallsOK, CallOK
  <2>2. CASE Live(c.id)
    BY <1>4, <2>1, <2>2 DEF FqdnWritten
  <2>3. CASE ~Live(c.id)
    BY <1>4, <2>3 DEF FqdnWritten, UpdateRow, fqdnStore
  <2> QED
    BY <2>2, <2>3
<1>5. CASE FqdnDeleted(r)
  <2>1. c.id \in FqdnIds /\ DeleteRow(c.id) /\ Leave(r) /\ UNCHANGED fqdnClash
    BY <1>5 DEF FqdnDeleted, Waits, FqdnIInv, CallsOK, CallOK
  <2>2. CASE Live(c.id)
    BY <2>1, <2>2
  <2>3. CASE ~Live(c.id)
    BY <2>1, <2>3 DEF DeleteRow, fqdnStore
  <2> QED
    BY <2>2, <2>3
<1> QED
  BY <1>1, <1>2, <1>3, <1>4, <1>5

LEMMA IndexLeadsStep == FqdnIInv /\ IndexLeads /\ [FqdnNext]_fqdnVars => IndexLeads'
<1> SUFFICES ASSUME FqdnIInv, IndexLeads, [FqdnNext]_fqdnVars PROVE IndexLeads'
  OBVIOUS
<1>1. CASE UNCHANGED fqdnStore
  BY <1>1 DEF fqdnStore, IndexLeads, HasName, Live
<1>2. CASE FqdnNext
  BY <1>1, <1>2, FqdnStepDoes, CreateRowLeads, UpdateRowLeads, DeleteRowLeads DEF FqdnIInv
<1> QED
  BY <1>1, <1>2 DEF fqdnVars

\* An entry of the index leads to an FQDN that exists and has that name.
THEOREM FqdnIndexLeads == FqdnSpec => []IndexLeads
<1>1. FqdnInit => IndexLeads
  BY DEF FqdnInit, IndexLeads
<1> QED
  BY <1>1, IndexLeadsStep, FqdnInvariant, PTL DEF FqdnSpec

\* A deleted FQDN never comes back.
THEOREM FqdnStaysDeleted == FqdnSpec => DeletedFqdnStays
<1>1. FqdnIInv /\ [FqdnNext]_fqdnVars =>
        [\A i \in Range(fqdnOrder) : ~Live(i) => ~Live(i)']_fqdnVars
  <2> SUFFICES ASSUME FqdnIInv, FqdnNext, NEW i \in Range(fqdnOrder), ~Live(i)
               PROVE  ~Live(i)'
    OBVIOUS
  <2>1. fqdns \in [FqdnIds -> Fqdn \cup {None}] /\ i \in FqdnIds
    BY DEF FqdnIInv, FqdnStoreOK, Range
  <2>2. CASE UNCHANGED fqdnStore
    BY <2>2 DEF fqdnStore, Live
  <2>3. ASSUME NEW j \in FqdnIds \ Range(fqdnOrder), NEW u, CreateRow(j, u) PROVE ~Live(i)'
    BY <2>1, <2>3 DEF CreateRow, Live
  <2>4. ASSUME NEW j \in FqdnIds, NEW u, Live(j), UpdateRow(j, u) PROVE ~Live(i)'
    BY <2>1, <2>4 DEF UpdateRow, Live
  <2>5. ASSUME NEW j \in FqdnIds, Live(j), DeleteRow(j) PROVE ~Live(i)'
    BY <2>1, <2>5 DEF DeleteRow, Live
  <2> QED
    BY <2>2, <2>3, <2>4, <2>5, FqdnStepDoes
<1> QED
  BY <1>1, FqdnInvariant, PTL DEF FqdnSpec, DeletedFqdnStays

-----------------------------------------------------------------------------
(***************************************************************************)
(* FQDNs: names are shared only after a request was overtaken.             *)
(***************************************************************************)
\* Until some request was overtaken, every name leads to its FQDN, and what is
\* about to be written was free when it was checked.
Watched ==
    Indexed /\ \A r \in FqdnRequests : fqdnCalls[r].at \in {"create", "write"} => fqdnCalls[r].free

LEMMA UniqueNames ==
    ASSUME FqdnStoreOK, Indexed, NEW i \in FqdnIds, Live(i)
    PROVE  Free(fqdns[i].fqdn, i)
  BY DEF Indexed, Free, HasName

\* A name that is not found is nobody's.
LEMMA NotFoundIsFree ==
    ASSUME Indexed, NEW n \in Names, NEW i, FindByFqdn(n) = None
    PROVE  Free(Named(n), i)
<1> SUFFICES ASSUME NEW j \in FqdnIds, HasName(j, Named(n)) PROVE FALSE
  BY DEF Free
<1>1. fqdnToIdMap[Normal[n]] = j /\ Live(j) /\ j # None
  BY FqdnNoneAssumption DEF Indexed, HasName, Named
<1> QED
  BY <1>1 DEF FindByFqdn

LEMMA EnterWatched ==
    ASSUME CallsOK, Watched, UNCHANGED fqdnStore,
           NEW r \in FqdnRequests, NEW w, NEW i, NEW u, NEW n, NEW f,
           w \in {"create", "write"} => f, Enter(r, w, i, u, n, f)
    PROVE  Watched'
<1>1. Indexed'
  BY DEF Watched, Indexed, fqdnStore, Live
<1> QED
  BY <1>1 DEF Watched, Enter, CallsOK

LEMMA LeaveWatched ==
    ASSUME CallsOK, Watched, Indexed', NEW r \in FqdnRequests, Leave(r)
    PROVE  Watched'
  BY DEF Watched, Leave, CallsOK, Idle

LEMMA CreateRowIndexed ==
    ASSUME FqdnStoreOK, Indexed, NEW i \in FqdnIds \ Range(fqdnOrder), NEW u, Legal(u),
           Free(u.fqdn, i), CreateRow(i, u)
    PROVE  Indexed'
<1>1. u \in Fqdn /\ u.fqdn \in Names
  BY DEF Legal, Fqdn
<1>2. \A j \in FqdnIds : Live(j) => fqdns[j].fqdn \in Names
  BY LiveTyped DEF Fqdn
<1> QED
  BY <1>1, <1>2 DEF CreateRow, FqdnStoreOK, Indexed, Free, HasName, Live

LEMMA UpdateRowIndexed ==
    ASSUME FqdnStoreOK, Indexed, NEW i \in FqdnIds, NEW u, Legal(u), Live(i),
           Free(u.fqdn, i), UpdateRow(i, u)
    PROVE  Indexed'
<1>1. u \in Fqdn /\ u.fqdn \in Names
  BY DEF Legal, Fqdn
<1>2. \A j \in FqdnIds : Live(j) => fqdns[j].fqdn \in Names
  BY LiveTyped DEF Fqdn
<1>3. \A j \in FqdnIds \ {i} : Live(j) => fqdns[j].fqdn # fqdns[i].fqdn
  BY UniqueNames DEF Free, HasName
<1> QED
  BY <1>1, <1>2, <1>3 DEF UpdateRow, FqdnStoreOK, Indexed, Free, HasName, Live

LEMMA DeleteRowIndexed ==
    ASSUME FqdnStoreOK, Indexed, NEW i \in FqdnIds, Live(i), DeleteRow(i)
    PROVE  Indexed'
<1>1. \A j \in FqdnIds : Live(j) => fqdns[j].fqdn \in Names
  BY LiveTyped DEF Fqdn
<1>2. \A j \in FqdnIds \ {i} : Live(j) => fqdns[j].fqdn # fqdns[i].fqdn
  BY UniqueNames DEF Free, HasName
<1> QED
  BY <1>1, <1>2 DEF DeleteRow, FqdnStoreOK, Indexed, Live

\* Until a request was overtaken, every request enters with a name that is free.
LEMMA EnteringWatched ==
    ASSUME FqdnStoreOK, CallsOK, Watched, NEW r \in FqdnRequests,
           \/ CreateFqdn(r) \/ UpdateFqdn(r) \/ FqdnRenamed(r)
           \/ UpdateFqdnStatus(r) \/ DeleteFqdn(r)
    PROVE  Watched'
<1>1. UNCHANGED fqdnStore /\ Indexed
  BY DEF CreateFqdn, UpdateFqdn, FqdnRenamed, UpdateFqdnStatus, DeleteFqdn, Watched
<1>2. CASE CreateFqdn(r)
  <2>1. PICK n \in Names, d \in Descriptions :
          /\ FindByFqdn(n) = None
          /\ Enter(r, "create", None, NewFqdn(n, d), None, Free(Named(n), None))
    BY <1>2 DEF CreateFqdn
  <2> QED
    BY <1>1, <2>1, NotFoundIsFree, EnterWatched
<1>3. CASE UpdateFqdn(r)
  <2>1. PICK i \in FqdnIds, n \in Names \cup {None}, d \in Descriptions :
          /\ Live(i)
          /\ LET u == [fqdns[i] EXCEPT !.description = d] IN
             IF n # None => Named(n) = u.fqdn
             THEN ValidDescription(d) /\ Enter(r, "write", i, u, None, Free(u.fqdn, i))
             ELSE Enter(r, "rename", i, u, n, TRUE)
    BY <1>3 DEF UpdateFqdn
  <2> DEFINE u == [fqdns[i] EXCEPT !.description = d]
  <2>2. \/ Enter(r, "write", i, u, None, Free(u.fqdn, i))
        \/ Enter(r, "rename", i, u, n, TRUE)
    BY <2>1
  <2>3. u.fqdn = fqdns[i].fqdn
    BY <2>1, LiveTyped DEF Fqdn
  <2> HIDE DEF u
  <2>4. Free(u.fqdn, i)
    BY <1>1, <2>1, <2>3, UniqueNames
  <2> QED
    BY <1>1, <2>2, <2>4, EnterWatched
<1>4. CASE FqdnRenamed(r)
  <2> DEFINE c == fqdnCalls[r]
             u == Renamed(c.rec, c.want)
  <2>1. c.id \in FqdnIds /\ c.rec \in Fqdn /\ c.want \in Names
    BY <1>4 DEF FqdnRenamed, Waits, CallsOK, CallOK
  <2>2. u.fqdn = Named(c.want)
    BY <2>1 DEF Renamed, Fqdn
  <2>3. CASE Leave(r)
    BY <1>1, <2>3, LeaveWatched DEF Indexed, fqdnStore, Live
  <2>4. CASE /\ FindByFqdn(c.want) = None
             /\ Enter(r, "write", c.id, u, None, Free(u.fqdn, c.id))
    <3>1. Free(u.fqdn, c.id)
      BY <1>1, <2>1, <2>2, <2>4, NotFoundIsFree
    <3> HIDE DEF u, c
    <3> QED
      BY <1>1, <2>4, <3>1, EnterWatched
  <2> QED
    BY <1>4, <2>3, <2>4 DEF FqdnRenamed
<1>5. CASE UpdateFqdnStatus(r)
  <2>1. PICK i \in FqdnIds : /\ Live(i)
                             /\ \E u \in {Active(fqdns[i]), Inactive(fqdns[i])} :
                                   Enter(r, "write", i, u, None, Free(u.fqdn, i))
    BY <1>5 DEF UpdateFqdnStatus
  <2>2. /\ Active(fqdns[i]).fqdn = fqdns[i].fqdn
        /\ Inactive(fqdns[i]).fqdn = fqdns[i].fqdn
    BY <2>1, LiveTyped DEF Active, Inactive, Fqdn
  <2> QED
    BY <1>1, <2>1, <2>2, UniqueNames, EnterWatched
<1>6. CASE DeleteFqdn(r)
  BY <1>1, <1>6, EnterWatched DEF DeleteFqdn
<1> QED
  BY <1>2, <1>3, <1>4, <1>5, <1>6

LEMMA WatchedStep ==
    ASSUME FqdnIInv, Watched \/ fqdnClash, FqdnNext PROVE (Watched \/ fqdnClash)'
<1>1. CASE fqdnClash
  BY <1>1 DEF FqdnNext, CreateFqdn, FqdnCreated, UpdateFqdn, FqdnRenamed, UpdateFqdnStatus,
              FqdnWritten, DeleteFqdn, FqdnDeleted, Note, FqdnIInv
<1>2. ASSUME Watched, NEW r \in FqdnRequests,
             CreateFqdn(r) \/ UpdateFqdn(r) \/ FqdnRenamed(r)
               \/ UpdateFqdnStatus(r) \/ DeleteFqdn(r)
      PROVE  Watched'
  BY <1>2, EnteringWatched DEF FqdnIInv
<1>3. ASSUME Watched, UNCHANGED fqdnStore, NEW r \in FqdnRequests, Leave(r) PROVE Watched'
  BY <1>3, LeaveWatched DEF FqdnIInv, Watched, Indexed, fqdnStore, Live
<1>4. ASSUME Watched, NEW r \in FqdnRequests, NEW i \in FqdnIds, Leave(r),
             LET c == fqdnCalls[r] IN
             /\ Legal(c.rec) /\ Note(i, c.rec, c.free) /\ c.at \in {"create", "write"}
             /\ \/ i \notin Range(fqdnOrder) /\ CreateRow(i, c.rec)
                \/ Live(i) /\ UpdateRow(i, c.rec)
      PROVE  (Watched \/ fqdnClash)'
  <2>1. CASE fqdnClash'
    BY <2>1
  <2>2. CASE ~fqdnClash'
    <3>1. Free(fqdnCalls[r].rec.fqdn, i)
      BY <1>4, <2>2 DEF Note, Watched
    <3>2. Indexed'
      BY <1>4, <3>1, CreateRowIndexed, UpdateRowIndexed DEF FqdnIInv, Watched
    <3> QED
      BY <1>4, <3>2, LeaveWatched DEF FqdnIInv
  <2> QED
    BY <2>1, <2>2
<1>5. ASSUME Watched, NEW r \in FqdnRequests, NEW i \in FqdnIds, Leave(r), Live(i), DeleteRow(i)
      PROVE  Watched'
  BY <1>5, DeleteRowIndexed, LeaveWatched DEF FqdnIInv, Watched
<1>6. CASE Watched
  <2>1. PICK r \in FqdnRequests :
          \/ CreateFqdn(r) \/ FqdnCreated(r)
          \/ UpdateFqdn(r) \/ FqdnRenamed(r) \/ UpdateFqdnStatus(r) \/ FqdnWritten(r)
          \/ DeleteFqdn(r) \/ FqdnDeleted(r)
    BY DEF FqdnNext
  <2>2. CASE UNCHANGED fqdnStore /\ (FqdnCreated(r) \/ FqdnWritten(r) \/ FqdnDeleted(r))
    <3>1. Leave(r)
      BY <2>2 DEF FqdnCreated, FqdnWritten, FqdnDeleted
    <3> QED
      BY <1>3, <1>6, <2>2, <3>1
  <2>3. CASE ~UNCHANGED fqdnStore
    BY <1>4, <1>5, <1>6, <2>3, FqdnStepDoes
  <2> QED
    BY <1>2, <1>6, <2>1, <2>2, <2>3
<1> QED
  BY <1>1, <1>6

\* FQDNs share a name, or cannot be found by it, only once a request wrote a name
\* that was free when it was checked and taken when it was written.
THEOREM FqdnOnlyOvertaken == FqdnSpec => []OnlyOvertakenClash
<1>1. FqdnInit => Watched \/ fqdnClash
  BY DEF FqdnInit, Watched, Indexed, Live, Idle
<1>2. FqdnIInv /\ (Watched \/ fqdnClash) /\ [FqdnNext]_fqdnVars => (Watched \/ fqdnClash)'
  <2>1. CASE UNCHANGED fqdnVars
    BY <2>1 DEF fqdnVars, fqdnStore, Watched, Indexed, Live
  <2> QED
    BY <2>1, WatchedStep
<1>3. Watched \/ fqdnClash => OnlyOvertakenClash
  BY DEF Watched, OnlyOvertakenClash
<1> QED
  BY <1>1, <1>2, <1>3, FqdnInvariant, PTL DEF FqdnSpec

-----------------------------------------------------------------------------
(***************************************************************************)
(* Customers: what is stored, and what requests are about to write.        *)
(***************************************************************************)
CustomerStoreOK ==
    /\ customers \in [CustomerIds -> Customer \cup {None}]
    /\ customerOrder \in Seq(CustomerIds)
    /\ \A i \in CustomerIds : Exists(i) => Sound(customers[i]) /\ i \in Range(customerOrder)

\* A request that read a customer holds its record, and a sound one if it will
\* write it as it is.
CustomerCallOK(c) ==
    /\ c \in CustomerCall
    /\ c.at = "create" => c.rec \in Customer
    /\ c.at \in {"readdress", "edit", "toggle"} =>
          c.rec \in Customer /\ c.id \in CustomerIds /\ c.id \in Range(customerOrder)
    /\ c.at = "readdress" => c.want \in Addresses
    /\ c.at \in {"edit", "toggle"} => Sound(c.rec)
    /\ c.at = "delete" => c.id \in CustomerIds

CustomerCallsOK ==
    /\ customerCalls \in [CustomerRequests -> CustomerCall]
    /\ \A r \in CustomerRequests : CustomerCallOK(customerCalls[r])

CustomerIInv == CustomerStoreOK /\ CustomerCallsOK /\ customerClash \in BOOLEAN

LEMMA ExistsTyped ==
    CustomerStoreOK => \A i \in CustomerIds : Exists(i) =>
        customers[i] \in Customer /\ Sound(customers[i]) /\ i \in Range(customerOrder)
  BY DEF CustomerStoreOK, Exists

LEMMA AddCustomerOK ==
    ASSUME CustomerStoreOK, NEW i \in CustomerIds, NEW u \in Customer, Sound(u),
           AddCustomer(i, u)
    PROVE  CustomerStoreOK' /\ Range(customerOrder') = Range(customerOrder) \cup {i}
<1>1. /\ customerOrder' \in Seq(CustomerIds)
      /\ Range(customerOrder') = Range(customerOrder) \cup {i}
  BY AppendRange DEF AddCustomer, CustomerStoreOK
<1> QED
  BY <1>1 DEF AddCustomer, CustomerStoreOK, Exists

LEMMA PutCustomerOK ==
    ASSUME CustomerStoreOK, NEW i \in CustomerIds, NEW u \in Customer, Sound(u),
           PutCustomer(i, u)
    PROVE  CustomerStoreOK'
  BY DEF PutCustomer, CustomerStoreOK, Exists

LEMMA RemoveCustomerOK ==
    ASSUME CustomerStoreOK, NEW i \in CustomerIds, RemoveCustomer(i)
    PROVE  CustomerStoreOK'
  BY DEF RemoveCustomer, CustomerStoreOK, Exists

LEMMA UnsharedBoolean == \A e, i : Unshared(e, i) \in BOOLEAN
  BY DEF Unshared

LEMMA FinishOK ==
    ASSUME CustomerCallsOK, Range(customerOrder) \subseteq Range(customerOrder'),
           NEW r \in CustomerRequests, Finish(r)
    PROVE  CustomerCallsOK'
<1>1. CustomerCallOK(NoCall)' /\ NoCall \in CustomerCall
  BY DEF CustomerCallOK, NoCall, CustomerCall, CustomerStage
<1>2. \A s \in CustomerRequests : CustomerCallOK(customerCalls[s])'
        \/ customerCalls'[s] = NoCall
  BY DEF CustomerCallsOK, CustomerCallOK, Finish
<1> QED
  BY <1>1, <1>2 DEF CustomerCallsOK, CustomerCallOK, Finish

LEMMA BeginOK ==
    ASSUME CustomerCallsOK, UNCHANGED customerOrder,
           NEW r \in CustomerRequests, NEW w \in CustomerStage,
           NEW i \in CustomerIds \cup {None}, NEW u \in Customer \cup {None},
           NEW e \in Addresses \cup {None}, NEW f \in BOOLEAN, NEW x \in BOOLEAN,
           w = "create" => u \in Customer,
           w \in {"readdress", "edit", "toggle"} =>
              u \in Customer /\ i \in CustomerIds /\ i \in Range(customerOrder),
           w = "readdress" => e \in Addresses,
           w \in {"edit", "toggle"} => Sound(u),
           w = "delete" => i \in CustomerIds,
           Begin(r, w, i, u, e, f, x)
    PROVE  CustomerCallsOK'
<1> DEFINE c == [at |-> w, id |-> i, rec |-> u, want |-> e, free |-> f, stale |-> x]
<1>1. CustomerCallOK(c)
  BY DEF CustomerCallOK, CustomerCall
<1>2. customerCalls' = [customerCalls EXCEPT ![r] = c]
  BY DEF Begin
<1> HIDE DEF c
<1> QED
  BY <1>1, <1>2 DEF CustomerCallsOK, CustomerCallOK

LEMMA CustomerInitOK == CustomerInit => CustomerIInv
<1> SUFFICES ASSUME CustomerInit PROVE CustomerIInv
  OBVIOUS
<1>1. CustomerCallOK(NoCall) /\ NoCall \in CustomerCall
  BY DEF CustomerCallOK, NoCall, CustomerCall, CustomerStage
<1>2. CustomerCallsOK
  BY <1>1 DEF CustomerInit, CustomerCallsOK
<1>3. customers \in [CustomerIds -> Customer \cup {None}]
      /\ \A i \in CustomerIds : ~Exists(i)
  BY DEF CustomerInit, Exists
<1>4. customerOrder \in Seq(CustomerIds)
  BY DEF CustomerInit
<1> QED
  BY <1>2, <1>3, <1>4 DEF CustomerInit, CustomerIInv, CustomerStoreOK

LEMMA EditedTyped ==
    ASSUME NEW u \in Customer, NEW d \in Details
    PROVE  Edited(u, d) \in Customer /\ Edited(u, d).email = u.email
           /\ Edited(u, d).status = u.status
  BY DEF Edited, Customer

LEMMA ToggledTyped ==
    ASSUME NEW u \in Customer, NEW s \in CustomerStatus
    PROVE  Toggled(u, s) \in Customer /\ Toggled(u, s).email = u.email
           /\ (Sound(u) => Sound(Toggled(u, s)))
  BY DEF Toggled, Customer, Sound

\* What an update begins with: the record as it is to be, with the old address.
LEMMA UpdateCustomerBegins ==
    ASSUME CustomerStoreOK, NEW r \in CustomerRequests, UpdateCustomer(r)
    PROVE  \E i \in CustomerIds, u \in Customer, e \in Addresses :
              /\ Exists(i) /\ i \in Range(customerOrder)
              /\ u.email = customers[i].email /\ u.status = customers[i].status
              /\ \/ Sound(u) /\ Begin(r, "edit", i, u, None, Unshared(u.email, i), FALSE)
                 \/ Begin(r, "readdress", i, u, e, TRUE, FALSE)
<1>1. PICK i \in CustomerIds, e \in Addresses, d \in Details :
        /\ Exists(i)
        /\ LET u == Edited(customers[i], d) IN
           IF e = u.email THEN Sound(u) /\ Begin(r, "edit", i, u, None, Unshared(e, i), FALSE)
                          ELSE Begin(r, "readdress", i, u, e, TRUE, FALSE)
  BY DEF UpdateCustomer
<1> DEFINE u == Edited(customers[i], d)
<1>2. /\ u \in Customer /\ i \in Range(customerOrder)
      /\ u.email = customers[i].email /\ u.status = customers[i].status
  BY <1>1, ExistsTyped, EditedTyped
<1>3. \/ Sound(u) /\ Begin(r, "edit", i, u, None, Unshared(u.email, i), FALSE)
      \/ Begin(r, "readdress", i, u, e, TRUE, FALSE)
  BY <1>1
<1> QED
  BY <1>1, <1>2, <1>3

\* What the look-up of an address is followed by.
LEMMA ReaddressedBegins ==
    ASSUME CustomerCallsOK, NEW r \in CustomerRequests, CustomerReaddressed(r)
    PROVE  LET c == customerCalls[r]
               u == [c.rec EXCEPT !.email = c.want]
           IN  /\ c.at = "readdress" /\ c.id \in CustomerIds /\ c.id \in Range(customerOrder)
               /\ u \in Customer /\ u.email = c.want /\ u.status = c.rec.status
               /\ \/ Finish(r)
                  \/ /\ FindByEmail(u.email) \in {None, c.id} /\ Sound(u)
                     /\ Begin(r, "edit", c.id, u, None, Unshared(u.email, c.id), c.stale)
<1> DEFINE c == customerCalls[r]
           u == [c.rec EXCEPT !.email = c.want]
<1>1. /\ c.at = "readdress" /\ c.id \in CustomerIds /\ c.id \in Range(customerOrder)
      /\ c.rec \in Customer /\ c.want \in Addresses
  BY DEF CustomerReaddressed, In, CustomerCallsOK, CustomerCallOK
<1>2. u \in Customer /\ u.email = c.want /\ u.status = c.rec.status
  BY <1>1 DEF Customer
<1>3. \/ Finish(r)
      \/ /\ FindByEmail(c.want) \in {None, c.id} /\ Sound(u)
         /\ Begin(r, "edit", c.id, u, None, Unshared(u.email, c.id), c.stale)
  BY DEF CustomerReaddressed
<1> QED
  BY <1>1, <1>2, <1>3

LEMMA ToggleBegins ==
    ASSUME CustomerStoreOK, NEW r \in CustomerRequests, ToggleCustomerStatus(r)
    PROVE  \E i \in CustomerIds, u \in Customer :
              /\ Exists(i) /\ i \in Range(customerOrder)
              /\ u.email = customers[i].email /\ Sound(u)
              /\ Begin(r, "toggle", i, u, None, Unshared(u.email, i), FALSE)
<1>1. PICK i \in CustomerIds, s \in CustomerStatus :
        /\ Exists(i)
        /\ Begin(r, "toggle", i, Toggled(customers[i], s), None,
                 Unshared(customers[i].email, i), FALSE)
  BY DEF ToggleCustomerStatus
<1> QED
  BY <1>1, ExistsTyped, ToggledTyped

\* Requests that begin: they change neither the repository nor its history.
Begins(r) ==
    CreateCustomer(r) \/ UpdateCustomer(r) \/ CustomerReaddressed(r)
      \/ ToggleCustomerStatus(r) \/ DeleteCustomer(r)

LEMMA BeginsKeeps ==
    ASSUME NEW r, Begins(r) PROVE UNCHANGED <<customerStore, customerClash>>
  BY DEF Begins, CreateCustomer, UpdateCustomer, CustomerReaddressed, ToggleCustomerStatus,
         DeleteCustomer

LEMMA BeginsOK ==
    ASSUME CustomerStoreOK, CustomerCallsOK, NEW r \in CustomerRequests, Begins(r)
    PROVE  CustomerCallsOK'
<1>1. UNCHANGED customerOrder
  BY BeginsKeeps DEF customerStore
<1>2. CASE CreateCustomer(r)
  <2>1. PICK e \in Addresses, d \in Details :
          Begin(r, "create", None, NewCustomer(e, d), None, Unshared(e, None), FALSE)
    BY <1>2 DEF CreateCustomer
  <2>2. NewCustomer(e, d) \in Customer
    BY DEF NewCustomer, Customer, CustomerStatus
  <2> QED
    BY <1>1, <2>1, <2>2, BeginOK, UnsharedBoolean DEF CustomerStage
<1>3. CASE UpdateCustomer(r)
  <2>1. PICK i \in CustomerIds, u \in Customer, e \in Addresses :
          /\ i \in Range(customerOrder)
          /\ \/ Sound(u) /\ Begin(r, "edit", i, u, None, Unshared(u.email, i), FALSE)
             \/ Begin(r, "readdress", i, u, e, TRUE, FALSE)
    BY <1>3, UpdateCustomerBegins
  <2> QED
    BY <1>1, <2>1, BeginOK, UnsharedBoolean DEF CustomerStage
<1>4. CASE CustomerReaddressed(r)
  <2> DEFINE c == customerCalls[r]
             u == [c.rec EXCEPT !.email = c.want]
  <2>1. /\ c.id \in CustomerIds /\ c.id \in Range(customerOrder) /\ u \in Customer
        /\ \/ Finish(r)
           \/ Sound(u) /\ Begin(r, "edit", c.id, u, None, Unshared(u.email, c.id), c.stale)
    BY <1>4, ReaddressedBegins
  <2>2. c.stale \in BOOLEAN
    BY DEF CustomerCallsOK, CustomerCall
  <2> HIDE DEF u, c
  <2> QED
    BY <1>1, <2>1, <2>2, BeginOK, FinishOK, UnsharedBoolean DEF CustomerStage
<1>5. CASE ToggleCustomerStatus(r)
  <2>1. PICK i \in CustomerIds, u \in Customer :
          /\ i \in Range(customerOrder) /\ Sound(u)
          /\ Begin(r, "toggle", i, u, None, Unshared(u.email, i), FALSE)
    BY <1>5, ToggleBegins
  <2> QED
    BY <1>1, <2>1, BeginOK, UnsharedBoolean DEF CustomerStage
<1>6. CASE DeleteCustomer(r)
  BY <1>1, <1>6, BeginOK DEF DeleteCustomer, CustomerStage
<1> QED
  BY <1>2, <1>3, <1>4, <1>5, <1>6 DEF Begins

\* What a step does to the repository: it creates a new customer, writes or
\* deletes one, or leaves the repository alone.
LEMMA CustomerStepDoes ==
    ASSUME CustomerIInv, NEW r \in CustomerRequests,
           CustomerCreated(r) \/ CustomerWritten(r) \/ CustomerDeleted(r)
    PROVE  LET c == customerCalls[r] IN
           \/ Finish(r) /\ UNCHANGED <<customerStore, customerClash>>
           \/ \E i \in CustomerIds \ Range(customerOrder) :
                /\ c.at = "create" /\ c.rec \in Customer /\ Sound(c.rec)
                /\ AddCustomer(i, c.rec) /\ NoteShare(i, c.rec, c.free) /\ Finish(r)
           \/ /\ c.at \in {"edit", "toggle"} /\ c.id \in CustomerIds
              /\ c.rec \in Customer /\ Sound(c.rec) /\ CustomerWritten(r)
           \/ /\ c.id \in CustomerIds
              /\ RemoveCustomer(c.id) /\ Finish(r) /\ UNCHANGED customerClash
<1> DEFINE c == customerCalls[r]
<1>1. CASE CustomerCreated(r)
  <2>1. c.at = "create" /\ c.rec \in Customer /\ Finish(r)
    BY <1>1 DEF CustomerCreated, In, CustomerIInv, CustomerCallsOK, CustomerCallOK
  <2> QED
    BY <1>1, <2>1 DEF CustomerCreated
<1>2. CASE CustomerWritten(r)
  <2>1. c.at \in {"edit", "toggle"}
    BY <1>2 DEF CustomerWritten, In
  <2> QED
    BY <1>2, <2>1 DEF CustomerIInv, CustomerCallsOK, CustomerCallOK
<1>3. CASE CustomerDeleted(r)
  <2>1. c.at = "delete"
    BY <1>3 DEF CustomerDeleted, In
  <2> QED
    BY <1>3, <2>1 DEF CustomerDeleted, CustomerIInv, CustomerCallsOK, CustomerCallOK
<1> QED
  BY <1>1, <1>2, <1>3

\* A write ends its own request and marks the others that read the customer.
LEMMA MarkedTyped ==
    ASSUME CustomerCallsOK, UNCHANGED customerOrder, NEW r \in CustomerRequests, CustomerWritten(r)
    PROVE  CustomerCallsOK'
<1>1. NoCall \in CustomerCall /\ NoCall.at = "idle"
  BY DEF NoCall, CustomerCall, CustomerStage
<1>2. ASSUME NEW s \in CustomerRequests
      PROVE  /\ customerCalls'[s] \in CustomerCall
             /\ \/ customerCalls'[s].at = "idle"
                \/ /\ customerCalls'[s].at = customerCalls[s].at
                   /\ customerCalls'[s].rec = customerCalls[s].rec
                   /\ customerCalls'[s].id = customerCalls[s].id
                   /\ customerCalls'[s].want = customerCalls[s].want
  <2> DEFINE c == customerCalls[s]
             d == [c EXCEPT !.stale = @ \/ c.id = customerCalls[r].id]
  <2>1. customerCalls'[s] = IF s = r THEN NoCall ELSE d
    BY DEF CustomerWritten
  <2>2. c \in CustomerCall
    BY DEF CustomerCallsOK
  <2>3. /\ d \in CustomerCall /\ d.at = c.at /\ d.rec = c.rec
        /\ d.id = c.id /\ d.want = c.want
    BY <2>2 DEF CustomerCall
  <2> QED
    BY <1>1, <2>1, <2>3
<1>3. customerCalls' \in [CustomerRequests -> CustomerCall]
  BY <1>2 DEF CustomerWritten
<1> QED
  BY <1>2, <1>3 DEF CustomerCallsOK, CustomerCallOK

LEMMA CustomerStepOK == ASSUME CustomerIInv, CustomerNext PROVE CustomerIInv'
<1>1. PICK r \in CustomerRequests :
        Begins(r) \/ CustomerCreated(r) \/ CustomerWritten(r) \/ CustomerDeleted(r)
  BY DEF CustomerNext, Begins
<1> DEFINE c == customerCalls[r]
<1>2. CASE UNCHANGED <<customerStore, customerClash>> /\ (Begins(r) \/ Finish(r))
  <2>1. CustomerStoreOK' /\ customerClash' \in BOOLEAN
    BY <1>2 DEF CustomerIInv, CustomerStoreOK, customerStore, Exists
  <2>2. CustomerCallsOK'
    BY <1>2, BeginsOK, FinishOK DEF CustomerIInv, customerStore
  <2> QED
    BY <2>1, <2>2 DEF CustomerIInv
<1>3. CASE \E i \in CustomerIds \ Range(customerOrder) :
              /\ c.rec \in Customer /\ Sound(c.rec)
              /\ AddCustomer(i, c.rec) /\ NoteShare(i, c.rec, c.free) /\ Finish(r)
  <2>1. CustomerStoreOK' /\ Range(customerOrder) \subseteq Range(customerOrder')
    BY <1>3, AddCustomerOK DEF CustomerIInv
  <2>2. CustomerCallsOK'
    BY <1>3, <2>1, FinishOK DEF CustomerIInv
  <2>3. customerClash' \in BOOLEAN
    BY <1>3 DEF NoteShare
  <2> QED
    BY <2>1, <2>2, <2>3 DEF CustomerIInv
<1>4. CASE /\ c.id \in CustomerIds /\ c.rec \in Customer /\ Sound(c.rec)
           /\ CustomerWritten(r)
  <2>1. CustomerStoreOK' /\ UNCHANGED customerOrder
    BY <1>4, PutCustomerOK DEF CustomerIInv, CustomerWritten, PutCustomer
  <2>2. customerClash' \in BOOLEAN
    BY <1>4 DEF CustomerWritten, NoteShare, CustomerIInv
  <2> QED
    BY <1>4, <2>1, <2>2, MarkedTyped DEF CustomerIInv
<1>5. CASE c.id \in CustomerIds /\ RemoveCustomer(c.id) /\ Finish(r) /\ UNCHANGED customerClash
  <2>1. CustomerStoreOK' /\ UNCHANGED customerOrder
    BY <1>5, RemoveCustomerOK DEF CustomerIInv, RemoveCustomer
  <2> QED
    BY <1>5, <2>1, FinishOK DEF CustomerIInv
<1>6. CASE Begins(r)
  BY <1>2, <1>6, BeginsKeeps
<1> QED
  BY <1>1, <1>2, <1>3, <1>4, <1>5, <1>6, CustomerStepDoes

LEMMA CustomerStutterOK == CustomerIInv /\ UNCHANGED customerVars => CustomerIInv'
  BY DEF CustomerIInv, customerVars, customerStore, CustomerStoreOK, Exists, CustomerCallsOK,
         CustomerCallOK

LEMMA CustomerInvariant == CustomerSpec => []CustomerIInv
  BY CustomerInitOK, CustomerStepOK, CustomerStutterOK, PTL DEF CustomerSpec

\* What is stored is a sound customer that was created, and what requests are about
\* to write over it is sound, stale records included.
THEOREM CustomerTyping == CustomerSpec => []CustomerTypeOK
<1>1. CustomerIInv => CustomerTypeOK
  BY DEF CustomerIInv, CustomerStoreOK, CustomerCallsOK, CustomerCallOK, CustomerTypeOK
<1> QED
  BY <1>1, CustomerInvariant, PTL

\* A deleted customer never comes back.
THEOREM CustomerStaysDeleted == CustomerSpec => DeletedCustomerStays
<1>1. CustomerIInv /\ [CustomerNext]_customerVars =>
        [\A i \in Range(customerOrder) : ~Exists(i) => ~Exists(i)']_customerVars
  <2> SUFFICES ASSUME CustomerIInv, CustomerNext, NEW i \in Range(customerOrder), ~Exists(i)
               PROVE  ~Exists(i)'
    OBVIOUS
  <2>1. customers \in [CustomerIds -> Customer \cup {None}] /\ i \in CustomerIds
    BY DEF CustomerIInv, CustomerStoreOK, Range
  <2>2. PICK r \in CustomerRequests :
          Begins(r) \/ CustomerCreated(r) \/ CustomerWritten(r) \/ CustomerDeleted(r)
    BY DEF CustomerNext, Begins
  <2>3. CASE UNCHANGED customerStore
    BY <2>3 DEF customerStore, Exists
  <2>4. ASSUME NEW j \in CustomerIds \ Range(customerOrder), NEW u, AddCustomer(j, u)
        PROVE  ~Exists(i)'
    BY <2>1, <2>4 DEF AddCustomer, Exists
  <2>5. CASE CustomerWritten(r)
    BY <2>1, <2>5 DEF CustomerWritten, PutCustomer, Exists
  <2>6. ASSUME NEW j \in CustomerIds, RemoveCustomer(j) PROVE ~Exists(i)'
    BY <2>1, <2>6 DEF RemoveCustomer, Exists
  <2> QED
    BY <2>2, <2>3, <2>4, <2>5, <2>6, BeginsKeeps, CustomerStepDoes
<1> QED
  BY <1>1, CustomerInvariant, PTL DEF CustomerSpec, DeletedCustomerStays

-----------------------------------------------------------------------------
(***************************************************************************)
(* Customers: addresses are shared only after a request was overtaken.     *)
(***************************************************************************)
\* Until some request was overtaken, every address is one customer's, and what
\* is about to be written was free when it was checked.
CustomerWatched ==
    /\ Unique
    /\ \A r \in CustomerRequests :
          customerCalls[r].at \in {"create", "edit", "toggle"} => customerCalls[r].free

\* The scan finds somebody with the address if anybody has it.
LEMMA ScanFinds ==
    ASSUME CustomerStoreOK, NEW e
    PROVE  /\ FindByEmail(e) = None => \A j \in CustomerIds : ~HasAddress(j, e)
           /\ FindByEmail(e) # None =>
                FindByEmail(e) \in CustomerIds /\ HasAddress(FindByEmail(e), e)
<1> DEFINE found == {k \in DOMAIN customerOrder : HasAddress(customerOrder[k], e)}
<1>1. DOMAIN customerOrder \subseteq Nat /\ \A k \in DOMAIN customerOrder : customerOrder[k] \in CustomerIds
  BY DEF CustomerStoreOK
<1>2. CASE found = {}
  <2>1. ASSUME NEW j \in CustomerIds, HasAddress(j, e) PROVE FALSE
    <3>1. j \in Range(customerOrder)
      BY <2>1 DEF HasAddress, CustomerStoreOK
    <3>2. PICK k \in DOMAIN customerOrder : customerOrder[k] = j
      BY <3>1 DEF Range
    <3> QED
      BY <1>2, <2>1, <3>2
  <2> QED
    BY <1>2, <2>1 DEF FindByEmail
<1>3. CASE found # {}
  <2>1. found \in SUBSET Nat
    BY <1>1
  <2>2. Min(found) \in found
    BY <1>3, <2>1, MinIsLeast
  <2>3. FindByEmail(e) = customerOrder[Min(found)]
    BY <1>3 DEF FindByEmail
  <2> QED
    BY <1>1, <2>2, <2>3, CustomerNoneAssumption
<1> QED
  BY <1>2, <1>3

\* Whoever is not found, or is found and is the only one, shares nothing.
LEMMA NotFoundIsUnshared ==
    ASSUME CustomerStoreOK, Unique, NEW e, NEW i, FindByEmail(e) \in {None, i}
    PROVE  Unshared(e, i)
<1> SUFFICES ASSUME NEW j \in CustomerIds \ {i}, HasAddress(j, e) PROVE FALSE
  BY DEF Unshared
<1>1. FindByEmail(e) = i /\ i \in CustomerIds /\ HasAddress(i, e)
  BY ScanFinds
<1>2. Unshared(customers[i].email, i)
  BY <1>1 DEF Unique, HasAddress
<1> QED
  BY <1>1, <1>2 DEF Unshared, HasAddress

LEMMA BeginWatched ==
    ASSUME CustomerCallsOK, CustomerWatched, UNCHANGED customerStore,
           NEW r \in CustomerRequests, NEW w, NEW i, NEW u, NEW e, NEW f, NEW x,
           w \in {"create", "edit", "toggle"} => f, Begin(r, w, i, u, e, f, x)
    PROVE  CustomerWatched'
<1>1. Unique'
  BY DEF CustomerWatched, Unique, customerStore, Exists, Unshared, HasAddress
<1> QED
  BY <1>1 DEF CustomerWatched, Begin, CustomerCallsOK

LEMMA FinishWatched ==
    ASSUME CustomerCallsOK, CustomerWatched, Unique', NEW r \in CustomerRequests, Finish(r)
    PROVE  CustomerWatched'
  BY DEF CustomerWatched, Finish, CustomerCallsOK, NoCall

LEMMA BeginsWatched ==
    ASSUME CustomerStoreOK, CustomerCallsOK, CustomerWatched, NEW r \in CustomerRequests, Begins(r)
    PROVE  CustomerWatched'
<1>1. UNCHANGED customerStore /\ Unique /\ Unique'
  BY BeginsKeeps DEF CustomerWatched, Unique, customerStore, Exists, Unshared, HasAddress
<1>2. CASE CreateCustomer(r)
  <2>1. PICK e \in Addresses, d \in Details :
          /\ FindByEmail(e) = None
          /\ Begin(r, "create", None, NewCustomer(e, d), None, Unshared(e, None), FALSE)
    BY <1>2 DEF CreateCustomer
  <2>2. Unshared(e, None)
    BY <1>1, <2>1, NotFoundIsUnshared
  <2> QED
    BY <1>1, <2>1, <2>2, BeginWatched
<1>3. CASE UpdateCustomer(r)
  <2>1. PICK i \in CustomerIds, u \in Customer, e \in Addresses :
          /\ Exists(i) /\ u.email = customers[i].email
          /\ \/ Begin(r, "edit", i, u, None, Unshared(u.email, i), FALSE)
             \/ Begin(r, "readdress", i, u, e, TRUE, FALSE)
    BY <1>3, UpdateCustomerBegins
  <2>2. Unshared(u.email, i)
    BY <1>1, <2>1 DEF Unique
  <2> QED
    BY <1>1, <2>1, <2>2, BeginWatched
<1>4. CASE CustomerReaddressed(r)
  <2> DEFINE c == customerCalls[r]
             u == [c.rec EXCEPT !.email = c.want]
  <2>1. \/ Finish(r)
        \/ /\ FindByEmail(u.email) \in {None, c.id}
           /\ Begin(r, "edit", c.id, u, None, Unshared(u.email, c.id), c.stale)
    BY <1>4, ReaddressedBegins
  <2> HIDE DEF u, c
  <2>2. FindByEmail(u.email) \in {None, c.id} => Unshared(u.email, c.id)
    BY <1>1, NotFoundIsUnshared
  <2> QED
    BY <1>1, <2>1, <2>2, BeginWatched, FinishWatched
<1>5. CASE ToggleCustomerStatus(r)
  <2>1. PICK i \in CustomerIds, u \in Customer :
          /\ Exists(i) /\ u.email = customers[i].email
          /\ Begin(r, "toggle", i, u, None, Unshared(u.email, i), FALSE)
    BY <1>5, ToggleBegins
  <2>2. Unshared(u.email, i)
    BY <1>1, <2>1 DEF Unique
  <2> QED
    BY <1>1, <2>1, <2>2, BeginWatched
<1>6. CASE DeleteCustomer(r)
  BY <1>1, <1>6, BeginWatched DEF DeleteCustomer
<1> QED
  BY <1>2, <1>3, <1>4, <1>5, <1>6 DEF Begins

LEMMA AddKeepsUnique ==
    ASSUME CustomerStoreOK, Unique, NEW i \in CustomerIds, NEW u \in Customer,
           Unshared(u.email, i), AddCustomer(i, u)
    PROVE  Unique'
<1>1. \A j \in CustomerIds : customers'[j] = IF j = i THEN u ELSE customers[j]
  BY DEF AddCustomer, CustomerStoreOK
<1> QED
  BY <1>1 DEF Unique, Unshared, HasAddress, Exists

LEMMA PutKeepsUnique ==
    ASSUME CustomerStoreOK, Unique, NEW i \in CustomerIds, NEW u \in Customer,
           Exists(i) => Unshared(u.email, i), PutCustomer(i, u)
    PROVE  Unique'
<1>1. CASE ~Exists(i)
  BY <1>1 DEF PutCustomer, Unique, Unshared, HasAddress, Exists
<1>2. CASE Exists(i)
  <2>1. \A j \in CustomerIds : customers'[j] = IF j = i THEN u ELSE customers[j]
    BY <1>2 DEF PutCustomer, CustomerStoreOK
  <2> QED
    BY <1>2, <2>1 DEF Unique, Unshared, HasAddress, Exists
<1> QED
  BY <1>1, <1>2

LEMMA RemoveKeepsUnique ==
    ASSUME CustomerStoreOK, Unique, NEW i \in CustomerIds, RemoveCustomer(i) PROVE Unique'
<1>1. \A j \in CustomerIds : customers'[j] = IF j = i THEN None ELSE customers[j]
  BY DEF RemoveCustomer, CustomerStoreOK
<1> QED
  BY <1>1 DEF Unique, Unshared, HasAddress, Exists

LEMMA WrittenWatched ==
    ASSUME CustomerCallsOK, CustomerWatched, Unique', NEW r \in CustomerRequests,
           CustomerWritten(r)
    PROVE  CustomerWatched'
<1>1. ASSUME NEW s \in CustomerRequests, customerCalls'[s].at \in {"create", "edit", "toggle"}
      PROVE  customerCalls'[s].free
  <2> DEFINE c == customerCalls[s]
             d == [c EXCEPT !.stale = @ \/ c.id = customerCalls[r].id]
  <2>1. customerCalls'[s] = IF s = r THEN NoCall ELSE d
    BY DEF CustomerWritten
  <2>2. d.at = c.at /\ d.free = c.free
    BY DEF CustomerCallsOK, CustomerCall
  <2>3. NoCall.at = "idle"
    BY DEF NoCall
  <2> QED
    BY <1>1, <2>1, <2>2, <2>3 DEF CustomerWatched
<1> QED
  BY <1>1 DEF CustomerWatched

LEMMA CustomerWatchedStep ==
    ASSUME CustomerIInv, CustomerWatched \/ customerClash, CustomerNext
    PROVE  (CustomerWatched \/ customerClash)'
<1>1. PICK r \in CustomerRequests :
        Begins(r) \/ CustomerCreated(r) \/ CustomerWritten(r) \/ CustomerDeleted(r)
  BY DEF CustomerNext, Begins
<1> DEFINE c == customerCalls[r]
<1>2. CASE customerClash
  BY <1>1, <1>2, BeginsKeeps DEF CustomerCreated, CustomerWritten, CustomerDeleted, NoteShare
<1>3. CASE CustomerWatched /\ Begins(r)
  BY <1>3, BeginsWatched DEF CustomerIInv
<1>4. CASE CustomerWatched /\ UNCHANGED customerStore /\ Finish(r)
  <2>1. Unique'
    BY <1>4 DEF CustomerWatched, Unique, customerStore, Exists, Unshared, HasAddress
  <2> QED
    BY <1>4, <2>1, FinishWatched DEF CustomerIInv
<1>5. CASE CustomerWatched /\ ~customerClash' /\ \E i \in CustomerIds :
              /\ c.at = "create" /\ c.rec \in Customer
              /\ AddCustomer(i, c.rec) /\ NoteShare(i, c.rec, c.free) /\ Finish(r)
  <2>1. Unique'
    BY <1>5, AddKeepsUnique DEF CustomerWatched, NoteShare, CustomerIInv
  <2> QED
    BY <1>5, <2>1, FinishWatched DEF CustomerIInv
<1>6. CASE /\ CustomerWatched /\ ~customerClash'
           /\ c.at \in {"edit", "toggle"} /\ c.id \in CustomerIds /\ c.rec \in Customer
           /\ CustomerWritten(r)
  <2>1. PutCustomer(c.id, c.rec) /\ (Exists(c.id) => Unshared(c.rec.email, c.id))
    BY <1>6 DEF CustomerWritten, NoteShare, CustomerWatched
  <2>2. Unique'
    BY <1>6, <2>1, PutKeepsUnique DEF CustomerWatched, CustomerIInv
  <2> QED
    BY <1>6, <2>2, WrittenWatched DEF CustomerIInv
<1>7. CASE CustomerWatched /\ c.id \in CustomerIds /\ RemoveCustomer(c.id) /\ Finish(r)
  BY <1>7, RemoveKeepsUnique, FinishWatched DEF CustomerWatched, CustomerIInv
<1> QED
  BY <1>1, <1>2, <1>3, <1>4, <1>5, <1>6, <1>7, CustomerStepDoes

\* Customers share an address only once a request wrote one that was free when
\* it was checked and taken when it was written.
THEOREM CustomerOnlyOvertaken == CustomerSpec => []OnlyOvertakenShare
<1>1. CustomerInit => CustomerWatched \/ customerClash
  BY DEF CustomerInit, CustomerWatched, Unique, Exists, NoCall
<1>2. CustomerIInv /\ (CustomerWatched \/ customerClash) /\ [CustomerNext]_customerVars
        => (CustomerWatched \/ customerClash)'
  <2>1. CASE UNCHANGED customerVars
    BY <2>1 DEF customerVars, customerStore, CustomerWatched, Unique, Exists, Unshared, HasAddress
  <2> QED
    BY <2>1, CustomerWatchedStep
<1>3. CustomerWatched \/ customerClash => OnlyOvertakenShare
  BY DEF CustomerWatched, OnlyOvertakenShare
<1> QED
  BY <1>1, <1>2, <1>3, CustomerInvariant, PTL DEF CustomerSpec

-----------------------------------------------------------------------------
(***************************************************************************)
(* Customers: nobody is activated or deactivated unasked, but by a request *)
(* that wrote what somebody else had overwritten.                          *)
(***************************************************************************)
\* An edit whose record nobody overwrote holds the status the customer has.
Fresh ==
    \A r \in CustomerRequests :
        LET c == customerCalls[r] IN
        c.at \in {"readdress", "edit"} /\ ~c.stale /\ Exists(c.id) =>
            c.rec.status = customers[c.id].status

LEMMA BeginFresh ==
    ASSUME CustomerCallsOK, Fresh, UNCHANGED customerStore, NEW r \in CustomerRequests,
           NEW w, NEW i, NEW u, NEW e, NEW f, NEW x,
           w \in {"readdress", "edit"} /\ ~x /\ Exists(i) => u.status = customers[i].status,
           Begin(r, w, i, u, e, f, x)
    PROVE  Fresh'
<1> DEFINE c == [at |-> w, id |-> i, rec |-> u, want |-> e, free |-> f, stale |-> x]
<1>1. customerCalls' = [customerCalls EXCEPT ![r] = c]
  BY DEF Begin
<1>2. \A s \in CustomerRequests : customerCalls'[s] = IF s = r THEN c ELSE customerCalls[s]
  BY <1>1 DEF CustomerCallsOK
<1>3. UNCHANGED customers
  BY DEF customerStore
<1> QED
  BY <1>2, <1>3 DEF Fresh, Exists

LEMMA BeginsFresh ==
    ASSUME CustomerStoreOK, CustomerCallsOK, Fresh, NEW r \in CustomerRequests, Begins(r)
    PROVE  Fresh'
<1>1. UNCHANGED customerStore
  BY BeginsKeeps
<1>2. CASE CreateCustomer(r) \/ ToggleCustomerStatus(r) \/ DeleteCustomer(r)
  BY <1>1, <1>2, BeginFresh DEF CreateCustomer, ToggleCustomerStatus, DeleteCustomer
<1>3. CASE UpdateCustomer(r)
  <2>1. PICK i \in CustomerIds, u \in Customer, e \in Addresses :
          /\ u.status = customers[i].status
          /\ \/ Begin(r, "edit", i, u, None, Unshared(u.email, i), FALSE)
             \/ Begin(r, "readdress", i, u, e, TRUE, FALSE)
    BY <1>3, UpdateCustomerBegins
  <2> QED
    BY <1>1, <2>1, BeginFresh
<1>4. CASE CustomerReaddressed(r)
  <2> DEFINE c == customerCalls[r]
             u == [c.rec EXCEPT !.email = c.want]
  <2>1. /\ c.at = "readdress" /\ u.status = c.rec.status
        /\ \/ Finish(r)
           \/ Begin(r, "edit", c.id, u, None, Unshared(u.email, c.id), c.stale)
    BY <1>4, ReaddressedBegins
  <2>2. ~c.stale /\ Exists(c.id) => u.status = customers[c.id].status
    BY <2>1 DEF Fresh
  <2> HIDE DEF u, c
  <2>3. CASE Begin(r, "edit", c.id, u, None, Unshared(u.email, c.id), c.stale)
    BY <1>1, <2>2, <2>3, BeginFresh
  <2>4. CASE Finish(r)
    BY <1>1, <2>4 DEF Fresh, Finish, NoCall, CustomerCallsOK, customerStore, Exists
  <2> QED
    BY <2>1, <2>3, <2>4
<1> QED
  BY <1>2, <1>3, <1>4 DEF Begins

LEMMA WrittenFresh ==
    ASSUME CustomerStoreOK, CustomerCallsOK, Fresh, NEW r \in CustomerRequests,
           customerCalls[r].id \in CustomerIds, customerCalls[r].rec \in Customer,
           CustomerWritten(r)
    PROVE  Fresh'
<1> DEFINE j == customerCalls[r].id
<1>1. ASSUME NEW s \in CustomerRequests, customerCalls'[s].at \in {"readdress", "edit"},
             ~customerCalls'[s].stale, customers'[customerCalls'[s].id] # None
      PROVE  customerCalls'[s].rec.status = customers'[customerCalls'[s].id].status
  <2> DEFINE c == customerCalls[s]
             d == [c EXCEPT !.stale = @ \/ c.id = j]
  <2>1. customerCalls'[s] = IF s = r THEN NoCall ELSE d
    BY DEF CustomerWritten
  <2>2. c \in CustomerCall /\ CustomerCallOK(c)
    BY DEF CustomerCallsOK
  <2>3. /\ d.at = c.at /\ d.id = c.id /\ d.rec = c.rec
        /\ d.stale = (c.stale \/ c.id = j)
    BY <2>2 DEF CustomerCall
  <2>4. s # r
    BY <1>1, <2>1 DEF NoCall
  <2>5. /\ c.at \in {"readdress", "edit"} /\ ~c.stale /\ c.id # j /\ c.id \in CustomerIds
        /\ customers'[c.id] # None
    BY <1>1, <2>1, <2>2, <2>3, <2>4 DEF CustomerCallOK
  <2>6. customers'[c.id] = customers[c.id]
    BY <2>5 DEF CustomerWritten, PutCustomer, CustomerStoreOK
  <2> QED
    BY <2>1, <2>3, <2>4, <2>5, <2>6 DEF Fresh, Exists
<1> QED
  BY <1>1 DEF Fresh, Exists

\* A new customer has an id that no request has read.
LEMMA FinishFresh ==
    ASSUME CustomerStoreOK, CustomerCallsOK, Fresh, NEW r \in CustomerRequests, Finish(r),
           NEW i \in CustomerIds, NEW u,
           \/ UNCHANGED customers
           \/ i \notin Range(customerOrder) /\ customers' = [customers EXCEPT ![i] = u]
           \/ customers' = [customers EXCEPT ![i] = None]
    PROVE  Fresh'
<1>1. ASSUME NEW s \in CustomerRequests, customerCalls'[s].at \in {"readdress", "edit"},
             ~customerCalls'[s].stale, customers'[customerCalls'[s].id] # None
      PROVE  customerCalls'[s].rec.status = customers'[customerCalls'[s].id].status
  <2> DEFINE c == customerCalls[s]
  <2>1. customerCalls'[s] = IF s = r THEN NoCall ELSE c
    BY DEF Finish, CustomerCallsOK
  <2>2. customerCalls'[s] = c
    BY <1>1, <2>1 DEF NoCall
  <2>3. c.id \in CustomerIds /\ c.id \in Range(customerOrder)
    BY <1>1, <2>2 DEF CustomerCallsOK, CustomerCallOK
  <2>4. customers'[c.id] = customers[c.id]
    BY <1>1, <2>2, <2>3 DEF CustomerStoreOK
  <2> QED
    BY <1>1, <2>2, <2>4 DEF Fresh, Exists
<1> QED
  BY <1>1 DEF Fresh, Exists

LEMMA FreshStep == ASSUME CustomerIInv, Fresh, CustomerNext PROVE Fresh'
<1>1. PICK r \in CustomerRequests :
        Begins(r) \/ CustomerCreated(r) \/ CustomerWritten(r) \/ CustomerDeleted(r)
  BY DEF CustomerNext, Begins
<1> DEFINE c == customerCalls[r]
<1>2. CASE Begins(r)
  BY <1>2, BeginsFresh DEF CustomerIInv
<1>3. CASE Finish(r) /\ UNCHANGED <<customerStore, customerClash>>
  BY <1>3 DEF Fresh, Finish, NoCall, CustomerIInv, CustomerCallsOK, customerStore, Exists
<1>4. CASE \E i \in CustomerIds \ Range(customerOrder) : AddCustomer(i, c.rec) /\ Finish(r)
  BY <1>4, FinishFresh DEF AddCustomer, CustomerIInv
<1>5. CASE c.id \in CustomerIds /\ c.rec \in Customer /\ CustomerWritten(r)
  BY <1>5, WrittenFresh DEF CustomerIInv
<1>6. CASE c.id \in CustomerIds /\ RemoveCustomer(c.id) /\ Finish(r)
  BY <1>6, FinishFresh DEF RemoveCustomer, CustomerIInv
<1> QED
  BY <1>1, <1>2, <1>3, <1>4, <1>5, <1>6, CustomerStepDoes

\* The status of a customer changes by a request that asked for it, or by an edit
\* that wrote back a status overwritten since it was read.
THEOREM CustomerStatusAsked == CustomerSpec => OnlyStaleEditsToggle
<1> DEFINE Asked(i) == \E r \in CustomerRequests :
                LET c == customerCalls[r] IN
                /\ c.id = i
                /\ c.at = "toggle" \/ (c.at = "edit" /\ c.stale)
                /\ c.rec.status = customers'[i].status
<1>1. CustomerIInv /\ Fresh /\ [CustomerNext]_customerVars =>
        [\A i \in CustomerIds :
            Exists(i) /\ Exists(i)' /\ customers'[i].status # customers[i].status => Asked(i)]_customerVars
  <2> SUFFICES ASSUME CustomerIInv, Fresh, CustomerNext, NEW i \in CustomerIds, Exists(i),
                      customers'[i] # None, customers'[i].status # customers[i].status
               PROVE  Asked(i)
    BY DEF Exists
  <2>1. PICK r \in CustomerRequests :
          Begins(r) \/ CustomerCreated(r) \/ CustomerWritten(r) \/ CustomerDeleted(r)
    BY DEF CustomerNext, Begins
  <2> DEFINE c == customerCalls[r]
  <2>2. customers \in [CustomerIds -> Customer \cup {None}] /\ i \in Range(customerOrder)
    BY DEF CustomerIInv, CustomerStoreOK
  <2>3. ~UNCHANGED customerStore
    BY DEF customerStore
  <2>4. ASSUME NEW j \in CustomerIds \ Range(customerOrder), NEW u, AddCustomer(j, u)
        PROVE  FALSE
    BY <2>2, <2>4 DEF AddCustomer
  <2>5. ASSUME NEW j \in CustomerIds, RemoveCustomer(j) PROVE FALSE
    BY <2>2, <2>5 DEF RemoveCustomer
  <2>6. CASE c.at \in {"edit", "toggle"} /\ c.id \in CustomerIds /\ CustomerWritten(r)
    <3>1. c.id = i /\ customers'[i] = c.rec
      BY <2>2, <2>6 DEF CustomerWritten, PutCustomer
    <3>2. c.at = "edit" => c.stale
      BY <3>1 DEF Fresh
    <3> QED
      BY <2>6, <3>1, <3>2
  <2> QED
    BY <2>1, <2>3, <2>4, <2>5, <2>6, BeginsKeeps, CustomerStepDoes
<1>2. CustomerInit => Fresh
  BY DEF CustomerInit, Fresh, NoCall
<1>3. CustomerIInv /\ Fresh /\ [CustomerNext]_customerVars => Fresh'
  <2>1. CASE UNCHANGED customerVars
    BY <2>1 DEF customerVars, customerStore, Fresh, Exists
  <2> QED
    BY <2>1, FreshStep
<1> QED
  BY <1>1, <1>2, <1>3, CustomerInvariant, PTL DEF CustomerSpec, OnlyStaleEditsToggle
=============================================================================
