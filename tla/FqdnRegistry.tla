---------------------------- MODULE FqdnRegistry ----------------------------
(***************************************************************************)
(* FqdnRepository, a map of FQDNs in the order of their creation and an    *)
(* index from names to ids, under the six use cases of FqdnController.     *)
(*                                                                         *)
(* The repository is in memory, but every call of it is awaited: two       *)
(* requests whose token checks Redis answers in one packet go on in turns, *)
(* one await each.  So a step is the code between two awaits, and a        *)
(* request keeps in between what it read.  Requests refused before they    *)
(* wait change nothing and are no step.                                    *)
(***************************************************************************)
EXTENDS Common, Naturals, Sequences, Functions

CONSTANTS
    FqdnIds,        \* bound: ids that are ever drawn
    Names,          \* names as written
    Normal,         \* [Names -> Names], trim and toLowerCase
    Labels,         \* [Names -> Seq(Nat)], the lengths of the labels of a name
    Clean,          \* names of letters, digits and inner hyphens
    Descriptions,   \* lengths of descriptions, 0 for none
    FqdnRequests    \* requests that wait at one time

ASSUME NormalAssumption ==
    Normal \in [Names -> Names] /\ \A n \in Names : Normal[Normal[n]] = Normal[n]
ASSUME DescriptionsAssumption == Descriptions \subseteq Nat
ASSUME FqdnNoneAssumption == None \notin FqdnIds /\ None \notin Names

FqdnStatus == {"ACTIVE", "INACTIVE"}
Fqdn == [fqdn : Names, description : Descriptions, status : FqdnStatus]

ASSUME FqdnRecordAssumption == None \notin Fqdn

\* What a request waits for: "create", "write" and "delete" the call of the
\* repository that changes it, "rename" the look-up of the new name.
Stage == {"idle", "create", "rename", "write", "delete"}

VARIABLES
    fqdns,          \* [FqdnIds -> Fqdn or None]
    fqdnToIdMap,    \* [Names -> FqdnIds or None]
    fqdnOrder,      \* ids in the order of creation, deleted ones included
    fqdnCalls,      \* what each request waits for, and what it has read
    fqdnClash       \* history: a name was taken between a check and its write

fqdnStore == <<fqdns, fqdnToIdMap, fqdnOrder>>
fqdnVars == <<fqdnStore, fqdnCalls, fqdnClash>>

\* "free": when the request read, nobody else had the name it will write.
Call == [at : Stage, id : FqdnIds \cup {None}, rec : Fqdn \cup {None},
         want : Names \cup {None}, free : BOOLEAN]
Idle == [at |-> "idle", id |-> None, rec |-> None, want |-> None, free |-> TRUE]

-----------------------------------------------------------------------------
(***************************************************************************)
(* The entity.                                                             *)
(***************************************************************************)
\* 253 characters in labels of 1 to 63, two of them at least.
ValidFqdn(n) ==
    LET labels == Labels[n] IN
    /\ n \in Clean
    /\ Len(labels) >= 2 /\ \A k \in DOMAIN labels : labels[k] \in 1 .. 63
    /\ SumFunction(labels) + Len(labels) - 1 <= 253
ValidDescription(d) == d <= 500

Named(n) == Normal[n]
NewFqdn(n, d) == [fqdn |-> Named(n), description |-> d, status |-> "ACTIVE"]
Renamed(u, n) == [u EXCEPT !.fqdn = Named(n)]
Active(u) == [u EXCEPT !.status = "ACTIVE"]
Inactive(u) == [u EXCEPT !.status = "INACTIVE"]

-----------------------------------------------------------------------------
(***************************************************************************)
(* FqdnRepository.                                                         *)
(***************************************************************************)
Live(i) == fqdns[i] # None
FindByFqdn(n) ==
    LET i == fqdnToIdMap[Normal[n]]
    IN  IF i # None /\ Live(i) THEN i ELSE None

\* Array.from(map.values()).filter(...): "names" those that hold the search text.
FqdnFits(i, names, statuses) ==
    Live(i) /\ fqdns[i].fqdn \in names /\ fqdns[i].status \in statuses
FqdnList(names, statuses) ==
    AtPositions(fqdnOrder, {k \in DOMAIN fqdnOrder : FqdnFits(fqdnOrder[k], names, statuses)})

CreateRow(i, u) ==
    /\ fqdns' = [fqdns EXCEPT ![i] = u]
    /\ fqdnToIdMap' = [fqdnToIdMap EXCEPT ![u.fqdn] = i]
    /\ fqdnOrder' = Append(fqdnOrder, i)

\* Mutant: the old name stays in the index.
UpdateRowAdds(i, u) ==
    /\ fqdns' = [fqdns EXCEPT ![i] = IF Live(i) THEN u ELSE None]
    /\ fqdnToIdMap' = IF Live(i) THEN [fqdnToIdMap EXCEPT ![u.fqdn] = i] ELSE fqdnToIdMap
    /\ UNCHANGED fqdnOrder

\* Mutant: an FQDN that is gone is stored again.
UpdateRowStores(i, u) ==
    /\ fqdns' = [fqdns EXCEPT ![i] = u]
    /\ fqdnToIdMap' = [fqdnToIdMap EXCEPT
            ![IF Live(i) THEN fqdns[i].fqdn ELSE u.fqdn] = None, ![u.fqdn] = i]
    /\ UNCHANGED fqdnOrder

\* update() throws for an FQDN deleted meanwhile.
UpdateRow(i, u) ==
    /\ IF ~Live(i) THEN UNCHANGED <<fqdns, fqdnToIdMap>>
       ELSE /\ fqdns' = [fqdns EXCEPT ![i] = u]
            /\ fqdnToIdMap' =
                 IF fqdns[i].fqdn = u.fqdn THEN fqdnToIdMap
                 ELSE [fqdnToIdMap EXCEPT ![fqdns[i].fqdn] = None, ![u.fqdn] = i]
    /\ UNCHANGED fqdnOrder

DeleteRow(i) ==
    /\ IF ~Live(i) THEN UNCHANGED <<fqdns, fqdnToIdMap>>
       ELSE /\ fqdnToIdMap' = [fqdnToIdMap EXCEPT ![fqdns[i].fqdn] = None]
            /\ fqdns' = [fqdns EXCEPT ![i] = None]
    /\ UNCHANGED fqdnOrder

-----------------------------------------------------------------------------
(***************************************************************************)
(* The use cases.                                                          *)
(***************************************************************************)
HasName(i, n) == Live(i) /\ fqdns[i].fqdn = n
Free(n, i) == \A j \in FqdnIds \ {i} : ~HasName(j, n)

Enter(r, w, i, u, n, free) ==
    fqdnCalls' = [fqdnCalls EXCEPT ![r] =
        [at |-> w, id |-> i, rec |-> u, want |-> n, free |-> free]]
Leave(r) == fqdnCalls' = [fqdnCalls EXCEPT ![r] = Idle]
Waits(r, w) == fqdnCalls[r].at = w

FqdnInit ==
    /\ fqdns = [i \in FqdnIds |-> None]
    /\ fqdnToIdMap = [n \in Names |-> None]
    /\ fqdnOrder = << >>
    /\ fqdnCalls = [r \in FqdnRequests |-> Idle]
    /\ fqdnClash = FALSE

\* Mutant: the name is not looked up.
CreateFqdnUnchecked(r) ==
    /\ Waits(r, "idle")
    /\ \E n \in Names, d \in Descriptions :
        Enter(r, "create", None, NewFqdn(n, d), None, Free(Named(n), None))
    /\ UNCHANGED <<fqdnStore, fqdnClash>>

CreateFqdn(r) ==
    /\ Waits(r, "idle")
    /\ \E n \in Names, d \in Descriptions :
        /\ FindByFqdn(n) = None
        /\ Enter(r, "create", None, NewFqdn(n, d), None, Free(Named(n), None))
    /\ UNCHANGED <<fqdnStore, fqdnClash>>

\* A write that finds its name taken, though it was free when it was checked.
Note(i, u, free) == fqdnClash' = (fqdnClash \/ (free /\ ~Free(u.fqdn, i)))

\* Mutant: what is stored is not validated.
FqdnCreatedAsGiven(r) ==
    /\ Waits(r, "create")
    /\ LET c == fqdnCalls[r] IN
        \E i \in FqdnIds \ Range(fqdnOrder) :
            CreateRow(i, c.rec) /\ Note(i, c.rec, c.free)
    /\ Leave(r)

\* Fqdn.create validates after the look-up; randomUUID draws a new id.
FqdnCreated(r) ==
    /\ Waits(r, "create")
    /\ LET c == fqdnCalls[r] IN
        IF ~(ValidFqdn(c.rec.fqdn) /\ ValidDescription(c.rec.description))
        THEN UNCHANGED <<fqdnStore, fqdnClash>>
        ELSE \E i \in FqdnIds \ Range(fqdnOrder) :
                CreateRow(i, c.rec) /\ Note(i, c.rec, c.free)
    /\ Leave(r)

\* Without a new name the record that was read is written with the next step.
UpdateFqdn(r) ==
    /\ Waits(r, "idle")
    /\ \E i \in FqdnIds, n \in Names \cup {None}, d \in Descriptions :
        /\ Live(i)
        /\ LET u == [fqdns[i] EXCEPT !.description = d] IN
           IF n # None => Named(n) = u.fqdn
           THEN ValidDescription(d) /\ Enter(r, "write", i, u, None, Free(u.fqdn, i))
           ELSE Enter(r, "rename", i, u, n, TRUE)
    /\ UNCHANGED <<fqdnStore, fqdnClash>>

\* The look-up of the new name; then the entity is updated and validated.
FqdnRenamed(r) ==
    /\ Waits(r, "rename")
    /\ LET c == fqdnCalls[r]
           u == Renamed(c.rec, c.want)
       IN  IF FindByFqdn(c.want) = None /\ ValidFqdn(u.fqdn) /\ ValidDescription(u.description)
           THEN Enter(r, "write", c.id, u, None, Free(u.fqdn, c.id))
           ELSE Leave(r)
    /\ UNCHANGED <<fqdnStore, fqdnClash>>

UpdateFqdnStatus(r) ==
    /\ Waits(r, "idle")
    /\ \E i \in FqdnIds : /\ Live(i)
                          /\ \E u \in {Active(fqdns[i]), Inactive(fqdns[i])} :
                                Enter(r, "write", i, u, None, Free(u.fqdn, i))
    /\ UNCHANGED <<fqdnStore, fqdnClash>>

FqdnWritten(r) ==
    /\ Waits(r, "write")
    /\ LET c == fqdnCalls[r] IN
        /\ UpdateRow(c.id, c.rec)
        /\ IF Live(c.id) THEN Note(c.id, c.rec, c.free) ELSE UNCHANGED fqdnClash
    /\ Leave(r)

DeleteFqdn(r) ==
    /\ Waits(r, "idle")
    /\ \E i \in FqdnIds : Live(i) /\ Enter(r, "delete", i, None, None, TRUE)
    /\ UNCHANGED <<fqdnStore, fqdnClash>>

FqdnDeleted(r) ==
    /\ Waits(r, "delete")
    /\ DeleteRow(fqdnCalls[r].id)
    /\ Leave(r) /\ UNCHANGED fqdnClash

FqdnNext ==
    \E r \in FqdnRequests :
        \/ CreateFqdn(r) \/ FqdnCreated(r)
        \/ UpdateFqdn(r) \/ FqdnRenamed(r) \/ UpdateFqdnStatus(r) \/ FqdnWritten(r)
        \/ DeleteFqdn(r) \/ FqdnDeleted(r)

FqdnSpec == FqdnInit /\ [][FqdnNext]_fqdnVars

-----------------------------------------------------------------------------
(***************************************************************************)
(* Properties.                                                             *)
(***************************************************************************)
\* A record in normal form, with a name and a description of legal length.
Legal(u) ==
    u \in Fqdn /\ Named(u.fqdn) = u.fqdn /\ ValidFqdn(u.fqdn) /\ ValidDescription(u.description)

\* Types; what is stored is legal however it came there, stale writes included;
\* and every FQDN has been created.
FqdnTypeOK ==
    /\ fqdns \in [FqdnIds -> Fqdn \cup {None}]
    /\ fqdnToIdMap \in [Names -> FqdnIds \cup {None}]
    /\ fqdnOrder \in Seq(FqdnIds)
    /\ fqdnCalls \in [FqdnRequests -> Call]
    /\ fqdnClash \in BOOLEAN
    /\ \A i \in FqdnIds : Live(i) =>
          Legal(fqdns[i]) /\ i \in Range(fqdnOrder)

\* An entry of the index leads to an FQDN that exists and has that name,
\* whatever stale records were written and whoever was deleted meanwhile.
IndexLeads ==
    \A n \in Names : fqdnToIdMap[n] # None => HasName(fqdnToIdMap[n], n)

Indexed == \A i \in FqdnIds : Live(i) => fqdnToIdMap[fqdns[i].fqdn] = i

\* Two FQDNs share a name, or one cannot be found by its name, only once some
\* request wrote a name that had been free when it was checked and was taken by
\* the time it wrote: the checks of create and update fail in no other way.
OnlyOvertakenClash == Indexed \/ fqdnClash

\* A deleted FQDN never comes back: a status change or an update that read it
\* before the deletion does not restore it.
DeletedFqdnStays ==
    [][\A i \in Range(fqdnOrder) : ~Live(i) => ~Live(i)']_fqdnVars
=============================================================================
