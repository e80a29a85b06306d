-------------------------- MODULE CustomerRegistry --------------------------
(***************************************************************************)
(* CustomerRepository, a map of customers in the order of their creation   *)
(* without an index, under the use cases of CustomerController.  As with   *)
(* FQDNs, a step is the code between two awaits, a request keeps what it   *)
(* read, and requests refused before they wait are no step.                *)
(*                                                                         *)
(* Addresses keep their case and are compared without it.  Of name, phone, *)
(* company and address only the lengths are kept.                          *)
(***************************************************************************)
EXTENDS Common, Naturals, Sequences, FiniteSetsExt, Functions

CONSTANTS
    CustomerIds,        \* bound: ids that are ever drawn
    Addresses,          \* e-mail addresses as written, blanks trimmed
    LowerCase,          \* [Addresses -> Addresses], toLowerCase
    WellFormed,         \* addresses of the form a@b.c
    Details,            \* lengths of name, phone, company and address
    CustomerRequests    \* requests that wait at one time

ASSUME LowerCaseAssumption == LowerCase \in [Addresses -> Addresses]
ASSUME DetailsAssumption ==
    Details \subseteq [name : Nat, phone : Nat, company : Nat, address : Nat]
ASSUME CustomerNoneAssumption == None \notin CustomerIds /\ None \notin Addresses

CustomerStatus == {"ACTIVE", "INACTIVE"}
Customer == [email : Addresses, details : Details, status : CustomerStatus]

ASSUME CustomerRecordAssumption == None \notin Customer

\* What a request waits for: "readdress" is the look-up of a new address,
\* "edit" and "toggle" the call of update() by the two use cases that make it.
CustomerStage == {"idle", "create", "readdress", "edit", "toggle", "delete"}

VARIABLES
    customers,          \* [CustomerIds -> Customer or None]
    customerOrder,      \* ids in the order of creation, deleted ones included
    customerCalls,      \* what each request waits for, and what it has read
    customerClash       \* history: an address was taken between check and write

customerStore == <<customers, customerOrder>>
customerVars == <<customerStore, customerCalls, customerClash>>

\* "free": nobody else had the address when it was read or looked up.
\* "stale": somebody wrote the customer since this request read it.
CustomerCall ==
    [at : CustomerStage, id : CustomerIds \cup {None}, rec : Customer \cup {None},
     want : Addresses \cup {None}, free : BOOLEAN, stale : BOOLEAN]
NoCall == [at |-> "idle", id |-> None, rec |-> None, want |-> None,
           free |-> TRUE, stale |-> FALSE]

-----------------------------------------------------------------------------
(***************************************************************************)
(* The entity and the repository.                                          *)
(***************************************************************************)
Sound(u) ==
    /\ u.email \in WellFormed
    /\ u.details.name \in 1 .. 100 /\ u.details.phone <= 20
    /\ u.details.company <= 100 /\ u.details.address <= 200

NewCustomer(e, d) == [email |-> e, details |-> d, status |-> "ACTIVE"]

\* Mutant: an edited customer is active again.
EditedAnew(u, d) == [u EXCEPT !.details = d, !.status = "ACTIVE"]
Edited(u, d) == [u EXCEPT !.details = d]
Toggled(u, s) == [u EXCEPT !.status = s]

Exists(i) == customers[i] # None
HasAddress(i, e) == Exists(i) /\ LowerCase[customers[i].email] = LowerCase[e]

\* A scan in the order of the map.
FindByEmail(e) ==
    LET found == {k \in DOMAIN customerOrder : HasAddress(customerOrder[k], e)}
    IN  IF found = {} THEN None ELSE customerOrder[Min(found)]

\* findAll before it takes a page; the texts searched for pick the addresses.
CustomerFits(i, emails, statuses) ==
    Exists(i) /\ customers[i].email \in emails /\ customers[i].status \in statuses
CustomerList(emails, statuses) ==
    AtPositions(customerOrder, {k \in DOMAIN customerOrder :
                                    CustomerFits(customerOrder[k], emails, statuses)})

AddCustomer(i, u) ==
    /\ customers' = [customers EXCEPT ![i] = u]
    /\ customerOrder' = Append(customerOrder, i)

\* Mutant: a customer that is gone is stored again.
StoreCustomer(i, u) ==
    /\ customers' = [customers EXCEPT ![i] = u]
    /\ UNCHANGED customerOrder

\* update() throws for a customer deleted meanwhile.
PutCustomer(i, u) ==
    /\ customers' = IF Exists(i) THEN [customers EXCEPT ![i] = u] ELSE customers
    /\ UNCHANGED customerOrder

RemoveCustomer(i) ==
    /\ customers' = [customers EXCEPT ![i] = None]
    /\ UNCHANGED customerOrder

-----------------------------------------------------------------------------
(***************************************************************************)
(* The use cases.                                                          *)
(***************************************************************************)
Unshared(e, i) == \A j \in CustomerIds \ {i} : ~HasAddress(j, e)

Begin(r, w, i, u, e, free, stale) ==
    customerCalls' = [customerCalls EXCEPT ![r] =
        [at |-> w, id |-> i, rec |-> u, want |-> e, free |-> free, stale |-> stale]]
Finish(r) == customerCalls' = [customerCalls EXCEPT ![r] = NoCall]
In(r, w) == customerCalls[r].at = w

CustomerInit ==
    /\ customers = [i \in CustomerIds |-> None]
    /\ customerOrder = << >>
    /\ customerCalls = [r \in CustomerRequests |-> NoCall]
    /\ customerClash = FALSE

CreateCustomer(r) ==
    /\ In(r, "idle")
    /\ \E e \in Addresses, d \in Details :
        /\ FindByEmail(e) = None
        /\ Begin(r, "create", None, NewCustomer(e, d), None, Unshared(e, None), FALSE)
    /\ UNCHANGED <<customerStore, customerClash>>

\* An address free when it was checked and taken when it is written.
NoteShare(i, u, free) == customerClash' = (customerClash \/ (free /\ ~Unshared(u.email, i)))

\* Mutant: a customer is stored as given.
AnyCustomerCreated(r) ==
    /\ In(r, "create")
    /\ LET c == customerCalls[r] IN
        \E i \in CustomerIds \ Range(customerOrder) :
            AddCustomer(i, c.rec) /\ NoteShare(i, c.rec, c.free)
    /\ Finish(r)

\* Customer.create validates after the look-up; randomUUID draws a new id.
CustomerCreated(r) ==
    /\ In(r, "create")
    /\ LET c == customerCalls[r] IN
        IF ~Sound(c.rec) THEN UNCHANGED <<customerStore, customerClash>>
        ELSE \E i \in CustomerIds \ Range(customerOrder) :
                AddCustomer(i, c.rec) /\ NoteShare(i, c.rec, c.free)
    /\ Finish(r)

\* A new address, one that differs in case included, is looked up first.
UpdateCustomer(r) ==
    /\ In(r, "idle")
    /\ \E i \in CustomerIds, e \in Addresses, d \in Details :
        /\ Exists(i)
        /\ LET u == Edited(customers[i], d) IN
           IF e = u.email THEN Sound(u) /\ Begin(r, "edit", i, u, None, Unshared(e, i), FALSE)
                          ELSE Begin(r, "readdress", i, u, e, TRUE, FALSE)
    /\ UNCHANGED <<customerStore, customerClash>>

\* Mutant: the owner of the new address is not compared.
ReaddressedUnchecked(r) ==
    /\ In(r, "readdress")
    /\ LET c == customerCalls[r]
           u == [c.rec EXCEPT !.email = c.want]
       IN  IF Sound(u) THEN Begin(r, "edit", c.id, u, None, Unshared(u.email, c.id), c.stale)
                       ELSE Finish(r)
    /\ UNCHANGED <<customerStore, customerClash>>

CustomerReaddressed(r) ==
    /\ In(r, "readdress")
    /\ LET c == customerCalls[r]
           u == [c.rec EXCEPT !.email = c.want]
       IN  IF FindByEmail(c.want) \in {None, c.id} /\ Sound(u)
           THEN Begin(r, "edit", c.id, u, None, Unshared(u.email, c.id), c.stale)
           ELSE Finish(r)
    /\ UNCHANGED <<customerStore, customerClash>>

ToggleCustomerStatus(r) ==
    /\ In(r, "idle")
    /\ \E i \in CustomerIds, s \in CustomerStatus :
        /\ Exists(i)
        /\ Begin(r, "toggle", i, Toggled(customers[i], s), None,
                 Unshared(customers[i].email, i), FALSE)
    /\ UNCHANGED <<customerStore, customerClash>>

\* The other requests that read this customer hold an old record from now on.
CustomerWritten(r) ==
    /\ In(r, "edit") \/ In(r, "toggle")
    /\ LET c == customerCalls[r] IN
        /\ PutCustomer(c.id, c.rec)
        /\ IF Exists(c.id) THEN NoteShare(c.id, c.rec, c.free) ELSE UNCHANGED customerClash
        /\ customerCalls' = [s \in CustomerRequests |->
              IF s = r THEN NoCall
              ELSE [customerCalls[s] EXCEPT !.stale = @ \/ customerCalls[s].id = c.id]]

DeleteCustomer(r) ==
    /\ In(r, "idle")
    /\ \E i \in CustomerIds :
        Exists(i) /\ Begin(r, "delete", i, None, None, TRUE, FALSE)
    /\ UNCHANGED <<customerStore, customerClash>>

\* delete() throws for a customer deleted meanwhile.
CustomerDeleted(r) ==
    /\ In(r, "delete")
    /\ RemoveCustomer(customerCalls[r].id)
    /\ Finish(r) /\ UNCHANGED customerClash

CustomerNext ==
    \E r \in CustomerRequests :
        \/ CreateCustomer(r) \/ CustomerCreated(r)
        \/ UpdateCustomer(r) \/ CustomerReaddressed(r)
        \/ ToggleCustomerStatus(r) \/ CustomerWritten(r)
        \/ DeleteCustomer(r) \/ CustomerDeleted(r)

CustomerSpec == CustomerInit /\ [][CustomerNext]_customerVars

-----------------------------------------------------------------------------
(***************************************************************************)
(* Properties.                                                             *)
(***************************************************************************)
\* Types; what is stored is sound and has been created, and what a request is about
\* to write back is sound, however old the record it read.
CustomerTypeOK ==
    /\ customers \in [CustomerIds -> Customer \cup {None}]
    /\ customerOrder \in Seq(CustomerIds)
    /\ customerCalls \in [CustomerRequests -> CustomerCall]
    /\ customerClash \in BOOLEAN
    /\ \A i \in CustomerIds : Exists(i) => Sound(customers[i]) /\ i \in Range(customerOrder)
    /\ \A r \in CustomerRequests :
        customerCalls[r].at \in {"edit", "toggle"} => Sound(customerCalls[r].rec)

Unique == \A i \in CustomerIds : Exists(i) => Unshared(customers[i].email, i)

\* Two customers share an address, in whatever case it is written, only once a
\* request wrote an address that had been free when it was checked and was taken
\* by the time it wrote: the scans of create and update fail in no other way.
OnlyOvertakenShare == Unique \/ customerClash

\* A deleted customer never comes back, not even by an update or a change of
\* status that read it before.
DeletedCustomerStays ==
    [][\A i \in Range(customerOrder) : ~Exists(i) => ~Exists(i)']_customerVars

\* A customer is activated or deactivated by somebody who asked for it, except
\* that an edit writes back the status it read before somebody else wrote.
OnlyStaleEditsToggle ==
    [][\A i \in CustomerIds :
          Exists(i) /\ Exists(i)' /\ customers'[i].status # customers[i].status =>
              \E r \in CustomerRequests :
                  LET c == customerCalls[r] IN
                  /\ c.id = i
                  /\ c.at = "toggle" \/ (c.at = "edit" /\ c.stale)
                  /\ c.rec.status = customers'[i].status]_customerVars
=============================================================================
