------------------------------ MODULE Console ------------------------------
(***************************************************************************)
(* The parts of the console that are joined by no call: the sessions, the  *)
(* API tokens, the registries of FQDNs and customers, the pages in which   *)
(* the registries are listed, and the configuration WAF engines fetch.     *)
(*                                                                         *)
(* Their modules share no variable.  Whatever one of them does is the same *)
(* when the others stand still, so "focus" picks the one that moves, once, *)
(* in the initial state: their states add up instead of multiplying.       *)
(***************************************************************************)
EXTENDS FqdnRegistry, CustomerRegistry, ApiTokens, Sessions, SequencesExt

CONSTANTS
    Parts,      \* the parts that are given the focus
    Limits      \* page sizes that are asked for

VARIABLES
    focus,
    engineFqdns, engineFqdnOrder,           \* EngineModule's own FqdnRepository
    engineCustomers, engineCustomerOrder    \* and its own CustomerRepository

\* The module of the engine provides the classes again, and so gets instances
\* of its own, which no handler of the management API writes.
EF == INSTANCE FqdnRegistry WITH fqdns <- engineFqdns, fqdnOrder <- engineFqdnOrder
EC == INSTANCE CustomerRegistry WITH
        customers <- engineCustomers, customerOrder <- engineCustomerOrder

engineStore == <<engineFqdns, engineFqdnOrder, engineCustomers, engineCustomerOrder>>

vars == <<focus, fqdnVars, customerVars, tokenVars, sessionVars, engineStore>>

-----------------------------------------------------------------------------
(***************************************************************************)
(* Lists in pages, and the configuration.                                  *)
(***************************************************************************)
\* Mutant: the first page is number zero.
PageFromZero(l, page, limit) == SubSeq(l, page * limit + 1, Min({(page + 1) * limit, Len(l)}))

\* slice(offset, offset + limit)
Page(l, page, limit) ==
    SubSeq(l, (page - 1) * limit + 1, Min({page * limit, Len(l)}))

LegalPage(page, limit) == page >= 1 /\ limit \in 1 .. 100

\* Other requests are refused.
ASSUME LimitsAssumption == \A limit \in Limits : LegalPage(1, limit)

FindAllFqdns(statuses, page, limit) == Page(FqdnList(Names, statuses), page, limit)
FindAllCustomers(statuses, page, limit) ==
    Page(CustomerList(Addresses, statuses), page, limit)

MaxFetchLimit == 10000

\* IpAllowListRepository is a stub without entries.
FindAllIpAllowLists == << >>

EngineConfig(f, i, c) == [fqdns |-> f, ipAllowLists |-> i, customers |-> c]

\* Of all three the ids, which stand for the entities.
GetEngineConfig ==
    EngineConfig(Page(EF!FqdnList(Names, {"ACTIVE"}), 1, MaxFetchLimit),
                 FindAllIpAllowLists,
                 Page(EC!CustomerList(Addresses, {"ACTIVE"}), 1, MaxFetchLimit))

\* The rows of the answer.
ToFqdnConfig(i) ==
    [id |-> i, fqdn |-> engineFqdns[i].fqdn, status |-> engineFqdns[i].status]
ToCustomerConfig(i) ==
    [id |-> i, name |-> engineCustomers[i].details.name,
     status |-> engineCustomers[i].status]
ToResponseDto(e) ==
    [fqdns |-> [k \in DOMAIN e.fqdns |-> ToFqdnConfig(e.fqdns[k])],
     ipAllowLists |-> e.ipAllowLists,
     customers |-> [k \in DOMAIN e.customers |-> ToCustomerConfig(e.customers[k])]]
GetConfig == ToResponseDto(GetEngineConfig)

-----------------------------------------------------------------------------
Init ==
    /\ focus \in Parts
    /\ FqdnInit /\ CustomerInit /\ TokenInit /\ SessionInit
    /\ engineFqdns = fqdns /\ engineFqdnOrder = << >>
    /\ engineCustomers = customers /\ engineCustomerOrder = << >>

FqdnMoves ==
    /\ focus = "fqdns" /\ FqdnNext
    /\ UNCHANGED <<focus, customerVars, tokenVars, sessionVars, engineStore>>
CustomerMoves ==
    /\ focus = "customers" /\ CustomerNext
    /\ UNCHANGED <<focus, fqdnVars, tokenVars, sessionVars, engineStore>>
TokenMoves ==
    /\ focus = "tokens" /\ TokenNext
    /\ UNCHANGED <<focus, fqdnVars, customerVars, sessionVars, engineStore>>
SessionMoves ==
    /\ focus = "sessions" /\ SessionNext
    /\ UNCHANGED <<focus, fqdnVars, customerVars, tokenVars, engineStore>>

Next == FqdnMoves \/ CustomerMoves \/ TokenMoves \/ SessionMoves

Spec == Init /\ [][Next]_vars

-----------------------------------------------------------------------------
(***************************************************************************)
(* Properties, beside those that the modules of the parts state.           *)
(***************************************************************************)
\* The entries of the pages are those of the list: entry j of page p is entry
\* (p - 1) * limit + j of the list, and every entry of the list is on its page.
Tiles(l, limit, FindAll(_)) ==
    LET PageOf(k) == (k - 1) \div limit + 1
        Above(p) == (p - 1) * limit
    IN  \A p \in 1 .. Len(l) + 1 : LET page == FindAll(p) IN
            /\ \A j \in DOMAIN page :
                  j <= limit /\ Above(p) + j \in DOMAIN l /\ page[j] = l[Above(p) + j]
            /\ \A k \in DOMAIN l : PageOf(k) = p => k - Above(p) \in DOMAIN page

\* Of the given ids those that fit, each of them once, and nothing else.
ShowsEach(l, ids, Fits(_)) ==
    /\ \A k \in DOMAIN l : l[k] \in ids /\ Fits(l[k])
    /\ \A i \in ids : Fits(i) => \E k \in DOMAIN l : l[k] = i
    /\ \A j, k \in DOMAIN l : l[j] = l[k] => j = k

\* Who turns the pages of a list sees everything that fits the filter, whatever
\* was created, changed and deleted before, and nothing twice: no seam of two
\* pages repeats an entry or leaves one out, whatever the filter and the limit.
PagesTileLists ==
    \A statuses \in {{"ACTIVE"}, {"INACTIVE"}, {"ACTIVE", "INACTIVE"}} :
        LET fqdnList == FqdnList(Names, statuses)
            customerList == CustomerList(Addresses, statuses)
            FqdnAsked(i) == FqdnFits(i, Names, statuses)
            CustomerAsked(i) == CustomerFits(i, Addresses, statuses)
        IN  /\ ShowsEach(fqdnList, FqdnIds, FqdnAsked)
            /\ ShowsEach(customerList, CustomerIds, CustomerAsked)
            /\ \A limit \in Limits :
                LET FqdnPage(p) == FindAllFqdns(statuses, p, limit)
                    CustomerPage(p) == FindAllCustomers(statuses, p, limit)
                IN  /\ Tiles(fqdnList, limit, FqdnPage)
                    /\ Tiles(customerList, limit, CustomerPage)

\* What is deleted from a registry stays deleted, even when a request that read it
\* before writes it afterwards.
DeletedStays == DeletedFqdnStays /\ DeletedCustomerStays

\* docs/detailed-design/MWD-100_waf-engine-config-delivery/README.md: engines
\* fetch the latest configuration, which the management API changes.
EngineIsTold ==
    /\ \A i \in FqdnIds : Live(i) /\ fqdns[i].status = "ACTIVE" =>
          \E row \in Range(GetConfig.fqdns) : row.id = i /\ row.fqdn = fqdns[i].fqdn
    /\ \A i \in CustomerIds : Exists(i) /\ customers[i].status = "ACTIVE" =>
          \E row \in Range(GetConfig.customers) : row.id = i
=============================================================================
