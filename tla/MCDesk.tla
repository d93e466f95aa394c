----------------------------------- MODULE MCDesk -----------------------------------
(***************************************************************************)
(* A small instance of Customer Support's tickets, the pages of the ticket *)
(* queue, admission contracts, and billing notifications, once with        *)
(* crashes and Telegram links that change.                                 *)
(*                                                                         *)
(* A behaviour picks one component and lets the others stand still: the    *)
(* reachable states are the sum of those of the components, not their      *)
(* product. Nothing is lost by it: each module already has the steps of    *)
(* others that touch its rows.                                             *)
(***************************************************************************)
EXTENDS AdmissionContracts, TLC

CONSTANTS
    Requests, Operators, Tickets, Priorities, Answer, Resolve, Second,
    SecondsPerMinute, MaxTime, MaxMessages, MaxTicket, PageSize, MaxQueueTime, People,
    TwoPeople, Chats, MaxAttempts, MaxSends, None, request1, request2,
    staff1, ticket1, parent1, parent2, officer1, officer2, c1, c2

VARIABLES
    part,             \* the component a behaviour is about
    \* Desk
    ticket, clock, request, touched,
    \* Pages
    place, pagesClock, cursor, walking, listed, steady,
    \* Notices
    payable, household, chat, delivery, job, messages,
    \* Moves
    movesPayable, movesHousehold, movesChat, movesDelivery, movesJob,
    movesMessages

ticketsVars ==
    <<ticket, clock, request, touched>>
pagesVars ==
    <<place, pagesClock, cursor, walking, listed, steady>>
noticesVars ==
    <<payable, household, chat, delivery, job, messages>>
movesVars ==
    <<movesPayable, movesHousehold, movesChat, movesDelivery, movesJob,
      movesMessages>>

MCPriorities == {"normal", "urgent"}
MCAnswer == [p \in MCPriorities |-> IF p = "normal" THEN 4 ELSE 1]
MCResolve == [p \in MCPriorities |-> IF p = "normal" THEN 4 ELSE 2]
MCSwap(a, b) == a :> b @@ b :> a
\* Values that no component uses together are exchanged together; the first is the identity.
MCSwaps ==
    {MCSwap(request1, request1),
     MCSwap(request1, request2) @@ MCSwap(officer1, officer2),
     MCSwap(parent1, parent2) @@ MCSwap(c1, c2)}
MCKeep(f) == [v \in UNION {DOMAIN g : g \in MCSwaps} |-> IF v \in DOMAIN f THEN f[v] ELSE v]
MCSymmetry == {MCKeep(f) : f \in MCSwaps}

Desk == INSTANCE SupportTickets WITH
    Staff <- Operators
Pages == INSTANCE TicketQueue WITH
    MaxTime <- MaxQueueTime, clock <- pagesClock
Notices == INSTANCE BillingNotifications WITH
    Moves <- FALSE
Moves == INSTANCE BillingNotifications WITH
    People <- TwoPeople, Moves <- TRUE, payable <- movesPayable, household <-
    movesHousehold, chat <- movesChat, delivery <- movesDelivery, job <-
    movesJob, messages <- movesMessages

MCInit ==
    /\ part \in {"contracts", "tickets", "pages", "notices", "moves"}
    /\ Init /\ Desk!Init /\ Pages!Init /\ Notices!Init /\ Moves!Init
    /\ part # "notices" => household = {} /\ \A p \in People : chat[p] = Notices!NoChat
    /\ part # "moves" => movesHousehold = {} /\ \A p \in TwoPeople : movesChat[p] = Moves!NoChat

\* One component moves, all the others stand still.
MCNext ==
    \/ /\ part = "contracts" /\ Next
       /\ UNCHANGED <<part, ticketsVars, pagesVars, noticesVars, movesVars>>
    \/ /\ part = "tickets" /\ Desk!Next
       /\ UNCHANGED <<part, vars, pagesVars, noticesVars, movesVars>>
    \/ /\ part = "pages" /\ Pages!Next
       /\ UNCHANGED <<part, vars, ticketsVars, noticesVars, movesVars>>
    \/ /\ part = "notices" /\ Notices!Next
       /\ UNCHANGED <<part, vars, ticketsVars, pagesVars, movesVars>>
    \/ /\ part = "moves" /\ Moves!Next
       /\ UNCHANGED <<part, vars, ticketsVars, pagesVars, noticesVars>>

MCvars == <<part, vars, ticketsVars, pagesVars, noticesVars, movesVars>>
MCSpec == MCInit /\ [][MCNext]_MCvars

ASSUME MCAssumption ==
    /\ ContractsAssumption /\ Desk!TicketsAssumption /\ Pages!QueueAssumption
    /\ Notices!NotificationsAssumption /\ Moves!NotificationsAssumption

\* The deadline of a ticket counts from its creation, with the waits to half a second each;
\* asked at the same instant, the filter of the list and the page of the ticket differ for
\* less than a minute before due_soon and by less than a second at the deadline; the clock
\* pauses only after an answer. Who walks the queue page by page sees every ticket that
\* keeps still exactly once.
TicketsSound ==
    /\ Desk!TypeOK
    /\ Desk!DeadlineCountsFromCreation
    /\ Desk!FilterIsCloseToThePage
    /\ Desk!PauseFollowsAnAnswer
    /\ Pages!TypeOK /\ Pages!SteadyTicketsAreShownOnce

\* What was decided stands: a resolved ticket never moves again and each reply is counted,
\* though a reply and a resolution read the ticket at the same time; an accepted contract is
\* never reopened, and a replaced link opens no form ever again.
DeskDecisionsStand ==
    /\ Desk!ResolvedStaysResolved /\ Desk!EachReplyCounts
    /\ AcceptedIsFinal /\ ReplacedLinkIsDead

\* Without a crash a Telegram user is told of a stage once however often it is announced,
\* and what is recorded as sent was received though links and households change.
NoticesSound ==
    /\ Notices!TypeOK /\ Moves!TypeOK
    /\ Notices!OneMessageEach
    /\ Moves!SentWasReceived
==============================================================================
