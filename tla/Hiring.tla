---- MODULE Hiring ----
(***************************************************************************)
(* Opportunities and applications: src/opportunities/                      *)
(* opportunities.service.ts and src/applications/applications.service.ts.  *)
(*                                                                         *)
(* A project is the profile of the caller's wallet, so project_id is an    *)
(* address here.  There is one application for an opportunity and a        *)
(* builder (scripts/018), and it goes with its opportunity (ON DELETE      *)
(* CASCADE).  Titles, budgets, skills and messages are left out.           *)
(***************************************************************************)
EXTENDS Accounts

CONSTANT MaxOpportunities    \* bound: opportunities ever created

VARIABLES opportunities,     \* by id
          applications       \* by opportunity id and builder

hiringVars == <<opportunities, applications>>

Opportunities == 1..MaxOpportunities

OpportunityStatuses == {"open", "closed", "filled"}

ApplicationStatuses == {"pending", "accepted", "rejected"}

Opportunity == [status : OpportunityStatuses, project : Addresses]

ASSUME HiringAssumption ==
    /\ MaxOpportunities \in Nat
    /\ Nothing \notin ApplicationStatuses \cup Opportunity

Removed == [status |-> "removed"]

HiringInit ==
    /\ opportunities = [o \in Opportunities |-> Nothing]
    /\ applications = [o \in Opportunities |-> [b \in Users |-> Nothing]]

Listed(o) == opportunities[o] \notin {Nothing, Removed}

\* requireOwner and assertOpportunityOwner
Owns(u, o) == Listed(o) /\ IsProject(u) /\ opportunities[o].project = walletForUserId(u)

isAllowedStatusTransition(from, to) == from = "open" /\ to \in {"closed", "filled"}

\* What GET /opportunities finds; the other filters only narrow it down.
discover == {o \in Opportunities : Listed(o) /\ opportunities[o].status = "open"}

(***************************************************************************)
(* Opportunities.                                                          *)
(***************************************************************************)
OpportunityCreate(r, u) ==
    /\ IsProject(u)
    /\ Begin(r, [pc |-> "opportunity_insert", project |-> walletForUserId(u)])
    /\ UNCHANGED <<hiringVars, accountVars>>

OpportunityInsert(r) ==
    /\ At(r, "opportunity_insert")
    /\ \E o \in Opportunities :
         /\ opportunities[o] = Nothing
         /\ \A other \in 1..(o - 1) : opportunities[other] # Nothing
         /\ opportunities' = [opportunities EXCEPT ![o] =
                                [status |-> "open", project |-> call[r].project]]
    /\ Done(r)
    /\ UNCHANGED <<applications, accountVars>>

\* update with a status; one with other fields only changes no status.
OpportunityUpdateRead(r, u, o, to) ==
    /\ Owns(u, o)
    /\ isAllowedStatusTransition(opportunities[o].status, to)
    /\ Begin(r, [pc |-> "opportunity_write", id |-> o, status |-> to])
    /\ UNCHANGED <<hiringVars, accountVars>>

OpportunityUpdateWrite(r) ==
    /\ At(r, "opportunity_write")
    /\ opportunities' = IF Listed(call[r].id)
                        THEN [opportunities EXCEPT ![call[r].id].status = call[r].status]
                        ELSE opportunities
    /\ Done(r)
    /\ UNCHANGED <<applications, accountVars>>

OpportunityRemoveRead(r, u, o) ==
    /\ Owns(u, o)
    /\ Begin(r, [pc |-> "opportunity_delete", id |-> o])
    /\ UNCHANGED <<hiringVars, accountVars>>

OpportunityDelete(r) ==
    /\ At(r, "opportunity_delete")
    /\ opportunities' = [opportunities EXCEPT ![call[r].id] = Removed]
    /\ applications' = [applications EXCEPT ![call[r].id] = [b \in Users |-> Nothing]]
    /\ Done(r)
    /\ UNCHANGED accountVars

(***************************************************************************)
(* Applications.                                                           *)
(***************************************************************************)
ApplyRead(r, u, o) ==
    /\ callerProfile(u) # Nothing
    /\ Listed(o)
    /\ opportunities[o].project # walletForUserId(u)
    /\ opportunities[o].status = "open"
    /\ Begin(r, [pc |-> "application_insert", id |-> o, builder |-> u])
    /\ UNCHANGED <<hiringVars, accountVars>>

\* A second application and one for a removed opportunity violate a key.
ApplyInsert(r) ==
    /\ At(r, "application_insert")
    /\ LET o == call[r].id
           b == call[r].builder
       IN applications' = IF Listed(o) /\ applications[o][b] = Nothing
                          THEN [applications EXCEPT ![o][b] = "pending"]
                          ELSE applications
    /\ Done(r)
    /\ UNCHANGED <<opportunities, accountVars>>

\* The status of the opportunity is not looked at.
DecideRead(r, u, o, b, status) ==
    /\ applications[o][b] = "pending"
    /\ Owns(u, o)
    /\ Begin(r, [pc |-> "application_write", id |-> o, builder |-> b, status |-> status])
    /\ UNCHANGED <<hiringVars, accountVars>>

DecideWrite(r) ==
    /\ At(r, "application_write")
    /\ LET o == call[r].id
           b == call[r].builder
           found == applications[o][b] # Nothing
       IN /\ applications' = IF found
                             THEN [applications EXCEPT ![o][b] = call[r].status]
                             ELSE applications
          /\ IF found /\ call[r].status = "accepted"
             THEN Await(r, [pc |-> "accept_fill", id |-> o, builder |-> b])
             ELSE Done(r)
    /\ UNCHANGED <<opportunities, accountVars>>

\* A bug to catch: the opportunity stays as it was.
AcceptFillSkipped(r) ==
    /\ At(r, "accept_fill")
    /\ Await(r, [call[r] EXCEPT !.pc = "accept_reject"])
    /\ UNCHANGED <<hiringVars, accountVars>>

AcceptFill(r) ==
    /\ At(r, "accept_fill")
    /\ opportunities' = IF Listed(call[r].id)
                        THEN [opportunities EXCEPT ![call[r].id].status = "filled"]
                        ELSE opportunities
    /\ Await(r, [call[r] EXCEPT !.pc = "accept_reject"])
    /\ UNCHANGED <<applications, accountVars>>

\* A bug to catch: the other applications stay pending.
AcceptRejectOthersSkipped(r) ==
    /\ At(r, "accept_reject")
    /\ Done(r)
    /\ UNCHANGED <<hiringVars, accountVars>>

AcceptRejectOthers(r) ==
    /\ At(r, "accept_reject")
    /\ LET o == call[r].id
       IN applications' = [applications EXCEPT ![o] =
             [b \in Users |-> IF b # call[r].builder /\ applications[o][b] = "pending"
                              THEN "rejected" ELSE applications[o][b]]]
    /\ Done(r)
    /\ UNCHANGED <<opportunities, accountVars>>

HiringDies(r) == Dies(r) /\ UNCHANGED <<hiringVars, accountVars>>

OpportunitiesNext ==
    \E r \in Reqs :
      \/ \E u \in load.users :
           \/ OpportunityCreate(r, u)
           \/ \E o \in Opportunities :
                \/ \E to \in OpportunityStatuses : OpportunityUpdateRead(r, u, o, to)
                \/ OpportunityRemoveRead(r, u, o)
      \/ OpportunityInsert(r) \/ OpportunityUpdateWrite(r) \/ OpportunityDelete(r)

ApplicationsNext ==
    \E r \in Reqs :
      \/ \E u \in load.users, o \in Opportunities :
           \/ ApplyRead(r, u, o)
           \/ \E b \in load.users, status \in {"accepted", "rejected"} :
                DecideRead(r, u, o, b, status)
      \/ ApplyInsert(r) \/ DecideWrite(r) \/ AcceptFill(r) \/ AcceptRejectOthers(r)

ProfilesNext ==
    \E r \in Reqs :
      \/ \E u \in load.users : GetOrCreateRead(r, u) \/ UpdateProfileRead(r, u)
      \/ GetOrCreateInsert(r) \/ UpdateProfileWrite(r)

HiringNext ==
    \/ OpportunitiesNext
    \/ ApplicationsNext
    \/ ProfilesNext /\ UNCHANGED hiringVars
    \/ \E r \in Reqs : HiringDies(r)

(***************************************************************************)
(* Properties.                                                             *)
(***************************************************************************)
Hired(o) == {b \in Users : applications[o][b] = "accepted"}

\* When requests do not overlap, an opportunity hires one builder, and one
\* more for each updateStatus that failed before it had turned the others
\* down.  Nothing else keeps a second one out: updateStatus looks at the
\* application, never at the opportunity.
OneHire ==
    Serial => \A o \in Opportunities : Cardinality(Hired(o)) <= 1 + faults

\* However requests overlap, once they are over and none has failed an
\* opportunity that hired someone is not offered to other builders: no write
\* opens an opportunity again, and the accept closes it whatever it was.
HiredIsNotOffered ==
    (AllIdle /\ faults = 0) => \A o \in discover : Hired(o) = {}
====
