---------------------------- MODULE ReworkDispatch ----------------------------
(***************************************************************************)
(* The dispatcher of automatic rework: an expert sends a project back, the *)
(* request waits in the outbox, a qualified worker turns it into one       *)
(* command for the stage, or into a blocking finding.                      *)
(*                                                                         *)
(* Claim, handling and settlement are three transactions, and a worker may *)
(* die between any two; its event is then claimed again after the lease.   *)
(* The lease arithmetic is that of OutboxDelivery; here an event is held by *)
(* at most one live claim, and a claim whose lease ran out is a late one   *)
(* that still handles but can no longer settle.                            *)
(***************************************************************************)
EXTENDS Naturals, FiniteSets

CONSTANTS
    Worker, Request,
    Stage,        \* automatic stages; Blocked is the one that is not
    Blocked,
    MaxAttempts,  \* OutboxDeliveryPolicy.automation: attempts before dead letter
    MaxVersion,   \* bound on the project's row_version
    NoRow, NoHolder

VARIABLES
    project,    \* state and row_version of the project row
    requests,   \* [Request -> expert_rework_requests row or NoRow]
    event,      \* [Request -> its outbox event]
    dispatches, \* [Request -> automation_rework_dispatches row or NoRow]
    commands,   \* outbox events written for stage commands
    findings,   \* requests with a blocking finding
    qualified,  \* stages the worker's qualification covers
    holding     \* [Worker -> the request whose event it claimed, and its token]

reworkVars == <<project, requests, event, dispatches, commands, findings, qualified, holding>>

Target == Stage \cup {Blocked}

\* ExpertReworkRequestRow: the target and the row_version it was decided over.
RequestRow == [target : Target, version : Nat]

\* AutomationReworkDispatchRow.
DispatchRow == [status : {"STAGE_COMMAND_QUEUED", "BLOCKED"}, stage : Target]

ReworkInit ==
    /\ project = [state |-> "EXPERT_REVIEW", version |-> 1]
    /\ requests = [r \in Request |-> NoRow]
    /\ event = [r \in Request |-> [status |-> "none", attempts |-> 0, holder |-> NoHolder]]
    /\ dispatches = [r \in Request |-> NoRow]
    /\ commands = {}
    /\ findings = {}
    /\ qualified \in SUBSET Stage
    /\ holding = [w \in Worker |-> NoRow]

-----------------------------------------------------------------------------
\* request_rework: the request, the new state and the outbox event in one
\* transaction.
RequestRework(r, target) ==
    /\ requests[r] = NoRow
    /\ project.state = "EXPERT_REVIEW" /\ project.version < MaxVersion
    /\ requests' = [requests EXCEPT ![r] = [target |-> target, version |-> project.version]]
    /\ project' = [state |-> target, version |-> project.version + 1]
    /\ event' = [event EXCEPT ![r].status = "pending"]
    /\ UNCHANGED <<dispatches, commands, findings, qualified, holding>>

\* Any other command on the project moves its version; the rework ends in a
\* new expert review.
OtherCommand(state) ==
    /\ project.version < MaxVersion
    /\ state \in {project.state, "EXPERT_REVIEW"}
    /\ project' = [state |-> state, version |-> project.version + 1]
    /\ UNCHANGED <<requests, event, dispatches, commands, findings, qualified, holding>>
Exhausted(r) == event[r].attempts >= MaxAttempts

\* claim_next over the automation topic; an event that used up its attempts
\* is dead-lettered instead.
Claim(w, r) ==
    /\ holding[w] = NoRow
    /\ event[r].status = "pending"
    /\ IF Exhausted(r)
         THEN /\ event' = [event EXCEPT ![r].status = "dead"]
              /\ UNCHANGED holding
         ELSE /\ event' = [event EXCEPT ![r] = [status |-> "claimed",
                                attempts |-> event[r].attempts + 1, holder |-> w]]
              /\ holding' = [holding EXCEPT ![w] = [request |-> r, step |-> "claimed"]]
    /\ UNCHANGED <<project, requests, dispatches, commands, findings, qualified>>

\* The lease ends while its holder lives on.
LeaseEnds(r) ==
    /\ event[r].status = "claimed"
    /\ event' = [event EXCEPT ![r].status = "pending", ![r].holder = NoHolder]
    /\ UNCHANGED <<project, requests, dispatches, commands, findings, qualified, holding>>

\* _process_claim: the context the request was made in must still hold.
SameContext(r) == /\ project.state = requests[r].target
                  /\ project.version = requests[r].version + 1

Automatable(r) == requests[r].target \in qualified

\* The stored dispatch must reproduce: its command exists exactly if it was
\* queued (_require_dispatch_row_integrity).
DispatchIntegrity(r) == (dispatches[r].status = "STAGE_COMMAND_QUEUED")
                            <=> \E c \in commands : c.request = r

\* The first thing a handler reads: a dispatch that is already stored is only
\* checked against its command, and the event is acknowledged.
LookUp(w) ==
    LET r == holding[w].request IN
    /\ holding[w] # NoRow /\ holding[w].step = "claimed"
    /\ holding' = [holding EXCEPT ![w].step =
            IF dispatches[r] = NoRow THEN "looked"
            ELSE IF DispatchIntegrity(r) THEN "handled" ELSE "refused"]
    /\ UNCHANGED <<project, requests, event, dispatches, commands, findings, qualified>>
\* Mutant: the unique constraint is missing.
AlwaysInsertable(r) == TRUE

\* The table has one row per request: a second insert fails the transaction.
Insertable(r) == dispatches[r] = NoRow

\* The rest of _process_claim, with the project row locked: the dispatch and
\* its command or its finding, or an error.
Dispatch(w) ==
    LET r == holding[w].request
        command == [request |-> r, stage |-> requests[r].target,
                    version |-> project.version, by |-> w]
        done == SameContext(r) /\ Insertable(r)
    IN
    /\ holding[w] # NoRow /\ holding[w].step = "looked"
    /\ IF done
         THEN /\ dispatches' = [dispatches EXCEPT ![r] =
                    [status |-> IF Automatable(r) THEN "STAGE_COMMAND_QUEUED" ELSE "BLOCKED",
                     stage |-> requests[r].target]]
              /\ commands' = IF Automatable(r) THEN commands \cup {command} ELSE commands
              /\ findings' = IF Automatable(r) THEN findings ELSE findings \cup {r}
         ELSE UNCHANGED <<dispatches, commands, findings>>
    /\ holding' = [holding EXCEPT ![w].step =
            IF done THEN "handled" ELSE IF SameContext(r) THEN "failed" ELSE "refused"]
    /\ UNCHANGED <<project, requests, event, qualified>>

\* A failure that is not about the request: the handler's transaction rolls
\* back and the event is tried again.
Fail(w) ==
    /\ holding[w] # NoRow /\ holding[w].step \in {"claimed", "looked"}
    /\ holding' = [holding EXCEPT ![w].step = "failed"]
    /\ UNCHANGED <<project, requests, event, dispatches, commands, findings, qualified>>

SettledStatus(step, attempts) ==
    IF step = "handled" THEN "published"
    ELSE IF step = "refused" \/ attempts >= MaxAttempts THEN "dead"
    ELSE "pending"

\* _acknowledge or _reject, which only the holder of the claim may do.
Settle(w) ==
    LET r == holding[w].request IN
    /\ holding[w] # NoRow /\ holding[w].step \in {"handled", "refused", "failed"}
    /\ event' = IF event[r].holder = w
                  THEN [event EXCEPT ![r].holder = NoHolder,
                          ![r].status = SettledStatus(holding[w].step, event[r].attempts)]
                  ELSE event
    /\ holding' = [holding EXCEPT ![w] = NoRow]
    /\ UNCHANGED <<project, requests, dispatches, commands, findings, qualified>>

Crash(w) ==
    /\ holding[w] # NoRow
    /\ holding' = [holding EXCEPT ![w] = NoRow]
    /\ UNCHANGED <<project, requests, event, dispatches, commands, findings, qualified>>

\* A new qualification covers other stages.
Requalify(stages) ==
    /\ stages # qualified
    /\ qualified' = stages
    /\ UNCHANGED <<project, requests, event, dispatches, commands, findings, holding>>

ReworkNext ==
    \/ \E r \in Request, t \in Target : RequestRework(r, t)
    \/ \E s \in Target \cup {"EXPERT_REVIEW"} : OtherCommand(s)
    \/ \E w \in Worker, r \in Request : Claim(w, r)
    \/ \E r \in Request : LeaseEnds(r)
    \/ \E w \in Worker : LookUp(w) \/ Dispatch(w) \/ Fail(w) \/ Settle(w) \/ Crash(w)
    \/ \E stages \in SUBSET Stage : Requalify(stages)

ReworkSpec == ReworkInit /\ [][ReworkNext]_reworkVars

-----------------------------------------------------------------------------
ReworkTypeOK ==
    /\ \A r \in Request : event[r].attempts \in 0 .. MaxAttempts
    /\ requests \in [Request -> RequestRow \cup {NoRow}]
    /\ dispatches \in [Request -> DispatchRow \cup {NoRow}]
    /\ findings \subseteq Request
    /\ qualified \subseteq Stage

\* A request is dispatched at most once, as one command for its own stage and
\* over the project as the expert left it, or as one finding, and what the
\* first worker stored still reproduces for every later delivery: workers that
\* crashed, were late or run under another qualification change none of it.
DispatchedOnce ==
    /\ \A c, d \in commands : c.request = d.request => c = d
    /\ \A c \in commands :
          /\ dispatches[c.request] = [status |-> "STAGE_COMMAND_QUEUED", stage |-> c.stage]
          /\ c.version = requests[c.request].version + 1
    /\ \A r \in Request : dispatches[r] # NoRow => DispatchIntegrity(r)
    /\ \A r \in Request : r \in findings <=> dispatches[r] # NoRow /\ dispatches[r].status = "BLOCKED"

\* An event is acknowledged only after its request was dispatched.
AcknowledgedWasDispatched ==
    \A r \in Request : event[r].status = "published" => dispatches[r] # NoRow
=============================================================================
