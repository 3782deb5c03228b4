---------------------------- MODULE OversightProofs ----------------------------
(***************************************************************************)
(* Proofs about the components of Oversight, for any people, requests,     *)
(* tasks, versions, windows and histories.  Each component has an          *)
(* inductive invariant of its own.                                         *)
(***************************************************************************)
EXTENDS Oversight, FiniteSetTheorems, SequenceTheorems, WellFoundedInduction, TLAPS

-----------------------------------------------------------------------------
(* The dispatch of rework.                                                  *)

\* Only a request that was made has an event, and is held by a worker or
\* dispatched.
RequestsWereMade ==
    /\ \A r \in Request : event[r].status # "none" => requests[r] # NoRow
    /\ \A w \in Worker : holding[w] # NoRow => requests[holding[w].request] # NoRow
    /\ \A r \in Request : dispatches[r] # NoRow => requests[r] # NoRow

\* A worker that reports its event handled leaves a dispatch behind.
HandledWasDispatched ==
    \A w \in Worker : holding[w] # NoRow /\ holding[w].step = "handled" =>
        dispatches[holding[w].request] # NoRow

\* The inductive invariant of the dispatcher.
ReworkInv ==
    /\ Rework!ReworkTypeOK
    /\ project.version \in Nat
    /\ event \in [Request -> [status : {"none", "pending", "claimed", "published", "dead"},
                              attempts : 0 .. MaxAttempts,
                              holder : Worker \cup {NoHolder}]]
    /\ holding \in [Worker -> HoldingRow \cup {NoRow}]
    /\ \A c \in commands : c.request \in Request /\ dispatches[c.request] # NoRow
    /\ RequestsWereMade
    /\ HandledWasDispatched
    /\ Rework!DispatchedOnce
    /\ Rework!AcknowledgedWasDispatched

LEMMA ReworkInitInv ==
    ASSUME ReworkConstants, Rework!ReworkInit
    PROVE  ReworkInv
  <1> USE DEF Rework!ReworkInit, ReworkConstants
  <1>1. Rework!ReworkTypeOK
    BY DEF Rework!ReworkTypeOK
  <1>2. Rework!DispatchedOnce /\ Rework!AcknowledgedWasDispatched
    BY DEF Rework!DispatchedOnce, Rework!AcknowledgedWasDispatched
  <1> QED BY <1>1, <1>2 DEF ReworkInv, RequestsWereMade, HandledWasDispatched

\* The event types and what a worker holds.
LEMMA HoldingTyped ==
    ASSUME ReworkConstants, ReworkInv, NEW w \in Worker, holding[w] # NoRow
    PROVE  /\ holding[w] \in HoldingRow
           /\ holding[w].request \in Request
           /\ requests[holding[w].request] \in Rework!RequestRow
           /\ requests[holding[w].request] # NoRow
  BY DEF ReworkInv, Rework!ReworkTypeOK, HoldingRow, RequestsWereMade

\* A step of a worker over what it holds changes nothing but that.
LEMMA HoldingStep ==
    ASSUME ReworkConstants, ReworkInv, NEW w \in Worker,
           NEW held \in HoldingRow \cup {NoRow},
           holding' = [holding EXCEPT ![w] = held],
           held # NoRow =>
              /\ requests[held.request] # NoRow
              /\ held.step = "handled" => dispatches[held.request] # NoRow,
           UNCHANGED <<project, requests, event, dispatches, commands, findings, qualified>>
    PROVE  ReworkInv'
  <1>1. /\ holding' \in [Worker -> HoldingRow \cup {NoRow}]
        /\ holding'[w] = held
        /\ \A v \in Worker : v # w => holding'[v] = holding[v]
    BY DEF ReworkInv
  <1>2. Rework!ReworkTypeOK' /\ Rework!DispatchedOnce' /\ Rework!AcknowledgedWasDispatched'
    BY DEF ReworkInv, Rework!ReworkTypeOK, Rework!DispatchedOnce, Rework!DispatchIntegrity,
           Rework!AcknowledgedWasDispatched
  <1>3. RequestsWereMade'
    BY <1>1 DEF ReworkInv, RequestsWereMade
  <1>4. HandledWasDispatched'
    BY <1>1 DEF ReworkInv, HandledWasDispatched
  <1> QED BY <1>1, <1>2, <1>3, <1>4 DEF ReworkInv

LEMMA RequestReworkInv ==
    ASSUME ReworkConstants, ReworkInv,
           NEW r \in Request, NEW target \in Rework!Target, Rework!RequestRework(r, target)
    PROVE  ReworkInv'
  <1> DEFINE row == [target |-> target, version |-> project.version]
  <1>1. row \in Rework!RequestRow /\ row # NoRow
    BY DEF ReworkConstants, Rework!RequestRow, ReworkInv
  <1>2. /\ requests[r] = NoRow
        /\ requests' = [requests EXCEPT ![r] = row]
        /\ project'.version = project.version + 1
        /\ event' = [event EXCEPT ![r].status = "pending"]
        /\ UNCHANGED <<dispatches, commands, findings, qualified, holding>>
    BY DEF Rework!RequestRework
  <1> HIDE DEF row
  <1>3. /\ requests' \in [Request -> Rework!RequestRow \cup {NoRow}]
        /\ \A s \in Request : s # r => requests'[s] = requests[s]
        /\ requests'[r] # NoRow
        /\ event' \in [Request -> [status : {"none", "pending", "claimed", "published", "dead"},
                                   attempts : 0 .. MaxAttempts, holder : Worker \cup {NoHolder}]]
        /\ \A s \in Request : /\ event'[s].attempts = event[s].attempts
                              /\ s # r => event'[s].status = event[s].status
        /\ event'[r].status = "pending"
    BY <1>1, <1>2 DEF ReworkInv, Rework!ReworkTypeOK
  <1>4. Rework!ReworkTypeOK'
    BY <1>2, <1>3 DEF ReworkInv, Rework!ReworkTypeOK
  <1>5. dispatches[r] = NoRow /\ \A w \in Worker : holding[w] # NoRow => holding[w].request # r
    BY <1>2 DEF ReworkInv, RequestsWereMade
  <1>6. \A w \in Worker : holding[w] # NoRow => holding[w].request \in Request
    BY HoldingTyped
  <1>7. RequestsWereMade' /\ HandledWasDispatched'
    BY <1>2, <1>3, <1>5, <1>6 DEF ReworkInv, RequestsWereMade, HandledWasDispatched
  <1>8. Rework!DispatchedOnce'
    <2>1. \A c \in commands : c.request \in Request /\ c.request # r
      BY <1>5 DEF ReworkInv
    <2> QED BY <1>2, <1>3, <2>1 DEF ReworkInv, Rework!DispatchedOnce, Rework!DispatchIntegrity
  <1>9. Rework!AcknowledgedWasDispatched'
    BY <1>2, <1>3 DEF ReworkInv, Rework!AcknowledgedWasDispatched
  <1>10. project'.version \in Nat
    BY <1>2 DEF ReworkInv
  <1> QED BY <1>2, <1>3, <1>4, <1>7, <1>8, <1>9, <1>10 DEF ReworkInv

\* An event changes its row alone, and is acknowledged for a dispatch only.
LEMMA EventStep ==
    ASSUME ReworkConstants, ReworkInv, NEW r \in Request,
           NEW row \in [status : {"none", "pending", "claimed", "published", "dead"},
                        attempts : 0 .. MaxAttempts, holder : Worker \cup {NoHolder}],
           event' = [event EXCEPT ![r] = row],
           event[r].status # "none",
           row.status = "published" => dispatches[r] # NoRow,
           UNCHANGED <<project, requests, dispatches, commands, findings, qualified, holding>>
    PROVE  ReworkInv'
  <1>1. /\ event' \in [Request -> [status : {"none", "pending", "claimed", "published", "dead"},
                                   attempts : 0 .. MaxAttempts, holder : Worker \cup {NoHolder}]]
        /\ event'[r] = row
        /\ \A s \in Request : s # r => event'[s] = event[s]
    BY DEF ReworkInv
  <1>2. Rework!ReworkTypeOK'
    BY <1>1 DEF ReworkInv, Rework!ReworkTypeOK
  <1>3. Rework!DispatchedOnce' /\ Rework!AcknowledgedWasDispatched'
    BY <1>1 DEF ReworkInv, Rework!DispatchedOnce, Rework!DispatchIntegrity,
                Rework!AcknowledgedWasDispatched
  <1>4. RequestsWereMade' /\ HandledWasDispatched'
    BY <1>1 DEF ReworkInv, RequestsWereMade, HandledWasDispatched
  <1> QED BY <1>1, <1>2, <1>3, <1>4 DEF ReworkInv

LEMMA ClaimInv ==
    ASSUME ReworkConstants, ReworkInv, NEW w \in Worker, NEW r \in Request,
           Rework!Claim(w, r)
    PROVE  ReworkInv'
  <1>1. /\ holding[w] = NoRow
        /\ event[r].status = "pending"
        /\ event[r].attempts \in 0 .. MaxAttempts
        /\ event[r].holder \in Worker \cup {NoHolder}
        /\ UNCHANGED <<project, requests, dispatches, commands, findings, qualified>>
    BY DEF Rework!Claim, ReworkInv
  <1>2. CASE Rework!Exhausted(r)
    <2> DEFINE row == [event[r] EXCEPT !.status = "dead"]
    <2>1. row \in [status : {"none", "pending", "claimed", "published", "dead"},
                   attempts : 0 .. MaxAttempts, holder : Worker \cup {NoHolder}]
      BY DEF ReworkInv
    <2>2. event' = [event EXCEPT ![r] = row] /\ holding' = holding
      BY <1>2 DEF Rework!Claim, ReworkInv
    <2> QED BY <1>1, <2>1, <2>2, EventStep
  <1>3. CASE ~Rework!Exhausted(r)
    <2> DEFINE row == [status |-> "claimed", attempts |-> event[r].attempts + 1, holder |-> w]
               held == [request |-> r, step |-> "claimed"]
    <2>1. event' = [event EXCEPT ![r] = row] /\ holding' = [holding EXCEPT ![w] = held]
      BY <1>3 DEF Rework!Claim
    <2>2. held \in HoldingRow /\ held # NoRow /\ held.step # "handled"
      BY DEF ReworkConstants, HoldingRow
    <2>3. event[r].attempts + 1 \in 0 .. MaxAttempts
      BY <1>1, <1>3 DEF Rework!Exhausted, ReworkConstants
    <2>4. /\ event' \in [Request -> [status : {"none", "pending", "claimed", "published", "dead"},
                                     attempts : 0 .. MaxAttempts, holder : Worker \cup {NoHolder}]]
          /\ \A s \in Request : s # r => event'[s] = event[s]
          /\ event'[r].status = "claimed"
      BY <2>1, <2>3 DEF ReworkInv
    <2>5. /\ holding' \in [Worker -> HoldingRow \cup {NoRow}]
          /\ holding'[w] = held /\ held.request = r
          /\ \A v \in Worker : v # w => holding'[v] = holding[v]
      BY <2>1, <2>2 DEF ReworkInv
    <2>6. requests[r] # NoRow
      BY <1>1 DEF ReworkInv, RequestsWereMade
    <2> HIDE DEF held, row
    <2>7. Rework!ReworkTypeOK'
      BY <1>1, <2>4 DEF ReworkInv, Rework!ReworkTypeOK
    <2>8. RequestsWereMade' /\ HandledWasDispatched'
      BY <1>1, <2>2, <2>4, <2>5, <2>6 DEF ReworkInv, RequestsWereMade, HandledWasDispatched
    <2>9. Rework!DispatchedOnce' /\ Rework!AcknowledgedWasDispatched'
      BY <1>1, <2>4 DEF ReworkInv, Rework!DispatchedOnce, Rework!DispatchIntegrity,
                        Rework!AcknowledgedWasDispatched
    <2> QED BY <1>1, <2>4, <2>5, <2>7, <2>8, <2>9 DEF ReworkInv
  <1> QED BY <1>2, <1>3

\* The one step that stores a dispatch, with its command or its finding.
LEMMA DispatchInv ==
    ASSUME ReworkConstants, ReworkInv, NEW w \in Worker, Rework!Dispatch(w)
    PROVE  ReworkInv'
  <1> DEFINE r == holding[w].request
             done == Rework!SameContext(r) /\ Rework!Insertable(r)
             row == [status |-> IF Rework!Automatable(r) THEN "STAGE_COMMAND_QUEUED"
                                ELSE "BLOCKED",
                     stage |-> requests[r].target]
             command == [request |-> r, stage |-> requests[r].target,
                         version |-> project.version, by |-> w]
             held == [holding[w] EXCEPT !.step =
                        IF done THEN "handled"
                        ELSE IF Rework!SameContext(r) THEN "failed" ELSE "refused"]
  <1>1. /\ holding[w] # NoRow
        /\ holding' = [holding EXCEPT ![w] = held]
        /\ UNCHANGED <<project, requests, event, qualified>>
    BY DEF Rework!Dispatch, ReworkInv
  <1>2. /\ r \in Request
        /\ requests[r] \in Rework!RequestRow
        /\ requests[r] # NoRow
        /\ held \in HoldingRow /\ held # NoRow /\ held.request = r
        /\ ~done => held.step # "handled"
    BY <1>1, HoldingTyped DEF HoldingRow, ReworkConstants
  <1>3. CASE ~done
    <2>1. UNCHANGED <<dispatches, commands, findings>>
      BY <1>3 DEF Rework!Dispatch
    <2> HIDE DEF held
    <2> QED BY <1>1, <1>2, <1>3, <2>1, HoldingStep
  <1>4. CASE done
    <2>1. /\ dispatches' = [dispatches EXCEPT ![r] = row]
          /\ commands' = IF Rework!Automatable(r) THEN commands \cup {command} ELSE commands
          /\ findings' = IF Rework!Automatable(r) THEN findings ELSE findings \cup {r}
          /\ dispatches[r] = NoRow
          /\ project.version = requests[r].version + 1
      BY <1>4 DEF Rework!Dispatch, Rework!SameContext, Rework!Insertable
    <2>2. /\ row \in Rework!DispatchRow /\ row # NoRow
          /\ row.stage = requests[r].target
          /\ row.status = IF Rework!Automatable(r) THEN "STAGE_COMMAND_QUEUED" ELSE "BLOCKED"
          /\ row = [status |-> row.status, stage |-> row.stage]
      BY <1>2 DEF Rework!RequestRow, Rework!DispatchRow, ReworkConstants
    <2>3. /\ command.request = r
          /\ command.stage = requests[r].target
          /\ command.version = project.version
      OBVIOUS
    <2> HIDE DEF row, command, held, r
    <2>4. /\ dispatches' \in [Request -> Rework!DispatchRow \cup {NoRow}]
          /\ dispatches'[r] = row
          /\ \A s \in Request : s # r => dispatches'[s] = dispatches[s]
      BY <1>2, <2>1, <2>2 DEF ReworkInv, Rework!ReworkTypeOK
    <2>5. /\ holding' \in [Worker -> HoldingRow \cup {NoRow}]
          /\ holding'[w] = held
          /\ \A v \in Worker : v # w => holding'[v] = holding[v]
      BY <1>1, <1>2 DEF ReworkInv
    <2>6. \A c \in commands : c.request \in Request /\ c.request # r
      BY <2>1 DEF ReworkInv
    <2>7. /\ Rework!ReworkTypeOK'
          /\ \A c \in commands' : c.request \in Request /\ dispatches'[c.request] # NoRow
      <3>1. Rework!ReworkTypeOK'
        BY <1>1, <1>2, <2>1, <2>4 DEF ReworkInv, Rework!ReworkTypeOK
      <3>2. \A c \in commands' : c.request \in Request /\ dispatches'[c.request] # NoRow
        BY <1>2, <2>1, <2>2, <2>3, <2>4, <2>6 DEF ReworkInv
      <3> QED BY <3>1, <3>2
    <2>8. RequestsWereMade'
      BY <1>1, <1>2, <2>4, <2>5 DEF ReworkInv, RequestsWereMade
    <2>9. HandledWasDispatched'
      <3>1. \A s \in Request : dispatches[s] # NoRow => dispatches'[s] # NoRow
        BY <2>2, <2>4
      <3> QED BY <1>2, <2>2, <2>4, <2>5, <3>1, HoldingTyped DEF ReworkInv, HandledWasDispatched
    <2>10. Rework!DispatchedOnce'
      <3>1. \A c, d \in commands' : c.request = d.request => c = d
        BY <2>1, <2>3, <2>6 DEF ReworkInv, Rework!DispatchedOnce
      <3>2. ASSUME NEW c \in commands'
            PROVE  /\ dispatches'[c.request] = [status |-> "STAGE_COMMAND_QUEUED", stage |-> c.stage]
                   /\ c.version = requests'[c.request].version + 1
        <4>1. CASE c \in commands
          BY <1>1, <2>4, <2>6, <4>1 DEF ReworkInv, Rework!DispatchedOnce
        <4>2. CASE c = command /\ Rework!Automatable(r)
          BY <1>1, <2>1, <2>2, <2>3, <2>4, <4>2
        <4> QED BY <2>1, <4>1, <4>2
      <3>3. ASSUME NEW s \in Request, dispatches'[s] # NoRow
            PROVE  (dispatches'[s].status = "STAGE_COMMAND_QUEUED")
                      <=> \E c \in commands' : c.request = s
        <4>1. CASE s # r
          BY <2>1, <2>3, <2>4, <3>3, <4>1
             DEF ReworkInv, Rework!DispatchedOnce, Rework!DispatchIntegrity
        <4>2. CASE s = r
          BY <2>1, <2>2, <2>3, <2>4, <2>6, <4>2
        <4> QED BY <4>1, <4>2
      <3>4. ASSUME NEW s \in Request
            PROVE  s \in findings' <=> dispatches'[s] # NoRow /\ dispatches'[s].status = "BLOCKED"
        <4>1. CASE s # r
          BY <2>1, <2>4, <4>1 DEF ReworkInv, Rework!DispatchedOnce
        <4>2. CASE s = r
          BY <2>1, <2>2, <2>4, <4>2 DEF ReworkInv, Rework!DispatchedOnce
        <4> QED BY <4>1, <4>2
      <3> QED BY <3>1, <3>2, <3>3, <3>4 DEF Rework!DispatchedOnce, Rework!DispatchIntegrity
    <2>11. Rework!AcknowledgedWasDispatched'
      BY <1>1, <2>2, <2>4 DEF ReworkInv, Rework!AcknowledgedWasDispatched
    <2> QED BY <1>1, <2>5, <2>7, <2>8, <2>9, <2>10, <2>11 DEF ReworkInv
  <1> QED BY <1>3, <1>4

LEMMA SettleInv ==
    ASSUME ReworkConstants, ReworkInv, NEW w \in Worker, Rework!Settle(w)
    PROVE  ReworkInv'
  <1> DEFINE r == holding[w].request
             row == [event[r] EXCEPT !.holder = NoHolder,
                        !.status = Rework!SettledStatus(holding[w].step, event[r].attempts)]
  <1>1. /\ holding[w] # NoRow
        /\ holding' = [holding EXCEPT ![w] = NoRow]
        /\ UNCHANGED <<project, requests, dispatches, commands, findings, qualified>>
        /\ event' = IF event[r].holder = w THEN [event EXCEPT ![r] = row] ELSE event
    <2>1. r \in Request
      BY HoldingTyped DEF Rework!Settle
    <2> QED BY <2>1 DEF Rework!Settle, ReworkInv
  <1>2. /\ r \in Request
        /\ requests[r] # NoRow
        /\ holding[w].step = "handled" => dispatches[r] # NoRow
    BY <1>1, HoldingTyped DEF ReworkInv, HandledWasDispatched
  <1>3. /\ row \in [status : {"none", "pending", "claimed", "published", "dead"},
                    attempts : 0 .. MaxAttempts, holder : Worker \cup {NoHolder}]
        /\ row.status = "published" => dispatches[r] # NoRow
    BY <1>2 DEF ReworkInv, Rework!SettledStatus
  <1> HIDE DEF row, r
  <1>4. /\ event' \in [Request -> [status : {"none", "pending", "claimed", "published", "dead"},
                                   attempts : 0 .. MaxAttempts, holder : Worker \cup {NoHolder}]]
        /\ \A s \in Request : event'[s] = event[s] \/ (s = r /\ event'[s] = row)
    BY <1>1, <1>2, <1>3 DEF ReworkInv
  <1>5. /\ holding' \in [Worker -> HoldingRow \cup {NoRow}]
        /\ \A v \in Worker : holding'[v] # NoRow => holding'[v] = holding[v]
    BY <1>1 DEF ReworkInv
  <1>6. Rework!ReworkTypeOK'
    BY <1>1, <1>4 DEF ReworkInv, Rework!ReworkTypeOK
  <1>7. RequestsWereMade' /\ HandledWasDispatched'
    BY <1>1, <1>2, <1>4, <1>5 DEF ReworkInv, RequestsWereMade, HandledWasDispatched
  <1>8. Rework!DispatchedOnce' /\ Rework!AcknowledgedWasDispatched'
    BY <1>1, <1>2, <1>3, <1>4 DEF ReworkInv, Rework!DispatchedOnce, Rework!DispatchIntegrity,
                                  Rework!AcknowledgedWasDispatched
  <1> QED BY <1>1, <1>4, <1>5, <1>6, <1>7, <1>8 DEF ReworkInv

LEMMA ReworkNextInv ==
    ASSUME ReworkConstants, ReworkInv, Rework!ReworkNext
    PROVE  ReworkInv'
  <1>1. CASE \E r \in Request, t \in Rework!Target : Rework!RequestRework(r, t)
    BY <1>1, RequestReworkInv
  <1>2. ASSUME NEW s \in Rework!Target \cup {"EXPERT_REVIEW"}, Rework!OtherCommand(s)
        PROVE  ReworkInv'
    BY <1>2 DEF Rework!OtherCommand, ReworkInv, Rework!ReworkTypeOK, RequestsWereMade,
                HandledWasDispatched, Rework!DispatchedOnce, Rework!DispatchIntegrity,
                Rework!AcknowledgedWasDispatched
  <1>3. CASE \E w \in Worker, r \in Request : Rework!Claim(w, r)
    BY <1>3, ClaimInv
  <1>4. ASSUME NEW r \in Request, Rework!LeaseEnds(r)
        PROVE  ReworkInv'
    <2> DEFINE row == [event[r] EXCEPT !.status = "pending", !.holder = NoHolder]
    <2>1. /\ row \in [status : {"none", "pending", "claimed", "published", "dead"},
                      attempts : 0 .. MaxAttempts, holder : Worker \cup {NoHolder}]
          /\ row.status = "pending"
          /\ event[r].status # "none"
          /\ event' = [event EXCEPT ![r] = row]
          /\ UNCHANGED <<project, requests, dispatches, commands, findings, qualified, holding>>
      BY <1>4 DEF Rework!LeaseEnds, ReworkInv
    <2> HIDE DEF row
    <2> QED BY <2>1, EventStep
  <1>5. ASSUME NEW w \in Worker, Rework!LookUp(w)
        PROVE  ReworkInv'
    <2> DEFINE r == holding[w].request
               held == [holding[w] EXCEPT !.step =
                            IF dispatches[r] = NoRow THEN "looked"
                            ELSE IF Rework!DispatchIntegrity(r) THEN "handled" ELSE "refused"]
    <2>1. /\ holding[w] # NoRow
          /\ holding' = [holding EXCEPT ![w] = held]
          /\ UNCHANGED <<project, requests, event, dispatches, commands, findings, qualified>>
      BY <1>5 DEF Rework!LookUp, ReworkInv
    <2>2. /\ held \in HoldingRow /\ held # NoRow /\ held.request = r
          /\ requests[r] # NoRow
          /\ held.step = "handled" => dispatches[r] # NoRow
      BY <2>1, HoldingTyped DEF HoldingRow, ReworkConstants
    <2> HIDE DEF held, r
    <2> QED BY <2>1, <2>2, HoldingStep
  <1>6. CASE \E w \in Worker : Rework!Dispatch(w)
    BY <1>6, DispatchInv
  <1>7. ASSUME NEW w \in Worker, Rework!Fail(w)
        PROVE  ReworkInv'
    <2> DEFINE held == [holding[w] EXCEPT !.step = "failed"]
    <2>1. /\ holding[w] # NoRow
          /\ holding' = [holding EXCEPT ![w] = held]
          /\ UNCHANGED <<project, requests, event, dispatches, commands, findings, qualified>>
      BY <1>7 DEF Rework!Fail, ReworkInv
    <2>2. /\ held \in HoldingRow /\ held # NoRow /\ held.request = holding[w].request
          /\ requests[holding[w].request] # NoRow
          /\ held.step # "handled"
      BY <2>1, HoldingTyped DEF HoldingRow, ReworkConstants
    <2> HIDE DEF held
    <2> QED BY <2>1, <2>2, HoldingStep
  <1>8. CASE \E w \in Worker : Rework!Settle(w)
    BY <1>8, SettleInv
  <1>9. ASSUME NEW w \in Worker, Rework!Crash(w)
        PROVE  ReworkInv'
    <2>1. NoRow \in HoldingRow \cup {NoRow}
      OBVIOUS
    <2> QED BY <1>9, <2>1, HoldingStep DEF Rework!Crash
  <1>10. ASSUME NEW stages \in SUBSET Stage, Rework!Requalify(stages)
         PROVE  ReworkInv'
    BY <1>10 DEF Rework!Requalify, ReworkInv, Rework!ReworkTypeOK, RequestsWereMade,
                 HandledWasDispatched, Rework!DispatchedOnce, Rework!DispatchIntegrity,
                 Rework!AcknowledgedWasDispatched
  <1> QED
    BY <1>1, <1>2, <1>3, <1>4, <1>5, <1>6, <1>7, <1>8, <1>9, <1>10 DEF Rework!ReworkNext

LEMMA ReworkStutter ==
    ASSUME ReworkInv, UNCHANGED Rework!reworkVars
    PROVE  ReworkInv'
  BY DEF Rework!reworkVars, ReworkInv, Rework!ReworkTypeOK, RequestsWereMade,
         HandledWasDispatched, Rework!DispatchedOnce, Rework!DispatchIntegrity,
         Rework!AcknowledgedWasDispatched

\* Whatever workers crash, are late, or run under another qualification: a
\* request is dispatched at most once, as one command over the project as the
\* expert left it or as one finding, and its event is acknowledged only after
\* that (request_rework, _process_claim, _acknowledge).
THEOREM ReworkDispatchedOnce ==
    ASSUME ReworkConstants
    PROVE  Rework!ReworkSpec => [](/\ Rework!ReworkTypeOK
                                   /\ Rework!DispatchedOnce
                                   /\ Rework!AcknowledgedWasDispatched)
  <1>1. Rework!ReworkInit => ReworkInv
    BY ReworkInitInv
  <1>2. ReworkInv /\ [Rework!ReworkNext]_(Rework!reworkVars) => ReworkInv'
    BY ReworkNextInv, ReworkStutter
  <1>3. ReworkInv => /\ Rework!ReworkTypeOK
                     /\ Rework!DispatchedOnce
                     /\ Rework!AcknowledgedWasDispatched
    BY DEF ReworkInv
  <1> QED BY <1>1, <1>2, <1>3, PTL DEF Rework!ReworkSpec

-----------------------------------------------------------------------------
(* The memberships of a project.                                            *)

\* The project row serializes the changes: one is open, by whoever holds the row.
OneChangeOpen ==
    /\ locked = {p \in Member : change[p] # NoChange}
    /\ \A p, q \in Member : change[p] # NoChange /\ change[q] # NoChange => p = q

\* What an open change was decided over still holds.
ChangeKeepsOwner ==
    \A p \in Member : change[p] # NoChange =>
        LET q == change[p].of
            row == change[p].row
        IN /\ row.by = p /\ Access!ActiveOwner(p)
           /\ ~ (row.active /\ row.owner) /\ Access!ActiveOwner(q) => Access!AnotherActiveOwner(q)

\* The inductive invariant of memberships.
AccessInv ==
    /\ Access!TypeOK
    /\ change \in [Member -> ChangeRow \cup {NoChange}]
    /\ OneChangeOpen
    /\ ChangeKeepsOwner
    /\ Access!OwnerRemains

\* The row in force is the last of the history.
LEMMA CurrentRow ==
    ASSUME NEW p \in Member, members \in [Member -> Seq(Access!Revision)], members[p] # <<>>
    PROVE  /\ Access!Current(p) = members[p][Len(members[p])]
           /\ Access!Current(p) \in Access!Revision
           /\ Len(members[p]) \in Nat \ {0}
  BY DEF Access!Current, Access!Last

LEMMA AccessInitInv ==
    ASSUME AccessConstants, Access!Init
    PROVE  AccessInv
  <1> DEFINE row == [roles |-> Role, owner |-> TRUE, active |-> TRUE, by |-> Creator, version |-> 1]
  <1>1. row \in Access!Revision
    BY DEF AccessConstants, Access!Revision
  <1>2. members \in [Member -> Seq(Access!Revision)] /\ members[Creator] = <<row>>
    <2>1. members = [p \in Member |-> IF p = Creator THEN <<row>> ELSE <<>>]
      BY DEF Access!Init
    <2>2. <<row>> \in Seq(Access!Revision) /\ <<>> \in Seq(Access!Revision)
      BY <1>1
    <2> HIDE DEF row
    <2> QED BY <2>1, <2>2 DEF AccessConstants
  <1>3. change = [p \in Member |-> NoChange] /\ locked = {} /\ claims = [p \in Member |-> Role]
    BY DEF Access!Init
  <1>4. Access!TypeOK
    BY <1>2, <1>3 DEF Access!TypeOK
  <1>5. members[Creator] # <<>> /\ members[Creator][Len(members[Creator])] = row
    BY <1>2
  <1>6. Access!OwnerRemains
    <2>1. Creator \in Member
      BY DEF AccessConstants
    <2>2. Access!Current(Creator) = row
      BY <1>2, <1>5, <2>1, CurrentRow
    <2> QED
      BY <1>5, <2>1, <2>2 DEF Access!OwnerRemains, Access!ActiveOwner, Access!ActiveMember
  <1> QED BY <1>3, <1>4, <1>6 DEF AccessInv, OneChangeOpen, ChangeKeepsOwner

\* Who owns is what the histories say.
LEMMA OwnersUnchanged ==
    ASSUME members' = members
    PROVE  /\ \A p \in Member : Access!ActiveOwner(p)' = Access!ActiveOwner(p)
           /\ \A q \in Member : Access!AnotherActiveOwner(q)' = Access!AnotherActiveOwner(q)
           /\ Access!OwnerRemains' = Access!OwnerRemains
  BY DEF Access!ActiveOwner, Access!ActiveMember, Access!Current, Access!Last,
         Access!AnotherActiveOwner, Access!OwnerRemains

\* A decided change waits for its insert.
LEMMA BeginStep ==
    ASSUME AccessConstants, AccessInv, Access!LockFree,
           NEW p \in Member, NEW q \in Member, NEW roles \in SUBSET Role,
           NEW owner \in BOOLEAN, NEW active \in BOOLEAN,
           locked' = locked \cup {p},
           change' = [change EXCEPT ![p] =
                [of |-> q, row |-> Access!NextRevision(p, q, roles, owner, active)]],
           Access!ActiveOwner(p),
           ~ (active /\ owner) /\ Access!ActiveOwner(q) => Access!AnotherActiveOwner(q),
           UNCHANGED <<claims, members>>
    PROVE  AccessInv'
  <1> DEFINE row == Access!NextRevision(p, q, roles, owner, active)
             new == [of |-> q, row |-> row]
  <1>1. /\ row \in Access!Revision
        /\ row.by = p /\ row.owner = owner /\ row.active = active
    <2>1. Len(members[q]) \in Nat
      BY DEF AccessInv, Access!TypeOK
    <2> QED BY <2>1 DEF Access!NextRevision, Access!Revision
  <1> HIDE DEF row
  <1>2. new \in ChangeRow /\ new # NoChange /\ new.of = q /\ new.row = row
    BY <1>1 DEF ChangeRow, AccessConstants
  <1>3. change' = [change EXCEPT ![p] = new]
    BY DEF row
  <1> HIDE DEF new
  <1>4. /\ change' \in [Member -> ChangeRow \cup {NoChange}]
        /\ change'[p] = new
        /\ \A v \in Member : v # p => change'[v] = change[v] /\ change[v] = NoChange
    BY <1>2, <1>3 DEF AccessInv, OneChangeOpen, Access!LockFree
  <1>5. Access!TypeOK'
    BY <1>1, <1>2, <1>4 DEF AccessInv, Access!TypeOK, ChangeRow
  <1>6. OneChangeOpen'
    BY <1>2, <1>4 DEF AccessInv, OneChangeOpen, Access!LockFree
  <1>7. ChangeKeepsOwner'
    BY <1>1, <1>2, <1>4, OwnersUnchanged DEF ChangeKeepsOwner
  <1>8. Access!OwnerRemains'
    BY OwnersUnchanged DEF AccessInv
  <1> QED BY <1>4, <1>5, <1>6, <1>7, <1>8 DEF AccessInv

\* A closed transaction leaves no change behind.
LEMMA ChangeClosed ==
    ASSUME AccessInv, NEW p \in Member, change[p] # NoChange,
           locked' = locked \ {p}, change' = [change EXCEPT ![p] = NoChange]
    PROVE  /\ change' \in [Member -> ChangeRow \cup {NoChange}]
           /\ \A v \in Member : change'[v] = NoChange
           /\ OneChangeOpen' /\ ChangeKeepsOwner'
  <1>1. /\ change' \in [Member -> ChangeRow \cup {NoChange}]
        /\ \A v \in Member : change'[v] = NoChange
    BY DEF AccessInv, OneChangeOpen
  <1>2. OneChangeOpen'
    BY <1>1 DEF AccessInv, OneChangeOpen
  <1> QED BY <1>1, <1>2 DEF ChangeKeepsOwner

\* The inserted row never takes the last owner away.
LEMMA CommitInv ==
    ASSUME AccessConstants, AccessInv, NEW p \in Member, Access!Commit(p)
    PROVE  AccessInv'
  <1>1. PICK q, row : change[p].of = q /\ change[p].row = row
    OBVIOUS
  <1>2. /\ q \in Member /\ row \in Access!Revision
        /\ change[p] # NoChange
        /\ row.active \in BOOLEAN /\ row.owner \in BOOLEAN
        /\ ~ (row.active /\ row.owner) /\ Access!ActiveOwner(q) => Access!AnotherActiveOwner(q)
    BY <1>1 DEF Access!Commit, AccessInv, ChangeRow, ChangeKeepsOwner, Access!Revision
  <1>3. /\ change' \in [Member -> ChangeRow \cup {NoChange}]
        /\ \A v \in Member : change'[v] = NoChange
        /\ OneChangeOpen' /\ ChangeKeepsOwner'
    BY <1>2, ChangeClosed DEF Access!Commit
  <1>4. CASE members' = members
    BY <1>3, <1>4, OwnersUnchanged DEF AccessInv, Access!TypeOK, OneChangeOpen, Access!Commit
  <1>5. CASE members' = [members EXCEPT ![q] = Append(members[q], row)]
    <2>1. /\ members' \in [Member -> Seq(Access!Revision)]
          /\ members'[q] = Append(members[q], row)
          /\ \A v \in Member : v # q => members'[v] = members[v]
      BY <1>2, <1>5 DEF AccessInv, Access!TypeOK
    <2>2. members[q] \in Seq(Access!Revision)
      BY <1>2 DEF AccessInv, Access!TypeOK
    <2>3. members'[q] # <<>> /\ members'[q][Len(members'[q])] = row
      BY <1>2, <2>1, <2>2
    <2>4. Access!TypeOK'
      BY <1>3, <2>1 DEF AccessInv, Access!TypeOK, OneChangeOpen, Access!Commit
    <2>5. \A v \in Member : v # q => Access!ActiveOwner(v)' = Access!ActiveOwner(v)
      BY <2>1 DEF Access!ActiveOwner, Access!ActiveMember, Access!Current, Access!Last
    <2>6. row.active /\ row.owner => Access!ActiveOwner(q)'
      BY <2>3 DEF Access!ActiveOwner, Access!ActiveMember, Access!Current, Access!Last
    <2>7. Access!OwnerRemains'
      <3>1. CASE row.active /\ row.owner
        BY <1>2, <2>6, <3>1 DEF Access!OwnerRemains
      <3>2. CASE ~ (row.active /\ row.owner)
        <4>1. PICK v \in Member : v # q /\ Access!ActiveOwner(v)
          BY <1>2, <3>2 DEF AccessInv, Access!OwnerRemains, Access!AnotherActiveOwner
        <4>2. Access!ActiveOwner(v)'
          BY <2>5, <4>1
        <4> QED BY <4>2 DEF Access!OwnerRemains
      <3> QED BY <3>1, <3>2
    <2> QED BY <1>3, <2>4, <2>7 DEF AccessInv
  <1> QED BY <1>1, <1>4, <1>5 DEF Access!Commit

LEMMA AccessNextInv ==
    ASSUME AccessConstants, AccessInv, Access!Next
    PROVE  AccessInv'
  <1>1. ASSUME NEW p \in Member, NEW q \in Member, NEW roles \in SUBSET Role,
               NEW owner \in BOOLEAN, Access!BeginGrant(p, q, roles, owner)
        PROVE  AccessInv'
    <2>1. Access!ActiveOwner(p)
      BY <1>1 DEF Access!BeginGrant, Access!Grantable, Access!MayOwn, Access!Admitted,
                  Access!ActiveOwner
    <2>2. ~ (TRUE /\ owner) /\ Access!ActiveOwner(q) => Access!AnotherActiveOwner(q)
      BY <1>1 DEF Access!BeginGrant, Access!Grantable
    <2> QED BY <1>1, <2>1, <2>2, BeginStep DEF Access!BeginGrant
  <1>2. ASSUME NEW p \in Member, NEW q \in Member, Access!BeginRevoke(p, q)
        PROVE  AccessInv'
    <2>1. Access!ActiveOwner(p)
      BY <1>2 DEF Access!BeginRevoke, Access!MayOwn, Access!Admitted, Access!ActiveOwner
    <2>2. PICK roles, owner : roles = Access!Current(q).roles /\ owner = Access!Current(q).owner
      OBVIOUS
    <2>3. roles \in SUBSET Role /\ owner \in BOOLEAN
      BY <1>2, <2>2, CurrentRow
         DEF AccessInv, Access!TypeOK, Access!BeginRevoke, Access!ActiveMember, Access!Revision
    <2>4. ~ (FALSE /\ owner) /\ Access!ActiveOwner(q) => Access!AnotherActiveOwner(q)
      BY <1>2 DEF Access!BeginRevoke, Access!ActiveOwner
    <2> QED BY <1>2, <2>1, <2>2, <2>3, <2>4, BeginStep DEF Access!BeginRevoke
  <1>3. ASSUME NEW p \in Member, Access!Commit(p)
        PROVE  AccessInv'
    BY <1>3, CommitInv
  <1>4. ASSUME NEW p \in Member, Access!Rollback(p)
        PROVE  AccessInv'
    BY <1>4, ChangeClosed, OwnersUnchanged
       DEF AccessInv, Access!TypeOK, OneChangeOpen, Access!Rollback
  <1>5. ASSUME NEW p \in Member, NEW roles \in SUBSET Role, Access!ChangeClaims(p, roles)
        PROVE  AccessInv'
    <2>1. UNCHANGED <<members, locked, change>> /\ claims' \in [Member -> SUBSET Role]
      BY <1>5 DEF Access!ChangeClaims, AccessInv, Access!TypeOK
    <2>2. ChangeKeepsOwner'
      BY <2>1, OwnersUnchanged DEF AccessInv, ChangeKeepsOwner, ChangeRow
    <2> QED BY <2>1, <2>2, OwnersUnchanged DEF AccessInv, Access!TypeOK, OneChangeOpen
  <1> QED BY <1>1, <1>2, <1>3, <1>4, <1>5 DEF Access!Next

LEMMA AccessStutter ==
    ASSUME AccessInv, UNCHANGED Access!accessVars
    PROVE  AccessInv'
  <1>1. UNCHANGED <<claims, members, locked, change>>
    BY DEF Access!accessVars
  <1>2. ChangeKeepsOwner'
    BY <1>1, OwnersUnchanged DEF AccessInv, ChangeKeepsOwner, ChangeRow
  <1> QED BY <1>1, <1>2, OwnersUnchanged DEF AccessInv, Access!TypeOK, OneChangeOpen

\* A project always has an active owner, whichever owners revoke or downgrade
\* each other at the same time (_require_another_active_owner under the lock of
\* get_project).
THEOREM ProjectKeepsOwner ==
    ASSUME AccessConstants
    PROVE  Access!Spec => [](Access!TypeOK /\ Access!OwnerRemains)
  <1>1. Access!Init => AccessInv
    BY AccessInitInv
  <1>2. AccessInv /\ [Access!Next]_(Access!accessVars) => AccessInv'
    BY AccessNextInv, AccessStutter
  <1>3. AccessInv => Access!TypeOK /\ Access!OwnerRemains
    BY DEF AccessInv
  <1> QED BY <1>1, <1>2, <1>3, PTL DEF Access!Spec

LEMMA StepOwnersAppend ==
    ASSUME AccessConstants, AccessInv, [Access!Next]_(Access!accessVars)
    PROVE  OwnersAppend
  <1>1. ASSUME NEW p \in Member, Access!Commit(p)
        PROVE  OwnersAppend
    <2>1. PICK q, row : change[p].of = q /\ change[p].row = row
      OBVIOUS
    <2>2. /\ q \in Member /\ row \in Access!Revision
          /\ row.by = p /\ Access!ActiveOwner(p)
      BY <1>1, <2>1 DEF Access!Commit, AccessInv, ChangeRow, ChangeKeepsOwner
    <2>3. CASE members' = members
      BY <2>3 DEF OwnersAppend
    <2>4. CASE members' = [members EXCEPT ![q] = Append(members[q], row)] /\ Access!ChainAccepts(q, row)
      <3>1. members[q] \in Seq(Access!Revision)
        BY <2>2 DEF AccessInv, Access!TypeOK
      <3>2. members'[q][Len(members'[q])] = row
        <4>1. members'[q] = Append(members[q], row)
          BY <2>2, <2>4 DEF AccessInv, Access!TypeOK
        <4> QED BY <2>2, <3>1, <4>1
      <3>3. \A v \in Member : v # q => members'[v] = members[v]
        BY <2>4 DEF AccessInv, Access!TypeOK
      <3> QED BY <2>2, <2>4, <3>2, <3>3 DEF OwnersAppend
    <2> QED BY <1>1, <2>1, <2>3, <2>4 DEF Access!Commit
  <1>2. CASE members' = members
    BY <1>2 DEF OwnersAppend
  <1> QED
    BY <1>1, <1>2 DEF Access!Next, Access!accessVars, Access!BeginGrant, Access!BeginRevoke,
                      Access!Rollback, Access!ChangeClaims

\* Whoever commits a membership revision still owns the project then, whatever
\* other grants and revocations ran since the request began
\* (grant_project_membership, revoke_project_membership), and the trigger of
\* the table accepts the row.
THEOREM MembershipsGrowByOwners ==
    ASSUME AccessConstants
    PROVE  Access!Spec => [][OwnersAppend]_(Access!accessVars)
  <1>1. Access!Init => AccessInv
    BY AccessInitInv
  <1>2. AccessInv /\ [Access!Next]_(Access!accessVars) => AccessInv'
    BY AccessNextInv, AccessStutter
  <1>3. AccessInv /\ [Access!Next]_(Access!accessVars) => [OwnersAppend]_(Access!accessVars)
    BY StepOwnersAppend
  <1> QED BY <1>1, <1>2, <1>3, PTL DEF Access!Spec

-----------------------------------------------------------------------------
(* The approvals of experts.                                                *)

\* A page shows a task that is planned.
PagesShowTasks ==
    \A e \in Expert : pages[e] # NoPage =>
        pages[e].task \in Tasks!TaskId /\ tasks[pages[e].task] # NoTask

\* The clock has passed every update; a record belongs to a planned task.
TasksAreDated ==
    \A t \in Tasks!TaskId :
        /\ tasks[t] = NoTask => Tasks!RecordsOf(t) = {}
        /\ tasks[t] # NoTask => tasks[t].updated <= stamp

\* The inductive invariant of approvals.
TasksInv ==
    /\ Tasks!AppTypeOK
    /\ pages = [e \in Expert |-> pages[e]]
    /\ PagesShowTasks
    /\ TasksAreDated
    /\ Tasks!DecisionsAgree
    /\ Tasks!ApprovalsAreCurrent

\* The instance counts as the library does.
LEMMA TasksCardinality ==
    ASSUME NEW S
    PROVE  Tasks!Cardinality(S) = Cardinality(S)
  BY DEF Tasks!Cardinality, Cardinality

LEMMA TasksInitInv ==
    ASSUME TaskConstants, Tasks!AppInit
    PROVE  TasksInv
  <1>1. Tasks!AppTypeOK
    <2>1. tasks \in [Tasks!TaskId -> Tasks!TaskRow \cup {NoTask}] /\ records \subseteq Tasks!RecordRow
      BY DEF Tasks!AppInit
    <2>2. uploads \in [Upload -> Tasks!UploadState]
      BY DEF Tasks!AppInit, Tasks!UploadState
    <2>3. stamp \in 0 .. MaxStamps
      BY DEF TaskConstants, Tasks!AppInit
    <2> QED BY <2>1, <2>2, <2>3 DEF Tasks!AppInit, Tasks!AppTypeOK
  <1>2. /\ \A t \in Tasks!TaskId : tasks[t] = NoTask /\ Tasks!RecordsOf(t) = {}
        /\ pages = [e \in Expert |-> pages[e]] /\ \A e \in Expert : pages[e] = NoPage
    BY DEF Tasks!AppInit, Tasks!RecordsOf
  <1> QED
    BY <1>1, <1>2 DEF TasksInv, PagesShowTasks, TasksAreDated, Tasks!DecisionsAgree,
                      Tasks!ApprovalsAreCurrent

LEMMA NewTaskRow ==
    ASSUME TaskConstants, TasksInv, NEW e \in Expert, NEW required \in BOOLEAN, stamp < MaxStamps
    PROVE  /\ Tasks!NewTask(e, required) \in Tasks!TaskRow
           /\ Tasks!NewTask(e, required) # NoTask
           /\ Tasks!NewTask(e, required).status = "PENDING"
           /\ Tasks!NewTask(e, required).updated = stamp + 1
           /\ stamp + 1 \in 0 .. MaxStamps
  BY DEF Tasks!NewTask, TaskConstants, Tasks!TaskRow, TasksInv, Tasks!AppTypeOK

\* A planned task is pending and has no record.
LEMMA PlanStep ==
    ASSUME TaskConstants, TasksInv,
           NEW e \in Expert, NEW required \in BOOLEAN, NEW t \in Tasks!TaskId,
           stamp < MaxStamps, tasks[t] = NoTask,
           tasks' = [tasks EXCEPT ![t] = Tasks!NewTask(e, required)], stamp' = stamp + 1,
           UNCHANGED <<records, pages, policy, confirmed, candidate, uploads>>
    PROVE  TasksInv'
  <1>1. PICK row : row = Tasks!NewTask(e, required)
    OBVIOUS
  <1>2. /\ row \in Tasks!TaskRow /\ row # NoTask
        /\ row.status = "PENDING" /\ row.updated = stamp + 1
        /\ stamp' \in 0 .. MaxStamps
    BY <1>1, NewTaskRow
  <1>3. /\ tasks' \in [Tasks!TaskId -> Tasks!TaskRow \cup {NoTask}]
        /\ tasks'[t] = row
        /\ \A s \in Tasks!TaskId : s # t => tasks'[s] = tasks[s]
    BY <1>1, <1>2 DEF TasksInv, Tasks!AppTypeOK
  <1>4. Tasks!AppTypeOK'
    BY <1>2, <1>3 DEF TasksInv, Tasks!AppTypeOK
  <1>5. /\ \A s \in Tasks!TaskId : Tasks!RecordsOf(s)' = Tasks!RecordsOf(s)
        /\ Tasks!Replacements' = Tasks!Replacements
    BY DEF Tasks!RecordsOf, Tasks!Replacements
  <1>6. TasksAreDated'
    <2>1. stamp \in Nat /\ \A s \in Tasks!TaskId : tasks[s] # NoTask => tasks[s].updated \in Nat
      BY DEF TasksInv, Tasks!AppTypeOK, Tasks!TaskRow, TaskConstants
    <2> QED BY <1>2, <1>3, <1>5, <2>1 DEF TasksInv, TasksAreDated
  <1>7. Tasks!DecisionsAgree' /\ Tasks!ApprovalsAreCurrent'
    BY <1>2, <1>3, <1>5
       DEF TasksInv, TasksAreDated, Tasks!DecisionsAgree, Tasks!ApprovalsAreCurrent, Tasks!Decision
  <1>8. PagesShowTasks'
    BY <1>2, <1>3 DEF TasksInv, PagesShowTasks
  <1> QED BY <1>4, <1>6, <1>7, <1>8 DEF TasksInv

\* The decision of a task is its one record.
LEMMA DecideInv ==
    ASSUME TaskConstants, TasksInv,
           NEW e \in Expert, NEW decision \in Tasks!Decision, NEW hasEvidence \in BOOLEAN,
           Tasks!Decide(e, decision, hasEvidence)
    PROVE  TasksInv'
  <1>1. PICK t : t = pages[e].task
    OBVIOUS
  <1>2. /\ pages[e] # NoPage
        /\ t \in Tasks!TaskId /\ tasks[t] # NoTask
        /\ stamp < MaxStamps
        /\ pages' = [pages EXCEPT ![e] = NoPage]
        /\ UNCHANGED <<policy, confirmed, candidate, uploads>>
        /\ Tasks!Replacements' = Tasks!Replacements
    BY <1>1 DEF Tasks!Decide, Tasks!setVars, Tasks!Replacements, TasksInv, PagesShowTasks
  <1>3. /\ pages' = [x \in Expert |-> pages'[x]]
        /\ \A x \in Expert : pages'[x] # NoPage => pages'[x] = pages[x]
    BY <1>2 DEF TasksInv
  <1>4. CASE ~ Tasks!Decidable(e, t, decision, hasEvidence)
    <2>1. UNCHANGED <<tasks, records, stamp>>
      BY <1>1, <1>4 DEF Tasks!Decide
    <2>2. \A s \in Tasks!TaskId : Tasks!RecordsOf(s)' = Tasks!RecordsOf(s)
      BY <2>1 DEF Tasks!RecordsOf
    <2>3. Tasks!AppTypeOK' /\ TasksAreDated'
      BY <1>2, <2>1, <2>2 DEF TasksInv, Tasks!AppTypeOK, TasksAreDated
    <2>4. Tasks!DecisionsAgree' /\ Tasks!ApprovalsAreCurrent'
      BY <1>2, <2>1, <2>2 DEF TasksInv, Tasks!DecisionsAgree, Tasks!ApprovalsAreCurrent
    <2>5. PagesShowTasks'
      BY <1>3, <2>1 DEF TasksInv, PagesShowTasks
    <2> QED BY <1>3, <2>3, <2>4, <2>5 DEF TasksInv
  <1>5. CASE Tasks!Decidable(e, t, decision, hasEvidence)
    <2> DEFINE row == [tasks[t] EXCEPT !.status = decision, !.updated = stamp + 1]
               new == [task |-> t, decision |-> decision, by |-> e, seen |-> Tasks!Replacements]
    <2>1. /\ tasks' = [tasks EXCEPT ![t] = row]
          /\ records' = records \cup {new}
          /\ stamp' = stamp + 1
      BY <1>1, <1>2, <1>5 DEF Tasks!Decide, TasksInv, Tasks!AppTypeOK
    <2>2. /\ tasks[t] \in Tasks!TaskRow
          /\ tasks[t].status = "PENDING"
          /\ tasks[t].required => tasks[t].createdBy # e
          /\ Tasks!RecordsOf(t) = {}
          /\ stamp + 1 \in 0 .. MaxStamps
      BY <1>2, <1>5
         DEF Tasks!Decidable, TasksInv, Tasks!AppTypeOK, Tasks!DecisionsAgree, TaskConstants
    <2>3. /\ row \in Tasks!TaskRow /\ row # NoTask
          /\ row.status = decision /\ row.updated = stamp + 1
          /\ row.createdBy = tasks[t].createdBy /\ row.required = tasks[t].required
      BY <2>2 DEF Tasks!TaskRow, TaskConstants
    <2>4. /\ new \in Tasks!RecordRow
          /\ new.task = t /\ new.decision = decision
          /\ new.by = e /\ new.seen = Tasks!Replacements
      BY <1>2 DEF Tasks!RecordRow, Tasks!Replacements
    <2> HIDE DEF row, new
    <2>5. /\ tasks' \in [Tasks!TaskId -> Tasks!TaskRow \cup {NoTask}]
          /\ tasks'[t] = row
          /\ \A s \in Tasks!TaskId : s # t => tasks'[s] = tasks[s]
      BY <1>2, <2>1, <2>3 DEF TasksInv, Tasks!AppTypeOK
    <2>6. /\ Tasks!RecordsOf(t)' = {new}
          /\ \A s \in Tasks!TaskId : s # t => Tasks!RecordsOf(s)' = Tasks!RecordsOf(s)
      BY <2>1, <2>2, <2>4 DEF Tasks!RecordsOf
    <2>7. Tasks!AppTypeOK'
      BY <1>2, <2>1, <2>2, <2>4, <2>5 DEF TasksInv, Tasks!AppTypeOK
    <2>8. TasksAreDated'
      <3>1. stamp \in Nat /\ \A s \in Tasks!TaskId : tasks[s] # NoTask => tasks[s].updated \in Nat
        BY DEF TasksInv, Tasks!AppTypeOK, Tasks!TaskRow, TaskConstants
      <3> QED BY <2>1, <2>3, <2>5, <2>6, <3>1 DEF TasksInv, TasksAreDated
    <2>9. Tasks!DecisionsAgree'
      <3>1. ASSUME NEW s \in Tasks!TaskId, tasks'[s] # NoTask, s # t
            PROVE  /\ tasks'[s].status = "PENDING" => Tasks!RecordsOf(s)' = {}
                   /\ tasks'[s].status \in Tasks!Decision =>
                        \E r \in records' : /\ Tasks!RecordsOf(s)' = {r}
                                            /\ r.decision = tasks'[s].status
                                            /\ tasks'[s].required =>
                                                  r.by # tasks'[s].createdBy
                   /\ tasks'[s].status = "SUPERSEDED" => Tasks!Cardinality(Tasks!RecordsOf(s)') <= 1
        BY <2>1, <2>5, <2>6, <3>1 DEF TasksInv, Tasks!DecisionsAgree
      <3>2. /\ tasks'[t].status = decision /\ decision # "PENDING" /\ decision # "SUPERSEDED"
            /\ new \in records' /\ Tasks!RecordsOf(t)' = {new}
            /\ new.decision = tasks'[t].status
            /\ tasks'[t].required => new.by # tasks'[t].createdBy
        BY <2>1, <2>2, <2>3, <2>4, <2>5, <2>6 DEF Tasks!Decision
      <3> QED BY <3>1, <3>2 DEF Tasks!DecisionsAgree
    <2>10. Tasks!ApprovalsAreCurrent'
      BY <1>2, <2>4, <2>5, <2>6 DEF TasksInv, Tasks!ApprovalsAreCurrent
    <2>11. PagesShowTasks'
      BY <1>3, <2>3, <2>5 DEF TasksInv, PagesShowTasks
    <2> QED BY <1>3, <2>7, <2>8, <2>9, <2>10, <2>11 DEF TasksInv
  <1> QED BY <1>4, <1>5

\* A superseded task keeps the record it had, and approves nothing any more.
LEMMA ReplaceDocumentsInv ==
    ASSUME TaskConstants, TasksInv, NEW u \in Upload, Tasks!ReplaceDocuments(u)
    PROVE  TasksInv'
  <1>1. /\ stamp < MaxStamps /\ stamp' = stamp + 1
        /\ uploads' = [uploads EXCEPT ![u] = "replaced"]
        /\ confirmed' = FALSE /\ candidate' = TRUE
        /\ tasks' = [t \in Tasks!TaskId |-> Tasks!SupersededTask(t)]
        /\ UNCHANGED <<records, pages, policy>>
    BY DEF Tasks!ReplaceDocuments
  <1>2. /\ stamp' \in 0 .. MaxStamps /\ stamp \in Nat
        /\ uploads' \in [Upload -> Tasks!UploadState]
    BY <1>1 DEF TasksInv, Tasks!AppTypeOK, Tasks!UploadState, TaskConstants
  <1>3. ASSUME NEW t \in Tasks!TaskId
        PROVE  /\ Tasks!SupersededTask(t) \in Tasks!TaskRow \cup {NoTask}
               /\ Tasks!SupersededTask(t) = NoTask <=> tasks[t] = NoTask
               /\ tasks[t] # NoTask => /\ Tasks!SupersededTask(t).status = "SUPERSEDED"
                                       /\ Tasks!SupersededTask(t).updated <= stamp + 1
    <2>1. tasks[t] \in Tasks!TaskRow \cup {NoTask}
      BY DEF TasksInv, Tasks!AppTypeOK
    <2>2. tasks[t] # NoTask => tasks[t].updated \in Nat /\ tasks[t].updated <= stamp
      BY <2>1 DEF TasksInv, TasksAreDated, Tasks!TaskRow, TaskConstants
    <2>3. CASE tasks[t] # NoTask /\ tasks[t].status # "SUPERSEDED"
      <3>1. Tasks!SupersededTask(t) = [tasks[t] EXCEPT !.status = "SUPERSEDED", !.updated = stamp + 1]
        BY <2>3 DEF Tasks!SupersededTask
      <3>2. stamp + 1 \in 0 .. MaxStamps
        BY <1>1, <1>2
      <3>3. Tasks!SupersededTask(t) \in Tasks!TaskRow
        BY <2>1, <2>3, <3>1, <3>2 DEF Tasks!TaskRow
      <3>4. /\ Tasks!SupersededTask(t).status = "SUPERSEDED"
            /\ Tasks!SupersededTask(t).updated = stamp + 1
        BY <2>1, <2>3, <3>1 DEF Tasks!TaskRow
      <3>5. Tasks!SupersededTask(t) # NoTask
        BY <3>3 DEF TaskConstants
      <3> QED BY <1>2, <2>3, <3>3, <3>4, <3>5
    <2>4. CASE tasks[t] = NoTask
      BY <2>4 DEF Tasks!SupersededTask
    <2>5. CASE tasks[t] # NoTask /\ tasks[t].status = "SUPERSEDED"
      BY <1>2, <2>1, <2>2, <2>5 DEF Tasks!SupersededTask
    <2> QED BY <2>3, <2>4, <2>5
  <1>4. \A t \in Tasks!TaskId : Tasks!RecordsOf(t)' = Tasks!RecordsOf(t)
    BY <1>1 DEF Tasks!RecordsOf
  <1>5. ASSUME NEW t \in Tasks!TaskId, tasks[t] # NoTask
        PROVE  Tasks!Cardinality(Tasks!RecordsOf(t)) <= 1
    <2>1. tasks[t].status \in {"PENDING", "SUPERSEDED"} \cup Tasks!Decision
      BY <1>5 DEF TasksInv, Tasks!AppTypeOK, Tasks!TaskRow
    <2>2. CASE tasks[t].status = "PENDING"
      <3>1. Tasks!RecordsOf(t) = {}
        BY <1>5, <2>2 DEF TasksInv, Tasks!DecisionsAgree
      <3>2. Tasks!Cardinality(Tasks!RecordsOf(t)) = 0
        BY <3>1, FS_EmptySet, TasksCardinality
      <3> QED BY <3>2
    <2>3. CASE tasks[t].status \in Tasks!Decision
      <3>1. PICK r \in records : Tasks!RecordsOf(t) = {r}
        BY <1>5, <2>3 DEF TasksInv, Tasks!DecisionsAgree
      <3> QED BY <3>1, FS_Singleton, TasksCardinality
    <2>4. CASE tasks[t].status = "SUPERSEDED"
      BY <1>5, <2>4 DEF TasksInv, Tasks!DecisionsAgree
    <2> QED BY <2>1, <2>2, <2>3, <2>4
  <1>6. Tasks!AppTypeOK'
    BY <1>1, <1>2, <1>3 DEF TasksInv, Tasks!AppTypeOK
  <1>7. TasksAreDated'
    BY <1>1, <1>3, <1>4 DEF TasksInv, TasksAreDated
  <1>8. Tasks!DecisionsAgree' /\ Tasks!ApprovalsAreCurrent'
    BY <1>1, <1>3, <1>4, <1>5
       DEF Tasks!DecisionsAgree, Tasks!ApprovalsAreCurrent, Tasks!Decision
  <1>9. PagesShowTasks' /\ pages' = [e \in Expert |-> pages'[e]]
    BY <1>1, <1>3 DEF TasksInv, PagesShowTasks
  <1> QED BY <1>6, <1>7, <1>8, <1>9 DEF TasksInv

\* A step of the documents that replaces none leaves tasks and decisions.
LEMMA UploadStep ==
    ASSUME TasksInv, Tasks!AppTypeOK', Tasks!Replacements' = Tasks!Replacements,
           UNCHANGED <<tasks, records, pages, stamp>>
    PROVE  TasksInv'
  <1>1. \A s \in Tasks!TaskId : Tasks!RecordsOf(s)' = Tasks!RecordsOf(s)
    BY DEF Tasks!RecordsOf
  <1>2. TasksAreDated' /\ PagesShowTasks' /\ pages' = [e \in Expert |-> pages'[e]]
    BY <1>1 DEF TasksInv, TasksAreDated, PagesShowTasks
  <1>3. Tasks!DecisionsAgree' /\ Tasks!ApprovalsAreCurrent'
    BY <1>1 DEF TasksInv, Tasks!DecisionsAgree, Tasks!ApprovalsAreCurrent
  <1> QED BY <1>2, <1>3 DEF TasksInv

\* An upload that captured no set is no replacement, and none before it is processed.
LEMMA ReceiveOrAddInv ==
    ASSUME TasksInv, NEW u \in Upload, Tasks!ReceiveUpload(u) \/ Tasks!AddDocuments(u)
    PROVE  TasksInv'
  <1>1. PICK state \in {"captured", "uncaptured", "added"} :
            uploads' = [uploads EXCEPT ![u] = state]
    BY DEF Tasks!ReceiveUpload, Tasks!AddDocuments
  <1>2. /\ uploads[u] # "replaced"
        /\ confirmed' = FALSE /\ candidate' \in {candidate, TRUE}
        /\ UNCHANGED <<tasks, records, pages, policy, stamp>>
    BY DEF Tasks!ReceiveUpload, Tasks!AddDocuments
  <1>3. uploads \in [Upload -> Tasks!UploadState]
    BY DEF TasksInv, Tasks!AppTypeOK
  <1>4. /\ uploads' \in [Upload -> Tasks!UploadState]
        /\ uploads'[u] # "replaced"
        /\ \A v \in Upload : v # u => uploads'[v] = uploads[v]
    BY <1>1, <1>3 DEF Tasks!UploadState
  <1>5. Tasks!Replacements' = Tasks!Replacements
    BY <1>2, <1>4 DEF Tasks!Replacements
  <1>6. Tasks!AppTypeOK'
    BY <1>2, <1>4 DEF TasksInv, Tasks!AppTypeOK
  <1> QED BY <1>2, <1>5, <1>6, UploadStep

LEMMA TasksNextInv ==
    ASSUME TaskConstants, TasksInv, Tasks!AppNext
    PROVE  TasksInv'
  <1>1. ASSUME NEW e \in Expert, NEW s \in Subject, NEW required \in BOOLEAN,
               Tasks!Plan(e, s, required)
        PROVE  TasksInv'
    <2>1. <<policy, s>> \in Tasks!TaskId
      BY DEF TasksInv, Tasks!AppTypeOK, Tasks!TaskId
    <2> QED BY <1>1, <2>1, PlanStep DEF Tasks!Plan, Tasks!setVars
  <1>2. ASSUME NEW e \in Expert, NEW c \in Change, Tasks!ProposeChange(e, c)
        PROVE  TasksInv'
    <2>1. c \in Tasks!TaskId
      BY DEF Tasks!TaskId
    <2> QED BY <1>2, <2>1, PlanStep DEF Tasks!ProposeChange, Tasks!setVars
  <1>3. ASSUME NEW e \in Expert, NEW t \in Tasks!TaskId, Tasks!OpenTask(e, t)
        PROVE  TasksInv'
    <2>1. UNCHANGED <<tasks, records, policy, confirmed, candidate, uploads, stamp>>
      BY <1>3 DEF Tasks!OpenTask, Tasks!setVars
    <2>2. /\ PagesShowTasks'
          /\ pages' = [x \in Expert |-> pages'[x]]
      BY <1>3, <2>1 DEF Tasks!OpenTask, TasksInv, PagesShowTasks
    <2>3. /\ \A s \in Tasks!TaskId : Tasks!RecordsOf(s)' = Tasks!RecordsOf(s)
          /\ Tasks!Replacements' = Tasks!Replacements
      BY <2>1 DEF Tasks!RecordsOf, Tasks!Replacements
    <2>4. Tasks!AppTypeOK' /\ TasksAreDated'
      BY <2>1, <2>3 DEF TasksInv, Tasks!AppTypeOK, TasksAreDated
    <2>5. Tasks!DecisionsAgree' /\ Tasks!ApprovalsAreCurrent'
      BY <2>1, <2>3 DEF TasksInv, Tasks!DecisionsAgree, Tasks!ApprovalsAreCurrent
    <2> QED BY <2>2, <2>4, <2>5 DEF TasksInv
  <1>4. ASSUME NEW e \in Expert, NEW d \in Tasks!Decision, NEW evidence \in BOOLEAN,
               Tasks!Decide(e, d, evidence)
        PROVE  TasksInv'
    BY <1>4, DecideInv
  <1>5. ASSUME NEW u \in Upload,
               Tasks!ReceiveUpload(u) \/ Tasks!ReplaceDocuments(u) \/ Tasks!AddDocuments(u)
        PROVE  TasksInv'
    BY <1>5, ReplaceDocumentsInv, ReceiveOrAddInv
  <1>6. ASSUME NEW p \in Policy, Tasks!BindPolicy(p)
        PROVE  TasksInv'
    <2>1. /\ UNCHANGED <<tasks, records, pages, confirmed, candidate, uploads, stamp>>
          /\ policy' \in Policy
      BY <1>6 DEF Tasks!BindPolicy, Tasks!setVars
    <2>2. Tasks!AppTypeOK' /\ Tasks!Replacements' = Tasks!Replacements
      BY <2>1 DEF TasksInv, Tasks!AppTypeOK, Tasks!Replacements
    <2> QED BY <2>1, <2>2, UploadStep
  <1>7. CASE Tasks!ConfirmSet
    <2>1. /\ UNCHANGED <<tasks, records, pages, policy, uploads, stamp>>
          /\ confirmed' = TRUE /\ candidate' = FALSE
      BY <1>7 DEF Tasks!ConfirmSet
    <2>2. Tasks!AppTypeOK' /\ Tasks!Replacements' = Tasks!Replacements
      BY <2>1 DEF TasksInv, Tasks!AppTypeOK, Tasks!Replacements
    <2> QED BY <2>1, <2>2, UploadStep
  <1> QED BY <1>1, <1>2, <1>3, <1>4, <1>5, <1>6, <1>7 DEF Tasks!AppNext

LEMMA TasksStutter ==
    ASSUME TasksInv, UNCHANGED Tasks!approvalVars
    PROVE  TasksInv'
  <1>1. UNCHANGED <<tasks, records, pages, policy, confirmed, candidate, uploads, stamp>>
    BY DEF Tasks!approvalVars, Tasks!setVars
  <1>2. Tasks!AppTypeOK' /\ Tasks!Replacements' = Tasks!Replacements
    BY <1>1 DEF TasksInv, Tasks!AppTypeOK, Tasks!Replacements
  <1> QED BY <1>1, <1>2, UploadStep

\* An approval that a release counts was given after the last replacement of a
\* confirmed document set, and each decision has its one record, of a required
\* task by somebody else than its author, whatever pages were opened before a
\* replacement and whatever uploads captured no set (plan, decide,
\* register_quarantined_upload, _invalidate_derived_records).
THEOREM ApprovalsStayCurrent ==
    ASSUME TaskConstants
    PROVE  Tasks!AppSpec => [](/\ Tasks!AppTypeOK
                               /\ Tasks!DecisionsAgree
                               /\ Tasks!ApprovalsAreCurrent)
  <1>1. Tasks!AppInit => TasksInv
    BY TasksInitInv
  <1>2. TasksInv /\ [Tasks!AppNext]_(Tasks!approvalVars) => TasksInv'
    BY TasksNextInv, TasksStutter
  <1>3. TasksInv => Tasks!AppTypeOK /\ Tasks!DecisionsAgree /\ Tasks!ApprovalsAreCurrent
    BY DEF TasksInv
  <1> QED BY <1>1, <1>2, <1>3, PTL DEF Tasks!AppSpec

LEMMA StepTasksLegal ==
    ASSUME TaskConstants, TasksInv, [Tasks!AppNext]_(Tasks!approvalVars)
    PROVE  TasksChangeLegally
  <1>1. \A t \in Tasks!TaskId : tasks[t] # NoTask =>
            /\ tasks[t] \in Tasks!TaskRow
            /\ tasks[t].updated \in Nat
            /\ tasks[t].updated < stamp + 1
    BY DEF TasksInv, Tasks!AppTypeOK, TasksAreDated, Tasks!TaskRow, TaskConstants
  <1>2. ASSUME NEW t \in Tasks!TaskId, tasks[t] = NoTask, NEW e \in Expert,
               NEW required \in BOOLEAN,
               tasks' = [tasks EXCEPT ![t] = Tasks!NewTask(e, required)]
        PROVE  TasksChangeLegally
    BY <1>2 DEF TasksInv, Tasks!AppTypeOK, TasksChangeLegally
  <1>3. ASSUME NEW e \in Expert, NEW s \in Subject, NEW required \in BOOLEAN,
               Tasks!Plan(e, s, required)
        PROVE  TasksChangeLegally
    <2>1. <<policy, s>> \in Tasks!TaskId
      BY DEF TasksInv, Tasks!AppTypeOK, Tasks!TaskId
    <2> QED BY <1>2, <1>3, <2>1 DEF Tasks!Plan
  <1>4. ASSUME NEW e \in Expert, NEW c \in Change, Tasks!ProposeChange(e, c)
        PROVE  TasksChangeLegally
    <2>1. c \in Tasks!TaskId
      BY DEF Tasks!TaskId
    <2> QED BY <1>2, <1>4, <2>1 DEF Tasks!ProposeChange
  <1>5. ASSUME NEW e \in Expert, NEW d \in Tasks!Decision, NEW evidence \in BOOLEAN,
               Tasks!Decide(e, d, evidence)
        PROVE  TasksChangeLegally
    <2>1. PICK t : t = pages[e].task
      OBVIOUS
    <2>2. t \in Tasks!TaskId /\ tasks[t] # NoTask
      BY <1>5, <2>1 DEF Tasks!Decide, TasksInv, PagesShowTasks
    <2>3. CASE tasks' = tasks
      BY <2>3 DEF TasksChangeLegally
    <2>4. CASE Tasks!Decidable(e, t, d, evidence)
      <3> DEFINE row == [tasks[t] EXCEPT !.status = d, !.updated = stamp + 1]
      <3>1. /\ tasks[t].status = "PENDING"
            /\ tasks' = [tasks EXCEPT ![t] = row]
        BY <1>5, <2>1, <2>2, <2>4 DEF Tasks!Decide, Tasks!Decidable, TasksInv, Tasks!AppTypeOK
      <3>2. /\ row.status = d /\ row.updated = stamp + 1
            /\ row.createdBy = tasks[t].createdBy /\ row.required = tasks[t].required
        BY <1>1, <2>2 DEF Tasks!TaskRow
      <3> HIDE DEF row
      <3>3. Tasks!TaskChangeAllowed(tasks[t], row)
        BY <1>1, <2>2, <3>1, <3>2 DEF Tasks!TaskChangeAllowed
      <3>4. \A s \in Tasks!TaskId : tasks'[s] = IF s = t THEN row ELSE tasks[s]
        BY <3>1 DEF TasksInv, Tasks!AppTypeOK
      <3> QED BY <3>3, <3>4 DEF TasksChangeLegally
    <2> QED BY <1>5, <2>1, <2>3, <2>4 DEF Tasks!Decide
  <1>6. ASSUME NEW u \in Upload, Tasks!ReplaceDocuments(u)
        PROVE  TasksChangeLegally
    <2>1. ASSUME NEW t \in Tasks!TaskId, tasks[t] \notin {NoTask, tasks'[t]}
          PROVE  Tasks!TaskChangeAllowed(tasks[t], tasks'[t])
      <3>1. tasks'[t] = Tasks!SupersededTask(t)
        BY <1>6 DEF Tasks!ReplaceDocuments
      <3>2. /\ tasks[t].status # "SUPERSEDED"
            /\ tasks'[t] = [tasks[t] EXCEPT !.status = "SUPERSEDED", !.updated = stamp + 1]
        BY <2>1, <3>1 DEF Tasks!SupersededTask
      <3>3. /\ tasks'[t].status = "SUPERSEDED" /\ tasks'[t].updated = stamp + 1
            /\ tasks'[t].createdBy = tasks[t].createdBy
            /\ tasks'[t].required = tasks[t].required
        BY <1>1, <2>1, <3>2 DEF Tasks!TaskRow
      <3> QED BY <1>1, <2>1, <3>2, <3>3 DEF Tasks!TaskChangeAllowed
    <2> QED BY <2>1 DEF TasksChangeLegally
  <1>7. CASE tasks' = tasks
    BY <1>7 DEF TasksChangeLegally
  <1> QED
    BY <1>3, <1>4, <1>5, <1>6, <1>7
       DEF Tasks!AppNext, Tasks!approvalVars, Tasks!OpenTask, Tasks!BindPolicy,
           Tasks!ReceiveUpload, Tasks!AddDocuments, Tasks!ConfirmSet

\* The service never tries an update of a task that its trigger refuses.
THEOREM TasksFollowTheirTrigger ==
    ASSUME TaskConstants
    PROVE  Tasks!AppSpec => [][TasksChangeLegally]_(Tasks!approvalVars)
  <1>1. Tasks!AppInit => TasksInv
    BY TasksInitInv
  <1>2. TasksInv /\ [Tasks!AppNext]_(Tasks!approvalVars) => TasksInv'
    BY TasksNextInv, TasksStutter
  <1>3. TasksInv /\ [Tasks!AppNext]_(Tasks!approvalVars)
            => [TasksChangeLegally]_(Tasks!approvalVars)
    BY StepTasksLegal
  <1> QED BY <1>1, <1>2, <1>3, PTL DEF Tasks!AppSpec

-----------------------------------------------------------------------------
(* The campaign of business qualification.                                  *)

Evaluated == Campaign!InState({"EXPERT_REVIEW", "FAILED", "PASSED"})

\* Nothing refers to a campaign that does not exist, and the inputs are locked
\* before anything is evaluated.
RowsOfCampaign ==
    /\ references \in [Case -> ReferenceRow \cup {NoRow}]
    /\ reviews \in [Case -> ReviewRow \cup {NoRow, Open}]
    /\ campaign = NoRow => /\ prepared = {}
                           /\ \A c \in Case : references[c] = NoRow
    /\ ~ Evaluated => \A c \in Case : reviews[c] = NoRow

\* The reference of a case comes from two people who have no stake in it; that
\* of a historical case from the actuals.
ReferencesAreIndependent ==
    campaign # NoRow =>
        /\ \A e \in prepared : /\ e.case \in Case
                               /\ e.by \in Examiner \ Campaign!Stakeholders(e.case)
        /\ \A c \in Historical : references[c] # NoRow /\ references[c].preparedBy = Nobody
        /\ \A c \in Case \ Historical : references[c] # NoRow =>
              /\ references[c].preparedBy \in Examiner
              /\ references[c].by # references[c].preparedBy
              /\ {references[c].by, references[c].preparedBy} \cap Campaign!Stakeholders(c) = {}

\* Who evaluated made none of the references, who reviewed none of the numbers.
EvaluationIsIndependent ==
    Evaluated =>
        /\ \A c \in Case : references[c] # NoRow
        /\ campaign.evaluatedBy \in Examiner
        /\ campaign.evaluatedBy \notin Campaign!ReferenceActors \cup {campaign.createdBy}
        /\ \A c \in Campaign!Reviewed : reviews[c].by \notin Campaign!ExcludedReviewers(c)

\* Who approved did none of that, and everything that was reviewed was accepted.
ApprovalIsIndependent ==
    Campaign!InState({"PASSED"}) =>
        /\ campaign.finalizedBy \notin Campaign!ReferenceActors \cup
              {campaign.createdBy, campaign.evaluatedBy} \cup
              {reviews[c].by : c \in Campaign!Reviewed}
        /\ \A c \in Case : reviews[c] # Open
        /\ \A c \in Campaign!Reviewed : reviews[c].decision = "ACCEPTED"

\* The inductive invariant of the campaign.
CampaignInv ==
    /\ Campaign!CampaignTypeOK
    /\ build \in Build
    /\ RowsOfCampaign
    /\ ReferencesAreIndependent
    /\ EvaluationIsIndependent
    /\ ApprovalIsIndependent

LEMMA CampaignInitInv ==
    ASSUME CampaignConstants, Campaign!CampaignInit
    PROVE  CampaignInv
  BY DEF Campaign!CampaignInit, CampaignInv, Campaign!CampaignTypeOK, RowsOfCampaign,
         ReferencesAreIndependent, EvaluationIsIndependent, ApprovalIsIndependent, Evaluated,
         Campaign!InState

\* The row of a campaign is written once with its inputs.
LEMMA CreateCampaignInv ==
    ASSUME CampaignConstants, CampaignInv,
           NEW a \in Examiner, NEW authors \in [Case -> Examiner],
           Campaign!CreateCampaign(a, authors)
    PROVE  CampaignInv'
  <1> DEFINE row == [status |-> "INPUTS_LOCKED", createdBy |-> a, snapshotBy |-> authors,
                     evaluatedBy |-> Nobody, finalizedBy |-> Nobody, build |-> build]
             reference == [by |-> a, preparedBy |-> Nobody]
  <1>1. row \in Campaign!CampaignRow /\ reference \in ReferenceRow /\ reference # NoRow
    BY DEF CampaignInv, Campaign!CampaignRow, ReferenceRow, CampaignConstants
  <1>2. /\ campaign = NoRow /\ campaign' = row
        /\ references' = [c \in Case |-> IF c \in Historical THEN reference ELSE NoRow]
        /\ UNCHANGED <<prepared, reviews, build>>
    BY DEF Campaign!CreateCampaign
  <1>3. row.status = "INPUTS_LOCKED" /\ reference.preparedBy = Nobody
    OBVIOUS
  <1> HIDE DEF row, reference
  <1>4. ~ Evaluated' /\ ~ Campaign!InState({"PASSED"})'
    BY <1>2, <1>3 DEF Evaluated, Campaign!InState
  <1>5. RowsOfCampaign'
    <2>1. ~ Evaluated
      BY <1>2 DEF Evaluated, Campaign!InState
    <2>2. campaign' # NoRow
      BY <1>1, <1>2 DEF CampaignConstants
    <2> QED BY <1>1, <1>2, <1>4, <2>1, <2>2 DEF CampaignInv, RowsOfCampaign
  <1>6. ReferencesAreIndependent'
    <2>1. prepared' = {}
      BY <1>2 DEF CampaignInv, RowsOfCampaign
    <2> QED BY <1>1, <1>2, <1>3, <2>1 DEF ReferencesAreIndependent, CampaignConstants
  <1> QED
    BY <1>1, <1>2, <1>4, <1>5, <1>6
       DEF CampaignInv, Campaign!CampaignTypeOK, EvaluationIsIndependent, ApprovalIsIndependent

\* While the inputs are locked, evidence is prepared and references registered.
LEMMA InputsLocked ==
    ASSUME CampaignConstants, CampaignInv, Campaign!InState({"INPUTS_LOCKED"})
    PROVE  /\ campaign # NoRow
           /\ campaign \in Campaign!CampaignRow
           /\ ~ Evaluated /\ ~ Campaign!InState({"PASSED"})
           /\ \A c \in Case : reviews[c] = NoRow
  BY DEF CampaignInv, Campaign!CampaignTypeOK, RowsOfCampaign, Evaluated, Campaign!InState

LEMMA PrepareReferenceInv ==
    ASSUME CampaignConstants, CampaignInv, NEW a \in Examiner, NEW c \in Case,
           Campaign!PrepareReference(a, c)
    PROVE  CampaignInv'
  <1>1. /\ Campaign!InState({"INPUTS_LOCKED"})
        /\ a \notin Campaign!Stakeholders(c)
        /\ prepared' = prepared \cup {[case |-> c, by |-> a]}
        /\ UNCHANGED <<campaign, references, reviews, build>>
    BY DEF Campaign!PrepareReference
  <1>2. /\ Campaign!CampaignTypeOK'
        /\ \A x \in Case : Campaign!Stakeholders(x)' = Campaign!Stakeholders(x)
        /\ ~ Evaluated' /\ ~ Campaign!InState({"PASSED"})'
    BY <1>1, InputsLocked
       DEF CampaignInv, Campaign!CampaignTypeOK, Campaign!Stakeholders, Evaluated, Campaign!InState
  <1>3. RowsOfCampaign'
    BY <1>1, <1>2, InputsLocked DEF CampaignInv, RowsOfCampaign
  <1>4. ReferencesAreIndependent'
    <2>1. \A e \in prepared' : /\ e.case \in Case
                               /\ e.by \in Examiner \ Campaign!Stakeholders(e.case)
      BY <1>1, InputsLocked DEF CampaignInv, ReferencesAreIndependent
    <2>2. Historical \subseteq Case
      BY DEF CampaignConstants
    <2> QED BY <1>1, <1>2, <2>1, <2>2, InputsLocked DEF CampaignInv, ReferencesAreIndependent
  <1> QED
    BY <1>1, <1>2, <1>3, <1>4 DEF CampaignInv, EvaluationIsIndependent, ApprovalIsIndependent

LEMMA RegisterReferenceInv ==
    ASSUME CampaignConstants, CampaignInv, NEW a \in Examiner, NEW c \in Case, NEW e \in prepared,
           Campaign!RegisterReference(a, c, e)
    PROVE  CampaignInv'
  <1> DEFINE row == [by |-> a, preparedBy |-> e.by]
  <1>1. /\ Campaign!InState({"INPUTS_LOCKED"})
        /\ c \notin Historical
        /\ e.case = c /\ a \notin Campaign!Stakeholders(c) /\ a # e.by
        /\ references' = [references EXCEPT ![c] = row]
        /\ UNCHANGED <<campaign, prepared, reviews, build>>
    BY DEF Campaign!RegisterReference, Campaign!Registrable
  <1>2. e.by \in Examiner \ Campaign!Stakeholders(c)
    BY <1>1, InputsLocked DEF CampaignInv, ReferencesAreIndependent
  <1>3. /\ row \in ReferenceRow /\ row # NoRow
        /\ row.preparedBy \in Examiner /\ row.by # row.preparedBy
        /\ {row.by, row.preparedBy} \cap Campaign!Stakeholders(c) = {}
    BY <1>1, <1>2 DEF ReferenceRow, CampaignConstants
  <1> HIDE DEF row
  <1>4. /\ references' \in [Case -> ReferenceRow \cup {NoRow}]
        /\ references'[c] = row
        /\ \A x \in Case : x # c => references'[x] = references[x]
    BY <1>1, <1>3 DEF CampaignInv, RowsOfCampaign
  <1>5. /\ Campaign!CampaignTypeOK'
        /\ \A x \in Case : Campaign!Stakeholders(x)' = Campaign!Stakeholders(x)
        /\ ~ Evaluated' /\ ~ Campaign!InState({"PASSED"})'
    BY <1>1, InputsLocked
       DEF CampaignInv, Campaign!CampaignTypeOK, Campaign!Stakeholders, Evaluated, Campaign!InState
  <1>6. RowsOfCampaign'
    BY <1>1, <1>4, <1>5, InputsLocked DEF CampaignInv, RowsOfCampaign
  <1>7. ReferencesAreIndependent'
    <2>1. Historical \subseteq Case
      BY DEF CampaignConstants
    <2> QED
      BY <1>1, <1>3, <1>4, <1>5, <2>1, InputsLocked DEF CampaignInv, ReferencesAreIndependent
  <1> QED
    BY <1>1, <1>5, <1>6, <1>7 DEF CampaignInv, EvaluationIsIndependent, ApprovalIsIndependent

\* The evaluator comes in after all references.
LEMMA EvaluateInv ==
    ASSUME CampaignConstants, CampaignInv, NEW a \in Examiner, NEW passed \in BOOLEAN,
           NEW material \in SUBSET Case, Campaign!Evaluate(a, passed, material)
    PROVE  CampaignInv'
  <1> DEFINE row == [campaign EXCEPT !.status = IF passed THEN "EXPERT_REVIEW" ELSE "FAILED",
                                     !.evaluatedBy = a]
  <1>1. /\ Campaign!InState({"INPUTS_LOCKED"})
        /\ \A c \in Case : references[c] # NoRow
        /\ a # campaign.createdBy /\ a \notin Campaign!ReferenceActors
        /\ campaign' = row
        /\ reviews' = [c \in Case |-> IF c \in material THEN Open ELSE NoRow]
        /\ UNCHANGED <<prepared, references, build>>
    BY DEF Campaign!Evaluate, Campaign!Evaluable
  <1>2. /\ row \in Campaign!CampaignRow /\ row # NoRow
        /\ row.status \in {"EXPERT_REVIEW", "FAILED"}
        /\ row.createdBy = campaign.createdBy /\ row.snapshotBy = campaign.snapshotBy
        /\ row.evaluatedBy = a
    BY <1>1, InputsLocked DEF Campaign!CampaignRow, CampaignConstants
  <1> HIDE DEF row
  <1>3. /\ Campaign!CampaignTypeOK'
        /\ \A x \in Case : Campaign!Stakeholders(x)' = Campaign!Stakeholders(x)
        /\ Campaign!ReferenceActors' = Campaign!ReferenceActors
        /\ Evaluated' /\ ~ Campaign!InState({"PASSED"})'
        /\ campaign # NoRow
    BY <1>1, <1>2, InputsLocked
       DEF Campaign!CampaignTypeOK, Campaign!Stakeholders, Campaign!ReferenceActors,
           Evaluated, Campaign!InState
  <1>4. Campaign!Reviewed' = {}
    BY <1>1 DEF Campaign!Reviewed
  <1>5. RowsOfCampaign'
    BY <1>1, <1>2, <1>3 DEF CampaignInv, RowsOfCampaign
  <1>6. ReferencesAreIndependent'
    BY <1>1, <1>3 DEF CampaignInv, ReferencesAreIndependent, CampaignConstants
  <1>7. EvaluationIsIndependent'
    BY <1>1, <1>2, <1>3, <1>4 DEF EvaluationIsIndependent
  <1> QED BY <1>1, <1>3, <1>5, <1>6, <1>7 DEF CampaignInv, ApprovalIsIndependent

\* A review is written once, by somebody who had no part in the number.
LEMMA ReviewDiscrepancyInv ==
    ASSUME CampaignConstants, CampaignInv, NEW a \in Examiner, NEW c \in Case,
           NEW decision \in {"ACCEPTED", "REJECTED"}, Campaign!ReviewDiscrepancy(a, c, decision)
    PROVE  CampaignInv'
  <1> DEFINE row == [by |-> a, decision |-> decision]
  <1>1. /\ Campaign!InState({"EXPERT_REVIEW", "FAILED"})
        /\ a \notin Campaign!ExcludedReviewers(c)
        /\ reviews' = [reviews EXCEPT ![c] = row]
        /\ UNCHANGED <<campaign, prepared, references, build>>
    BY DEF Campaign!ReviewDiscrepancy
  <1>2. row \in ReviewRow /\ row.by = a
    BY DEF ReviewRow
  <1> HIDE DEF row
  <1>3. /\ reviews' \in [Case -> ReviewRow \cup {NoRow, Open}]
        /\ reviews'[c] = row
        /\ \A x \in Case : x # c => reviews'[x] = reviews[x]
    BY <1>1, <1>2 DEF CampaignInv, RowsOfCampaign
  <1>4. /\ Campaign!CampaignTypeOK'
        /\ \A x \in Case : Campaign!Stakeholders(x)' = Campaign!Stakeholders(x)
        /\ Campaign!ReferenceActors' = Campaign!ReferenceActors
        /\ Evaluated /\ Evaluated' /\ ~ Campaign!InState({"PASSED"})'
    BY <1>1 DEF CampaignInv, Campaign!CampaignTypeOK, Campaign!Stakeholders,
                Campaign!ReferenceActors, Evaluated, Campaign!InState
  <1>5. RowsOfCampaign'
    BY <1>1, <1>3, <1>4 DEF CampaignInv, RowsOfCampaign
  <1>6. ReferencesAreIndependent'
    BY <1>1, <1>4 DEF CampaignInv, ReferencesAreIndependent
  <1>7. EvaluationIsIndependent'
    <2>1. \A x \in Case : Campaign!ExcludedReviewers(x)' = Campaign!ExcludedReviewers(x)
      BY <1>1, <1>4 DEF Campaign!ExcludedReviewers
    <2>2. Campaign!Reviewed' \subseteq Campaign!Reviewed \cup {c}
      BY <1>3 DEF Campaign!Reviewed
    <2>3. ASSUME NEW x \in Campaign!Reviewed'
          PROVE  reviews'[x].by \notin Campaign!ExcludedReviewers(x)'
      <3>1. x \in Case
        BY DEF Campaign!Reviewed
      <3>2. CASE x = c
        BY <1>1, <1>2, <1>3, <2>1, <3>1, <3>2
      <3>3. CASE x # c
        BY <1>3, <1>4, <2>1, <2>2, <3>1, <3>3 DEF CampaignInv, EvaluationIsIndependent
      <3> QED BY <3>2, <3>3
    <2> QED BY <1>1, <1>4, <2>3 DEF CampaignInv, EvaluationIsIndependent
  <1> QED BY <1>1, <1>4, <1>5, <1>6, <1>7 DEF CampaignInv, ApprovalIsIndependent

\* The approver comes in last.
LEMMA ApproveCampaignInv ==
    ASSUME CampaignConstants, CampaignInv, NEW a \in Examiner, Campaign!ApproveCampaign(a)
    PROVE  CampaignInv'
  <1> DEFINE row == [campaign EXCEPT !.status = "PASSED", !.finalizedBy = a]
  <1>1. /\ Campaign!InState({"EXPERT_REVIEW"})
        /\ Campaign!Approvable(a)
        /\ campaign' = row
        /\ UNCHANGED <<prepared, references, reviews, build>>
    BY DEF Campaign!ApproveCampaign
  <1>2. /\ campaign # NoRow /\ campaign \in Campaign!CampaignRow
        /\ Evaluated
    BY <1>1 DEF CampaignInv, Campaign!CampaignTypeOK, Campaign!InState, Evaluated
  <1>3. /\ row \in Campaign!CampaignRow /\ row # NoRow
        /\ row.status = "PASSED"
        /\ row.createdBy = campaign.createdBy /\ row.snapshotBy = campaign.snapshotBy
        /\ row.evaluatedBy = campaign.evaluatedBy /\ row.finalizedBy = a
    BY <1>2 DEF Campaign!CampaignRow, CampaignConstants
  <1> HIDE DEF row
  <1>4. /\ Campaign!CampaignTypeOK'
        /\ \A x \in Case : Campaign!Stakeholders(x)' = Campaign!Stakeholders(x)
        /\ Campaign!ReferenceActors' = Campaign!ReferenceActors
        /\ Campaign!Reviewed' = Campaign!Reviewed
        /\ Evaluated' /\ Campaign!InState({"PASSED"})'
    BY <1>1, <1>3 DEF Campaign!CampaignTypeOK, Campaign!Stakeholders, Campaign!ReferenceActors,
                      Campaign!Reviewed, Evaluated, Campaign!InState
  <1>5. RowsOfCampaign'
    BY <1>1, <1>3, <1>4 DEF CampaignInv, RowsOfCampaign
  <1>6. ReferencesAreIndependent'
    BY <1>1, <1>2, <1>4 DEF CampaignInv, ReferencesAreIndependent
  <1>7. EvaluationIsIndependent'
    <2>1. \A x \in Case : Campaign!ExcludedReviewers(x)' = Campaign!ExcludedReviewers(x)
      BY <1>1, <1>3, <1>4 DEF Campaign!ExcludedReviewers
    <2>2. Campaign!Reviewed \subseteq Case
      BY DEF Campaign!Reviewed
    <2> QED
      BY <1>1, <1>2, <1>3, <1>4, <2>1, <2>2 DEF CampaignInv, EvaluationIsIndependent
  <1>8. ApprovalIsIndependent'
    BY <1>1, <1>3, <1>4 DEF ApprovalIsIndependent, Campaign!Approvable
  <1> QED BY <1>1, <1>4, <1>5, <1>6, <1>7, <1>8 DEF CampaignInv

LEMMA CampaignUnchanged ==
    ASSUME CampaignConstants, CampaignInv, build' \in Build,
           UNCHANGED <<campaign, prepared, references, reviews>>
    PROVE  CampaignInv'
  <1>1. /\ Campaign!CampaignTypeOK'
        /\ \A x \in Case : Campaign!Stakeholders(x)' = Campaign!Stakeholders(x)
        /\ Campaign!ReferenceActors' = Campaign!ReferenceActors
        /\ Campaign!Reviewed' = Campaign!Reviewed
        /\ Evaluated' = Evaluated
        /\ Campaign!InState({"PASSED"})' = Campaign!InState({"PASSED"})
        /\ \A x \in Case : Campaign!ExcludedReviewers(x)' = Campaign!ExcludedReviewers(x)
        /\ Campaign!Reviewed \subseteq Case
    BY DEF CampaignInv, Campaign!CampaignTypeOK, Campaign!Stakeholders, Campaign!ReferenceActors,
           Campaign!Reviewed, Evaluated, Campaign!InState, Campaign!ExcludedReviewers
  <1>2. RowsOfCampaign' /\ ReferencesAreIndependent'
    BY <1>1 DEF CampaignInv, RowsOfCampaign, ReferencesAreIndependent
  <1>3. EvaluationIsIndependent' /\ ApprovalIsIndependent'
    BY <1>1 DEF CampaignInv, EvaluationIsIndependent, ApprovalIsIndependent
  <1> QED BY <1>1, <1>2, <1>3 DEF CampaignInv

LEMMA CampaignNextInv ==
    ASSUME CampaignConstants, CampaignInv, Campaign!CampaignNext
    PROVE  CampaignInv'
  <1>1. ASSUME NEW b \in Build, Campaign!Deploy(b)
        PROVE  CampaignInv'
    BY <1>1, CampaignUnchanged DEF Campaign!Deploy
  <1> QED
    BY <1>1, CreateCampaignInv, PrepareReferenceInv, RegisterReferenceInv, EvaluateInv,
       ReviewDiscrepancyInv, ApproveCampaignInv DEF Campaign!CampaignNext

LEMMA CampaignStutter ==
    ASSUME CampaignConstants, CampaignInv, UNCHANGED Campaign!campaignVars
    PROVE  CampaignInv'
  BY CampaignUnchanged DEF Campaign!campaignVars, CampaignInv

\* What the release needs of a campaign.
CampaignIsSound ==
    /\ Campaign!CampaignTypeOK
    /\ Campaign!PassedIsIndependent
    /\ Campaign!PassedCampaignVerifies

\* The instance counts as the library does.
LEMMA ThreePeople ==
    ASSUME NEW a, NEW b, NEW c, a # b, a # c, b # c
    PROVE  Campaign!Cardinality({a, b, c}) = 3
  <1>1. IsFiniteSet({c}) /\ Cardinality({c}) = 1
    BY FS_Singleton
  <1>2. IsFiniteSet({b, c}) /\ Cardinality({b, c}) = 2
    <2>1. {b, c} = {c} \cup {b} /\ b \notin {c}
      OBVIOUS
    <2> QED BY <1>1, <2>1, FS_AddElement
  <1>3. Cardinality({a, b, c}) = 3
    <2>1. {a, b, c} = {b, c} \cup {a} /\ a \notin {b, c}
      OBVIOUS
    <2> QED BY <1>2, <2>1, FS_AddElement
  <1>4. Campaign!Cardinality({a, b, c}) = Cardinality({a, b, c})
    BY DEF Campaign!Cardinality, Cardinality
  <1> QED BY <1>3, <1>4

LEMMA CampaignInvStands ==
    ASSUME CampaignConstants, CampaignInv
    PROVE  CampaignIsSound
  <1>1. Campaign!InState({"PASSED"}) => Evaluated /\ campaign # NoRow
    BY DEF Evaluated, Campaign!InState
  <1>2. ASSUME Campaign!InState({"PASSED"})
        PROVE  Campaign!PassedIsIndependent
    <2>1. /\ campaign.evaluatedBy \notin Campaign!ReferenceActors \cup {campaign.createdBy}
          /\ campaign.finalizedBy \notin Campaign!ReferenceActors \cup
               {campaign.createdBy, campaign.evaluatedBy} \cup
               {reviews[c].by : c \in Campaign!Reviewed}
      BY <1>1, <1>2 DEF CampaignInv, EvaluationIsIndependent, ApprovalIsIndependent
    <2>2. \A c \in Case \ Historical :
              /\ references[c].by # references[c].preparedBy
              /\ {references[c].by, references[c].preparedBy} \cap Campaign!Stakeholders(c) = {}
      BY <1>1, <1>2 DEF CampaignInv, EvaluationIsIndependent, ReferencesAreIndependent
    <2>3. \A c \in Campaign!Reviewed : /\ reviews[c].decision = "ACCEPTED"
                                       /\ reviews[c].by \notin Campaign!ExcludedReviewers(c)
      BY <1>1, <1>2 DEF CampaignInv, EvaluationIsIndependent, ApprovalIsIndependent
    <2> QED BY <2>1, <2>2, <2>3 DEF Campaign!PassedIsIndependent
  <1>3. ASSUME Campaign!InState({"PASSED"}), campaign.build = build
        PROVE  Campaign!CampaignValid
    <2>1. Campaign!Cardinality({campaign.createdBy, campaign.evaluatedBy, campaign.finalizedBy}) = 3
      <3>1. PICK a, b, c : a = campaign.createdBy /\ b = campaign.evaluatedBy /\ c = campaign.finalizedBy
        OBVIOUS
      <3>2. a # b /\ a # c /\ b # c
        BY <1>2, <1>3, <3>1 DEF Campaign!PassedIsIndependent
      <3>3. Campaign!Cardinality({a, b, c}) = 3
        BY <3>2, ThreePeople
      <3> QED BY <3>1, <3>3
    <2>2. Campaign!ReferencesReproduce
      BY <1>1, <1>3 DEF CampaignInv, EvaluationIsIndependent, ReferencesAreIndependent,
                        Campaign!ReferencesReproduce, CampaignConstants
    <2>3. Campaign!ReviewsAccepted
      BY <1>3 DEF CampaignInv, ApprovalIsIndependent, Campaign!ReviewsAccepted
    <2>4. {campaign.evaluatedBy, campaign.finalizedBy} \cap Campaign!ReferenceActors = {}
      BY <1>2, <1>3 DEF Campaign!PassedIsIndependent
    <2> QED BY <1>3, <2>1, <2>2, <2>3, <2>4 DEF Campaign!CampaignValid
  <1>4. Campaign!PassedIsIndependent
    BY <1>2 DEF Campaign!PassedIsIndependent
  <1>5. Campaign!PassedCampaignVerifies
    BY <1>3 DEF Campaign!PassedCampaignVerifies
  <1> QED BY <1>4, <1>5 DEF CampaignInv, CampaignIsSound

\* Nobody judges a number of their own, whichever order the people of a campaign
\* work in, and the two validators of a passed campaign agree
\* (verify_and_register_reference, evaluate, review_discrepancy,
\* approve_campaign, _production_qualification_evidence_valid).
THEOREM CampaignsAreIndependent ==
    ASSUME CampaignConstants
    PROVE  Campaign!CampaignSpec => []CampaignIsSound
  <1>1. Campaign!CampaignInit => CampaignInv
    BY CampaignInitInv
  <1>2. CampaignInv /\ [Campaign!CampaignNext]_(Campaign!campaignVars) => CampaignInv'
    BY CampaignNextInv, CampaignStutter
  <1>3. CampaignInv => CampaignIsSound
    BY CampaignInvStands
  <1> QED BY <1>1, <1>2, <1>3, PTL DEF Campaign!CampaignSpec

\* A signature is there when the status says so.
SignaturesFollowStatus ==
    campaign # NoRow =>
        /\ campaign.status # "PASSED" => campaign.finalizedBy = Nobody
        /\ campaign.status = "INPUTS_LOCKED" => campaign.evaluatedBy = Nobody

LEMMA CampaignStep ==
    ASSUME CampaignConstants, CampaignInv, SignaturesFollowStatus,
           [Campaign!CampaignNext]_(Campaign!campaignVars)
    PROVE  SignaturesFollowStatus' /\ CampaignChangesLegally
  <1>1. CASE campaign' = campaign
    BY <1>1 DEF SignaturesFollowStatus, CampaignChangesLegally
  <1>2. ASSUME NEW a \in Examiner, NEW authors \in [Case -> Examiner],
               Campaign!CreateCampaign(a, authors)
        PROVE  SignaturesFollowStatus' /\ CampaignChangesLegally
    BY <1>2 DEF Campaign!CreateCampaign, SignaturesFollowStatus, CampaignChangesLegally
  <1>3. ASSUME NEW a \in Examiner, NEW passed \in BOOLEAN, NEW material \in SUBSET Case,
               Campaign!Evaluate(a, passed, material)
        PROVE  SignaturesFollowStatus' /\ CampaignChangesLegally
    <2>1. PICK status \in {"EXPERT_REVIEW", "FAILED"} :
              campaign' = [campaign EXCEPT !.status = status, !.evaluatedBy = a]
      BY <1>3 DEF Campaign!Evaluate
    <2>2. /\ campaign \in Campaign!CampaignRow
          /\ campaign.status = "INPUTS_LOCKED"
          /\ campaign.evaluatedBy = Nobody /\ campaign.finalizedBy = Nobody
      BY <1>3 DEF Campaign!Evaluate, Campaign!InState, CampaignInv, Campaign!CampaignTypeOK,
                  SignaturesFollowStatus
    <2>3. /\ campaign'.status = status /\ campaign'.evaluatedBy = a
          /\ campaign'.finalizedBy = Nobody
          /\ campaign' = [campaign EXCEPT !.status = campaign'.status,
                            !.evaluatedBy = campaign'.evaluatedBy,
                            !.finalizedBy = campaign'.finalizedBy]
      BY <2>1, <2>2 DEF Campaign!CampaignRow
    <2>4. a # Nobody
      BY DEF CampaignConstants
    <2> QED
      BY <2>2, <2>3, <2>4
         DEF Campaign!CampaignChangeAllowed, SignaturesFollowStatus, CampaignChangesLegally
  <1>4. ASSUME NEW a \in Examiner, Campaign!ApproveCampaign(a)
        PROVE  SignaturesFollowStatus' /\ CampaignChangesLegally
    <2>1. /\ campaign' = [campaign EXCEPT !.status = "PASSED", !.finalizedBy = a]
          /\ campaign \in Campaign!CampaignRow
          /\ campaign.status = "EXPERT_REVIEW" /\ campaign.finalizedBy = Nobody
      BY <1>4 DEF Campaign!ApproveCampaign, Campaign!InState, CampaignInv, Campaign!CampaignTypeOK,
                  SignaturesFollowStatus
    <2>2. /\ campaign'.status = "PASSED" /\ campaign'.finalizedBy = a
          /\ campaign'.evaluatedBy = campaign.evaluatedBy
          /\ campaign' = [campaign EXCEPT !.status = campaign'.status,
                            !.evaluatedBy = campaign'.evaluatedBy,
                            !.finalizedBy = campaign'.finalizedBy]
      BY <2>1 DEF Campaign!CampaignRow
    <2>3. a # Nobody
      BY DEF CampaignConstants
    <2> QED
      BY <2>1, <2>2, <2>3
         DEF Campaign!CampaignChangeAllowed, SignaturesFollowStatus, CampaignChangesLegally
  <1> QED
    BY <1>1, <1>2, <1>3, <1>4
       DEF Campaign!CampaignNext, Campaign!campaignVars, Campaign!PrepareReference,
           Campaign!RegisterReference, Campaign!ReviewDiscrepancy, Campaign!Deploy

\* The service never tries an update of a campaign that its trigger refuses.
THEOREM CampaignsFollowTheirTrigger ==
    ASSUME CampaignConstants
    PROVE  Campaign!CampaignSpec => [][CampaignChangesLegally]_(Campaign!campaignVars)
  <1>1. Campaign!CampaignInit => CampaignInv /\ SignaturesFollowStatus
    BY CampaignInitInv DEF Campaign!CampaignInit, SignaturesFollowStatus
  <1>2. CampaignInv /\ SignaturesFollowStatus /\ [Campaign!CampaignNext]_(Campaign!campaignVars)
            => CampaignInv' /\ SignaturesFollowStatus'
    BY CampaignNextInv, CampaignStutter, CampaignStep
  <1>3. CampaignInv /\ SignaturesFollowStatus /\ [Campaign!CampaignNext]_(Campaign!campaignVars)
            => [CampaignChangesLegally]_(Campaign!campaignVars)
    BY CampaignStep
  <1> QED BY <1>1, <1>2, <1>3, PTL DEF Campaign!CampaignSpec

-----------------------------------------------------------------------------
(* The quotas of requests.                                                  *)

\* The quota of a bucket.
Quota(b) == IF b = Organization THEN OrganizationLimit ELSE CallerLimit

\* A request before and after it read the clock.
NewCall == [step |-> "new"]
StartedCall ==
    [step : {"caller", "organization", "done", "lost", "served", "limited", "unavailable"},
     caller : Caller, policy : Policy, at : Nat, rows : Seq(Rates!BucketRow)]

\* A row follows the committed one: the next count of its window, or a newer one.
Follows(b, row, at) ==
    /\ row.window = Rates!Window(at)
    /\ buckets[b] # NoBucket =>
          \/ buckets[b].window < row.window
          \/ buckets[b].window = row.window /\ row.count = buckets[b].count + 1

\* An open transaction holds the rows it wrote, which follow the committed ones.
OpenRowsFollow ==
    \A c \in Call :
        /\ calls[c].step = "caller" => calls[c].rows = <<>>
        /\ calls[c].step = "organization" =>
              Len(calls[c].rows) = 1 /\ Follows(calls[c].caller, calls[c].rows[1], calls[c].at)
        /\ calls[c].step = "done" =>
              /\ Len(calls[c].rows) = 2
              /\ Follows(calls[c].caller, calls[c].rows[1], calls[c].at)
              /\ Follows(Organization, calls[c].rows[2], calls[c].at)

\* No two open transactions hold one row.
LocksAreExclusive ==
    \A c, d \in Call : c # d => Rates!Holding(c) \cap Rates!Holding(d) = {}

\* Whatever was served is counted in the committed row of its window, which no
\* older window replaces.
ServedIsCounted ==
    \A b \in Rates!Bucket, w \in Nat :
        /\ Rates!Cardinality(Rates!Served(b, w)) <= Quota(b)
        /\ Rates!Served(b, w) # {} => buckets[b] # NoBucket /\ w <= buckets[b].window
        /\ buckets[b] # NoBucket /\ buckets[b].window = w =>
              Rates!Cardinality(Rates!Served(b, w)) <= buckets[b].count

\* The inductive invariant of the quotas.
RateInv ==
    /\ buckets \in [Rates!Bucket -> Rates!BucketRow \cup {NoBucket}]
    /\ calls \in [Call -> StartedCall \cup {NewCall}]
    /\ second \in 0 .. LastSecond
    /\ OpenRowsFollow
    /\ LocksAreExclusive
    /\ ServedIsCounted

LEMMA RatesCardinality ==
    ASSUME NEW S
    PROVE  Rates!Cardinality(S) = Cardinality(S)
  BY DEF Rates!Cardinality, Cardinality

LEMMA WindowNat ==
    ASSUME RateConstants, NEW t \in Nat
    PROVE  Rates!Window(t) \in Nat
  BY DEF RateConstants, Rates!Window

\* Served requests are a finite set.
LEMMA ServedFinite ==
    ASSUME RateConstants, NEW b, NEW w
    PROVE  IsFiniteSet(Rates!Served(b, w))
  BY FS_Subset DEF RateConstants, Rates!Served

LEMMA RateInitInv ==
    ASSUME RateConstants, Rates!RateInit
    PROVE  RateInv
  <1>1. /\ \A c \in Call : calls[c] = NewCall
        /\ calls = [c \in Call |-> NewCall]
        /\ buckets \in [Rates!Bucket -> Rates!BucketRow \cup {NoBucket}]
        /\ second \in 0 .. LastSecond
    BY DEF Rates!RateInit, NewCall, RateConstants
  <1>2. \A c \in Call : calls[c].step = "new"
    BY <1>1 DEF NewCall
  <1>3. OpenRowsFollow /\ LocksAreExclusive
    BY <1>2 DEF OpenRowsFollow, LocksAreExclusive, Rates!Holding
  <1>4. ServedIsCounted
    <2>1. \A b \in Rates!Bucket : buckets[b] = NoBucket
      BY DEF Rates!RateInit
    <2>2. \A b \in Rates!Bucket, w \in Nat : Rates!Served(b, w) = {}
      BY <1>2 DEF Rates!Served
    <2>3. \A b \in Rates!Bucket : Quota(b) \in Nat
      BY DEF Quota, RateConstants
    <2>4. Rates!Cardinality({}) = 0
      BY FS_EmptySet, RatesCardinality
    <2> QED BY <2>1, <2>2, <2>3, <2>4 DEF ServedIsCounted
  <1> QED BY <1>1, <1>3, <1>4 DEF RateInv

\* A step that serves no request and commits no row.
LEMMA NothingServed ==
    ASSUME RateInv, buckets' = buckets,
           \A c \in Call : calls'[c] = calls[c] \/ "served" \notin {calls[c].step, calls'[c].step}
    PROVE  ServedIsCounted'
  <1>1. \A b \in Rates!Bucket, w \in Nat : Rates!Served(b, w)' = Rates!Served(b, w)
    BY DEF Rates!Served
  <1> QED BY <1>1 DEF RateInv, ServedIsCounted

\* What a started request carries.
LEMMA StartedTyped ==
    ASSUME RateInv, NEW c \in Call, calls[c].step # "new"
    PROVE  /\ calls[c] \in StartedCall
           /\ calls[c].caller \in Caller /\ calls[c].policy \in Policy /\ calls[c].at \in Nat
           /\ calls[c].rows \in Seq(Rates!BucketRow)
  BY DEF RateInv, StartedCall, NewCall

\* A request that changes alone, and neither commits nor is served.
LEMMA CallStep ==
    ASSUME RateConstants, RateInv, NEW c \in Call, NEW row \in StartedCall,
           calls' = [calls EXCEPT ![c] = row], UNCHANGED <<buckets, second>>,
           "served" \notin {calls[c].step, row.step},
           row.step = "caller" => row.rows = <<>>,
           row.step = "organization" =>
              /\ Len(row.rows) = 1 /\ Follows(row.caller, row.rows[1], row.at)
              /\ \A d \in Call \ {c} : row.caller \notin Rates!Holding(d),
           row.step = "done" =>
              /\ Len(row.rows) = 2
              /\ Follows(row.caller, row.rows[1], row.at)
              /\ Follows(Organization, row.rows[2], row.at)
              /\ \A d \in Call \ {c} : {row.caller, Organization} \cap Rates!Holding(d) = {}
    PROVE  RateInv'
  <1>1. /\ calls' \in [Call -> StartedCall \cup {NewCall}]
        /\ calls'[c] = row
        /\ \A d \in Call : d # c => calls'[d] = calls[d]
    BY DEF RateInv
  <1>2. \A b, at, new : Follows(b, new, at)' = Follows(b, new, at)
    BY DEF Follows, Rates!Window
  <1>3. OpenRowsFollow'
    BY <1>1, <1>2 DEF RateInv, OpenRowsFollow, Follows, Rates!Window
  <1>4. LocksAreExclusive'
    <2>1. \A d \in Call \ {c} : Rates!Holding(d)' = Rates!Holding(d)
      BY <1>1 DEF Rates!Holding
    <2>2. \A d \in Call \ {c} : Rates!Holding(c)' \cap Rates!Holding(d) = {}
      BY <1>1 DEF Rates!Holding
    <2> QED BY <2>1, <2>2 DEF RateInv, LocksAreExclusive
  <1>5. ServedIsCounted'
    BY <1>1, NothingServed
  <1> QED BY <1>1, <1>3, <1>4, <1>5 DEF RateInv

LEMMA StartInv ==
    ASSUME RateConstants, RateInv, NEW c \in Call, NEW a \in Caller, NEW p \in Policy,
           Rates!Start(c, a, p)
    PROVE  RateInv'
  <1> DEFINE row == [step |-> "caller", caller |-> a, policy |-> p, at |-> second, rows |-> <<>>]
  <1>1. row \in StartedCall /\ row.step = "caller" /\ row.rows = <<>>
    BY DEF StartedCall, RateInv, RateConstants
  <1>2. /\ calls' = [calls EXCEPT ![c] = row] /\ UNCHANGED <<buckets, second>>
        /\ calls[c].step = "new"
    BY DEF Rates!Start
  <1> HIDE DEF row
  <1> QED BY <1>1, <1>2, CallStep

\* The row that an increment writes.
LEMMA NextRowFollows ==
    ASSUME RateConstants, RateInv, NEW c \in Call, calls[c].step \in {"caller", "organization"},
           Rates!Increments(c)
    PROVE  LET b == Rates!BucketOf(c)
               row == Rates!NextRow(buckets[b], c)
           IN  row \in Rates!BucketRow /\ Follows(b, row, calls[c].at)
  <1> DEFINE b == Rates!BucketOf(c)
             row == Rates!NextRow(buckets[b], c)
  <1>1. /\ b \in Rates!Bucket
        /\ calls[c].policy \in Policy /\ calls[c].at \in Nat
        /\ Rates!Window(calls[c].at) \in Nat
    BY StartedTyped, WindowNat DEF Rates!BucketOf, Rates!Bucket
  <1>2. buckets[b] \in Rates!BucketRow \cup {NoBucket}
    BY <1>1 DEF RateInv
  <1>3. PICK old : old = buckets[b]
    OBVIOUS
  <1>4. /\ row = [policy |-> calls[c].policy, window |-> Rates!Window(calls[c].at),
                  updated |-> calls[c].at,
                  count |-> IF old # NoBucket /\ Rates!SameWindow(old, c) THEN old.count + 1 ELSE 1]
        /\ old # NoBucket => Rates!Applies(old, c)
    BY <1>3 DEF Rates!NextRow, Rates!Increments
  <1>5. old # NoBucket => old.count \in Nat \ {0} /\ old.window \in Nat
    BY <1>2, <1>3 DEF Rates!BucketRow
  <1>6. row \in Rates!BucketRow
    BY <1>1, <1>4, <1>5 DEF Rates!BucketRow
  <1>7. row.window = Rates!Window(calls[c].at)
    BY <1>4
  <1>8. old # NoBucket => \/ old.window < row.window
                          \/ old.window = row.window /\ row.count = old.count + 1
    BY <1>4, <1>7 DEF Rates!Applies, Rates!SameWindow
  <1> QED BY <1>3, <1>6, <1>7, <1>8 DEF Follows

LEMMA IncrementInv ==
    ASSUME RateConstants, RateInv, NEW c \in Call, Rates!Increment(c)
    PROVE  RateInv'
  <1>1. /\ calls[c].step \in {"caller", "organization"}
        /\ \A d \in Call : Rates!BucketOf(c) \notin Rates!Holding(d)
        /\ UNCHANGED <<buckets, second>>
    BY DEF Rates!Increment, Rates!Locked
  <1>2. PICK old : old = calls[c]
    OBVIOUS
  <1>3. /\ old \in StartedCall /\ old.rows \in Seq(Rates!BucketRow)
        /\ old.step = calls[c].step /\ old.caller \in Caller
    BY <1>1, <1>2, StartedTyped
  <1>4. CASE ~ Rates!Increments(c)
    <2> DEFINE row == [old EXCEPT !.step = "unavailable"]
    <2>1. calls' = [calls EXCEPT ![c] = row]
      BY <1>2, <1>4 DEF Rates!Increment, RateInv
    <2>2. row \in StartedCall /\ row.step = "unavailable"
      BY <1>3 DEF StartedCall
    <2> HIDE DEF row
    <2> QED BY <1>1, <2>1, <2>2, CallStep
  <1>5. CASE Rates!Increments(c)
    <2> DEFINE next == Rates!NextRow(buckets[Rates!BucketOf(c)], c)
               step == IF old.step = "caller" THEN "organization" ELSE "done"
               row == [old EXCEPT !.rows = Append(old.rows, next), !.step = step]
    <2>1. next \in Rates!BucketRow /\ Follows(Rates!BucketOf(c), next, old.at)
      BY <1>1, <1>2, <1>5, NextRowFollows
    <2>2. calls' = [calls EXCEPT ![c] = row]
      BY <1>2, <1>5 DEF Rates!Increment, RateInv
    <2> HIDE DEF next
    <2>3. /\ row \in StartedCall
          /\ row.step = step /\ row.caller = old.caller /\ row.at = old.at
          /\ row.rows = Append(old.rows, next)
      <3>0. PICK written \in Seq(Rates!BucketRow), new \in Rates!BucketRow :
                written = old.rows /\ new = next
        BY <1>3, <2>1
      <3>1. PICK list \in Seq(Rates!BucketRow) : list = Append(old.rows, next)
        <4>1. Append(written, new) \in Seq(Rates!BucketRow)
          OBVIOUS
        <4> QED BY <3>0, <4>1
      <3>2. PICK s \in {"organization", "done"} : s = step
        OBVIOUS
      <3>3. row = [old EXCEPT !.rows = list, !.step = s]
        BY <3>1, <3>2
      <3> HIDE DEF row, step
      <3> QED BY <1>3, <3>1, <3>2, <3>3 DEF StartedCall
    <2> HIDE DEF row
    <2>4. CASE old.step = "caller"
      <3>1. old.rows = <<>> /\ step = "organization" /\ Rates!BucketOf(c) = old.caller
        BY <1>2, <2>4 DEF RateInv, OpenRowsFollow, Rates!BucketOf
      <3>2. Len(row.rows) = 1 /\ row.rows[1] = next
        BY <2>1, <2>3, <3>1
      <3> QED BY <1>1, <1>2, <2>1, <2>2, <2>3, <2>4, <3>1, <3>2, CallStep
    <2>5. CASE old.step = "organization"
      <3>1. /\ Len(old.rows) = 1 /\ Follows(old.caller, old.rows[1], old.at)
            /\ step = "done" /\ Rates!BucketOf(c) = Organization
        BY <1>2, <2>5 DEF RateInv, OpenRowsFollow, Rates!BucketOf
      <3>2. Len(row.rows) = 2 /\ row.rows[1] = old.rows[1] /\ row.rows[2] = next
        BY <1>3, <2>1, <2>3, <3>1
      <3>3. old.caller \in Rates!Holding(c)
        BY <1>2, <2>5 DEF Rates!Holding
      <3>4. \A d \in Call \ {c} : {row.caller, Organization} \cap Rates!Holding(d) = {}
        BY <1>1, <2>3, <3>1, <3>3 DEF RateInv, LocksAreExclusive
      <3> QED BY <1>1, <1>2, <2>1, <2>2, <2>3, <2>5, <3>1, <3>2, <3>4, CallStep
    <2> QED BY <1>1, <1>2, <2>4, <2>5
  <1> QED BY <1>4, <1>5

\* One more served request is one more in the row that its transaction commits.
LEMMA CommittedIsCounted ==
    ASSUME RateConstants, RateInv, NEW c \in Call, calls[c].step = "done",
           NEW b \in {calls[c].caller, Organization}, NEW row \in Rates!BucketRow,
           Follows(b, row, calls[c].at), buckets'[b] = row,
           NEW served \in BOOLEAN, served => row.count <= Quota(b),
           NEW w \in Nat,
           Rates!Served(b, w)' = Rates!Served(b, w) \cup
                (IF served /\ w = Rates!Window(calls[c].at) THEN {c} ELSE {})
    PROVE  /\ Rates!Cardinality(Rates!Served(b, w)') <= Quota(b)
           /\ Rates!Served(b, w)' # {} => buckets'[b] # NoBucket /\ w <= buckets'[b].window
           /\ buckets'[b] # NoBucket /\ buckets'[b].window = w =>
                 Rates!Cardinality(Rates!Served(b, w)') <= buckets'[b].count
  <1>1. /\ b \in Rates!Bucket
        /\ row.count \in Nat \ {0} /\ row.window \in Nat /\ row # NoBucket
        /\ row.window = Rates!Window(calls[c].at)
        /\ buckets[b] # NoBucket => /\ buckets[b].window \in Nat
                                    /\ buckets[b].count \in Nat
    BY StartedTyped DEF Rates!Bucket, Rates!BucketRow, RateInv, RateConstants, Follows
  <1>2. PICK before, after : before = Rates!Served(b, w) /\ after = Rates!Served(b, w)'
    OBVIOUS
  <1>3. /\ IsFiniteSet(before) /\ Cardinality(before) \in Nat
        /\ Cardinality(before) <= Quota(b)
        /\ before # {} => buckets[b] # NoBucket /\ w <= buckets[b].window
        /\ buckets[b] # NoBucket /\ buckets[b].window = w => Cardinality(before) <= buckets[b].count
        /\ Quota(b) \in Nat
    BY <1>1, <1>2, ServedFinite, FS_CardinalityType, RatesCardinality
       DEF RateInv, ServedIsCounted, Quota, RateConstants
  <1>4. CASE after = before
    <2>1. after # {} => w <= row.window
      BY <1>1, <1>3, <1>4 DEF Follows
    <2>2. row.window = w => Cardinality(after) <= row.count
      <3>1. CASE before = {}
        BY <1>1, <1>4, <3>1, FS_EmptySet
      <3>2. CASE before # {}
        BY <1>1, <1>3, <1>4, <3>2 DEF Follows
      <3> QED BY <3>1, <3>2
    <2> QED BY <1>1, <1>2, <1>3, <1>4, <2>1, <2>2, RatesCardinality
  <1>5. CASE served /\ w = row.window /\ after = before \cup {c} /\ c \notin before
    <2>1. Cardinality(after) = Cardinality(before) + 1
      BY <1>3, <1>5, FS_AddElement
    <2>2. Cardinality(after) <= row.count
      <3>1. CASE before = {}
        BY <1>1, <2>1, <3>1, FS_EmptySet
      <3>2. CASE before # {}
        BY <1>1, <1>3, <1>5, <2>1, <3>2 DEF Follows
      <3> QED BY <3>1, <3>2
    <2> QED BY <1>1, <1>2, <1>3, <1>5, <2>1, <2>2, RatesCardinality
  <1>6. c \notin before
    BY <1>2 DEF Rates!Served
  <1> QED BY <1>1, <1>2, <1>4, <1>5, <1>6

LEMMA AnswerInv ==
    ASSUME RateConstants, RateInv, NEW c \in Call, Rates!Answer(c)
    PROVE  RateInv'
  <1>1. calls[c].step = "done" /\ UNCHANGED second
    BY DEF Rates!Answer
  <1>2. PICK old, a, r1, r2 : /\ old = calls[c] /\ a = calls[c].caller
                              /\ r1 = calls[c].rows[1] /\ r2 = calls[c].rows[2]
    OBVIOUS
  <1>3. /\ old \in StartedCall /\ a \in Caller /\ old.at \in Nat
        /\ r1 \in Rates!BucketRow /\ r2 \in Rates!BucketRow
        /\ Follows(a, r1, old.at) /\ Follows(Organization, r2, old.at)
        /\ a # Organization /\ {a, Organization} \subseteq Rates!Bucket
    BY <1>1, <1>2, StartedTyped DEF RateInv, OpenRowsFollow, RateConstants, Rates!Bucket
  <1>4. PICK served \in BOOLEAN : served = Rates!WithinLimits(c)
    BY DEF Rates!WithinLimits
  <1>5. served => r1.count <= Quota(a) /\ r2.count <= Quota(Organization)
    BY <1>2, <1>3, <1>4 DEF Rates!WithinLimits, Quota
  <1>6. PICK row : row = [old EXCEPT !.step = IF served THEN "served" ELSE "limited"]
    OBVIOUS
  <1>7. /\ row \in StartedCall /\ row.caller = a /\ row.at = old.at
        /\ row.step = IF served THEN "served" ELSE "limited"
    BY <1>2, <1>3, <1>6 DEF StartedCall
  <1>8. /\ calls' \in [Call -> StartedCall \cup {NewCall}]
        /\ calls'[c] = row
        /\ \A d \in Call : d # c => calls'[d] = calls[d]
    BY <1>2, <1>4, <1>6, <1>7 DEF Rates!Answer, RateInv
  <1>9. /\ buckets' \in [Rates!Bucket -> Rates!BucketRow \cup {NoBucket}]
        /\ buckets'[a] = r1 /\ buckets'[Organization] = r2
        /\ \A b \in Rates!Bucket \ {a, Organization} : buckets'[b] = buckets[b]
    BY <1>2, <1>3 DEF Rates!Answer, RateInv
  <1>10. Rates!Holding(c) = {a, Organization}
    BY <1>1, <1>2 DEF Rates!Holding
  <1>11. OpenRowsFollow'
    <2>1. ASSUME NEW d \in Call, NEW b \in Rates!Holding(d), d # c, NEW at, NEW new
          PROVE  b \in Rates!Bucket => Follows(b, new, at)' = Follows(b, new, at)
      BY <1>9, <1>10, <2>1 DEF RateInv, LocksAreExclusive, Follows, Rates!Window
    <2>2. ASSUME NEW d \in Call, calls[d].step \in {"organization", "done"}, d # c
          PROVE  /\ calls[d].caller \in Rates!Holding(d) \cap Rates!Bucket
                 /\ calls[d].step = "done" => Organization \in Rates!Holding(d)
      BY <2>2, StartedTyped DEF Rates!Holding, Rates!Bucket
    <2>3. ASSUME NEW d \in Call, d # c
          PROVE  /\ calls'[d].step = "caller" => calls'[d].rows = <<>>
                 /\ calls'[d].step = "organization" =>
                      /\ Len(calls'[d].rows) = 1
                      /\ Follows(calls[d].caller, calls[d].rows[1], calls[d].at)'
                 /\ calls'[d].step = "done" =>
                      /\ Len(calls'[d].rows) = 2
                      /\ Follows(calls[d].caller, calls[d].rows[1], calls[d].at)'
                      /\ Follows(Organization, calls[d].rows[2], calls[d].at)'
      <3>1. calls'[d] = calls[d]
        BY <1>8, <2>3
      <3>2. PICK o, p, q1, q2, at : /\ o = calls[d] /\ p = calls[d].caller /\ at = calls[d].at
                                    /\ q1 = calls[d].rows[1] /\ q2 = calls[d].rows[2]
        OBVIOUS
      <3>3. CASE o.step = "organization"
        <4>1. Follows(p, q1, at)' = Follows(p, q1, at)
          BY <2>1, <2>2, <2>3, <3>2, <3>3
        <4> QED BY <3>1, <3>2, <3>3, <4>1 DEF RateInv, OpenRowsFollow, Follows, Rates!Window
      <3>4. CASE o.step = "done"
        <4>1. /\ Follows(p, q1, at)' = Follows(p, q1, at)
              /\ Follows(Organization, q2, at)' = Follows(Organization, q2, at)
          BY <1>3, <2>1, <2>2, <2>3, <3>2, <3>4
        <4> QED BY <3>1, <3>2, <3>4, <4>1 DEF RateInv, OpenRowsFollow, Follows, Rates!Window
      <3>5. CASE o.step \notin {"organization", "done"}
        BY <3>1, <3>2, <3>5 DEF RateInv, OpenRowsFollow
      <3> QED BY <3>3, <3>4, <3>5
    <2>4. calls'[c].step \notin {"caller", "organization", "done"}
      BY <1>7, <1>8
    <2> QED BY <1>8, <2>3, <2>4 DEF OpenRowsFollow, Follows, Rates!Window
  <1>12. LocksAreExclusive'
    <2>1. \A d \in Call : Rates!Holding(d)' \subseteq Rates!Holding(d)
      BY <1>7, <1>8 DEF Rates!Holding
    <2> QED BY <2>1 DEF RateInv, LocksAreExclusive
  <1>13. ServedIsCounted'
    <2> SUFFICES ASSUME NEW b \in Rates!Bucket, NEW w \in Nat
                 PROVE  /\ Rates!Cardinality(Rates!Served(b, w)') <= Quota(b)
                        /\ Rates!Served(b, w)' # {} =>
                              buckets'[b] # NoBucket /\ w <= buckets'[b].window
                        /\ buckets'[b] # NoBucket /\ buckets'[b].window = w =>
                              Rates!Cardinality(Rates!Served(b, w)') <= buckets'[b].count
      BY DEF ServedIsCounted, Rates!Bucket, Quota
    <2>1. Rates!Served(b, w)' = Rates!Served(b, w) \cup
             (IF served /\ b \in {a, Organization} /\ w = Rates!Window(old.at) THEN {c} ELSE {})
      BY <1>1, <1>2, <1>7, <1>8 DEF Rates!Served, Rates!Window
    <2>2. CASE b \notin {a, Organization}
      BY <1>9, <2>1, <2>2 DEF RateInv, ServedIsCounted
    <2>3. CASE b = a
      BY <1>1, <1>2, <1>3, <1>5, <1>9, <2>1, <2>3, CommittedIsCounted
    <2>4. CASE b = Organization
      BY <1>1, <1>2, <1>3, <1>5, <1>9, <2>1, <2>4, CommittedIsCounted
    <2> QED BY <2>2, <2>3, <2>4
  <1> QED BY <1>1, <1>8, <1>9, <1>11, <1>12, <1>13 DEF RateInv

LEMMA RateNextInv ==
    ASSUME RateConstants, RateInv, Rates!RateNext
    PROVE  RateInv'
  <1>1. CASE \E c \in Call, a \in Caller, p \in Policy : Rates!Start(c, a, p)
    BY <1>1, StartInv
  <1>2. CASE \E c \in Call : Rates!Increment(c)
    BY <1>2, IncrementInv
  <1>3. CASE \E c \in Call : Rates!Answer(c)
    BY <1>3, AnswerInv
  <1>4. ASSUME NEW c \in Call, Rates!Unavailable(c)
        PROVE  RateInv'
    <2>1. PICK old : old = calls[c]
      OBVIOUS
    <2>2. /\ old \in StartedCall /\ old.step \in {"caller", "organization", "done"}
          /\ UNCHANGED <<buckets, second>>
      BY <1>4, <2>1, StartedTyped DEF Rates!Unavailable
    <2>3. PICK row : row = [old EXCEPT !.step = "lost"]
      OBVIOUS
    <2>4. row \in StartedCall /\ row.step = "lost"
      BY <2>2, <2>3 DEF StartedCall
    <2>5. calls' = [calls EXCEPT ![c] = row]
      BY <1>4, <2>1, <2>3 DEF Rates!Unavailable, RateInv
    <2> QED BY <2>1, <2>2, <2>4, <2>5, CallStep
  <1>5. CASE Rates!Tick
    <2>1. UNCHANGED <<buckets, calls>> /\ second' \in 0 .. LastSecond
      BY <1>5 DEF Rates!Tick, RateInv, RateConstants
    <2>2. OpenRowsFollow' /\ LocksAreExclusive'
      BY <2>1 DEF RateInv, OpenRowsFollow, Follows, Rates!Window, LocksAreExclusive, Rates!Holding
    <2> QED BY <2>1, <2>2, NothingServed DEF RateInv
  <1> QED BY <1>1, <1>2, <1>3, <1>4, <1>5 DEF Rates!RateNext

LEMMA RateStutter ==
    ASSUME RateInv, UNCHANGED Rates!rateVars
    PROVE  RateInv'
  <1>1. UNCHANGED <<buckets, calls, second>>
    BY DEF Rates!rateVars
  <1>2. OpenRowsFollow' /\ LocksAreExclusive'
    BY <1>1 DEF RateInv, OpenRowsFollow, Follows, Rates!Window, LocksAreExclusive, Rates!Holding
  <1> QED BY <1>1, <1>2, NothingServed DEF RateInv

LEMMA RateInvHolds ==
    ASSUME RateConstants, RateInv
    PROVE  Rates!RateTypeOK /\ Rates!QuotaHolds
  <1>1. Rates!RateTypeOK
    <2>1. ASSUME NEW c \in Call
          PROVE  calls[c].step \in {"new", "caller", "organization", "done", "lost"} \cup Rates!Outcome
      <3>1. calls[c] \in StartedCall \cup {NewCall}
        BY DEF RateInv
      <3> QED BY <3>1 DEF StartedCall, NewCall, Rates!Outcome
    <2> QED BY <2>1 DEF RateInv, Rates!RateTypeOK
  <1>2. Rates!QuotaHolds
    <2>1. Rates!Window(LastSecond) \in Nat
      BY WindowNat DEF RateConstants
    <2>2. ASSUME NEW w \in 0 .. Rates!Window(LastSecond)
          PROVE  /\ \A a \in Caller : Rates!Cardinality(Rates!Served(a, w)) <= CallerLimit
                 /\ Rates!Cardinality(Rates!Served(Organization, w)) <= OrganizationLimit
      <3>1. w \in Nat
        BY <2>1
      <3>2. \A b \in Rates!Bucket : Rates!Cardinality(Rates!Served(b, w)) <= Quota(b)
        BY <3>1 DEF RateInv, ServedIsCounted
      <3> QED BY <3>2 DEF Rates!Bucket, Quota, RateConstants
    <2> QED BY <2>2 DEF Rates!QuotaHolds
  <1> QED BY <1>1, <1>2

\* Concurrent requests never get more than the quota of their window, neither a
\* caller nor the organization, whichever instances count them and under
\* whichever policy (consume, _increment).
THEOREM QuotasHold ==
    ASSUME RateConstants
    PROVE  Rates!RateSpec => [](Rates!RateTypeOK /\ Rates!QuotaHolds)
  <1>1. Rates!RateInit => RateInv
    BY RateInitInv
  <1>2. RateInv /\ [Rates!RateNext]_(Rates!rateVars) => RateInv'
    BY RateNextInv, RateStutter
  <1>3. RateInv => Rates!RateTypeOK /\ Rates!QuotaHolds
    BY RateInvHolds
  <1> QED BY <1>1, <1>2, <1>3, PTL DEF Rates!RateSpec

-----------------------------------------------------------------------------
(* The anchors of the audit history.                                        *)

\* AuditEventRow: what its hash stands for, and the hash before it.
EventRow == [at : Nat \ {0}, previous : Nat, key : Key]

\* Each event of a chain names the one before it.
Linked(chain) == \A i \in 1 .. Len(chain) : i > 1 => chain[i].previous = chain[i - 1].at

\* An event that is in the table, or that a manifest was made over.
Seen(e) ==
    \/ \E c \in Chain : \E i \in 1 .. Len(chains[c]) : e = chains[c][i]
    \/ \E m \in objects : \E c \in Chain : \E i \in 1 .. Len(m.covers[c]) : e = m.covers[c][i]

\* No two events have one hash, and the clock has passed them all.
HashesAreUnique ==
    /\ \A e, f \in EventRow : Seen(e) /\ Seen(f) /\ e.at = f.at => e = f
    /\ \A e \in EventRow : Seen(e) => e.at < moment

\* A manifest says where the chains it was made over end.
ManifestsStand ==
    \A m \in objects :
        /\ m.covers \in [Chain -> Seq(EventRow)]
        /\ \A c \in Chain : Linked(m.covers[c])
        /\ \A c \in Chain : m.covers[c] # <<>> =>
              /\ c \in DOMAIN m.terminals
              /\ m.terminals[c].sequence = Len(m.covers[c])
              /\ m.terminals[c].hash = m.covers[c][Len(m.covers[c])].at

\* The inductive invariant of the anchors.
AnchorInv ==
    /\ chains \in [Chain -> Seq(EventRow)]
    /\ moment \in Nat \ {0}
    /\ activeKey \in Key
    /\ checkpoints = [k \in Checkpoint |-> checkpoints[k]]
    /\ receipts = [k \in Checkpoint |-> receipts[k]]
    /\ HashesAreUnique
    /\ ManifestsStand
    /\ Anchors!ReceiptsAreIndependent

\* The greatest of some positions.
LEMMA LastOfPositions ==
    ASSUME NEW n \in Nat, NEW T \in SUBSET (1 .. n), T # {}
    PROVE  \E x \in T : \A y \in T : y <= x
  <1> DEFINE U == {k \in Nat : k <= n /\ n - k \in T}
  <1>1. U \subseteq Nat
    OBVIOUS
  <1>2. \A y \in T : y \in 1 .. n /\ n - y \in U /\ n - (n - y) = y
    <2> SUFFICES ASSUME NEW y \in T
                 PROVE  y \in 1 .. n /\ n - y \in U /\ n - (n - y) = y
      OBVIOUS
    <2>1. y \in 1 .. n
      OBVIOUS
    <2>2. n - y \in Nat /\ n - y <= n /\ n - (n - y) = y
      BY <2>1
    <2> QED BY <2>1, <2>2
  <1>3. U # {}
    BY <1>2
  <1> HIDE DEF U
  <1>4. PICK u \in U : \A v \in U : ~ (<<v, u>> \in OpToRel(<, Nat))
    BY <1>1, <1>3, NatLessThanWellFounded, WFMin
  <1>5. \A v \in U : ~ (v < u)
    BY <1>1, <1>4 DEF OpToRel
  <1>6. u \in Nat /\ n - u \in T
    BY <1>1, <1>4 DEF U
  <1>7. ASSUME NEW y \in T
        PROVE  y <= n - u
    <2>1. y \in 1 .. n /\ n - y \in U
      BY <1>2
    <2>2. ~ (n - y < u)
      BY <1>5, <2>1
    <2> QED BY <1>6, <2>1, <2>2
  <1> QED BY <1>6, <1>7

\* Two linked histories whose events have hashes of their own agree up to an
\* event that they share.
LEMMA HistoriesAgree ==
    ASSUME NEW s \in Seq(EventRow), NEW t \in Seq(EventRow), Linked(s), Linked(t),
           NEW n \in 1 .. Len(s), n <= Len(t), s[n] = t[n],
           \A i, j \in Nat : i \in 1 .. Len(s) /\ j \in 1 .. Len(t) /\ s[i].at = t[j].at
                                => s[i] = t[j]
    PROVE  \A i \in 1 .. n : s[i] = t[i]
  <1> DEFINE Bad == {i \in 1 .. n : s[i] # t[i]}
  <1>1. SUFFICES ASSUME Bad # {}
                 PROVE  FALSE
    OBVIOUS
  <1>2. PICK x \in Bad : \A y \in Bad : y <= x
    <2>1. Bad \in SUBSET (1 .. n) /\ n \in Nat
      OBVIOUS
    <2> HIDE DEF Bad
    <2> QED BY <1>1, <2>1, LastOfPositions
  <1>3. x \in 1 .. n /\ x # n /\ x + 1 \in 1 .. n /\ x + 1 \notin Bad
    BY <1>2
  <1>4. s[x + 1] = t[x + 1]
    BY <1>3
  <1>5. s[x + 1].previous = s[x].at /\ t[x + 1].previous = t[x].at
    <2>1. x + 1 \in 1 .. Len(s) /\ x + 1 \in 1 .. Len(t) /\ x + 1 > 1 /\ (x + 1) - 1 = x
      BY <1>3
    <2> QED BY <2>1 DEF Linked
  <1>6. s[x].at = t[x].at
    BY <1>4, <1>5
  <1>7. s[x] = t[x]
    BY <1>3, <1>6
  <1> QED BY <1>2, <1>7

\* A chain that verifies is linked.
LEMMA VerifiedIsLinked ==
    ASSUME NEW chain \in Seq(EventRow), Anchors!ChainVerifies(chain)
    PROVE  Linked(chain)
  <1> SUFFICES ASSUME NEW i \in 1 .. Len(chain), i > 1
               PROVE  chain[i].previous = chain[i - 1].at
    BY DEF Linked
  <1>1. chain[i].previous = Anchors!LastHash(SubSeq(chain, 1, i - 1))
    BY DEF Anchors!ChainVerifies
  <1>2. PICK before : before = SubSeq(chain, 1, i - 1)
    OBVIOUS
  <1>3. Len(before) = i - 1 /\ before[i - 1] = chain[i - 1] /\ before # <<>>
    <2>1. 1 \in 1 .. Len(chain) + 1 /\ i - 1 \in 0 .. Len(chain) /\ 1 <= i - 1
      OBVIOUS
    <2>2. Len(before) = i - 1 /\ \A k \in 1 .. i - 1 : before[k] = chain[k]
      BY <1>2, <2>1, SubSeqProperties
    <2> QED BY <2>1, <2>2
  <1>4. Anchors!LastHash(before) = before[i - 1].at
    BY <1>3 DEF Anchors!LastHash, Anchors!Last
  <1> QED BY <1>1, <1>2, <1>3, <1>4

LEMMA AnchorInitInv ==
    ASSUME Anchors!AnchorInit
    PROVE  AnchorInv
  <1> USE DEF Anchors!AnchorInit
  <1>1. /\ chains \in [Chain -> Seq(EventRow)] /\ moment \in Nat \ {0} /\ activeKey \in Key
        /\ checkpoints = [k \in Checkpoint |-> checkpoints[k]]
        /\ receipts = [k \in Checkpoint |-> receipts[k]]
    OBVIOUS
  <1>2. \A e : ~ Seen(e)
    BY DEF Seen
  <1>3. HashesAreUnique /\ ManifestsStand
    BY <1>2 DEF HashesAreUnique, ManifestsStand
  <1>4. Anchors!ReceiptsAreIndependent
    BY DEF Anchors!ReceiptsAreIndependent, Anchors!Receipted
  <1> QED BY <1>1, <1>3, <1>4 DEF AnchorInv

\* Only what was seen before is seen after.
LEMMA NothingNewSeen ==
    ASSUME HashesAreUnique, \A e : Seen(e)' => Seen(e), moment' = moment
    PROVE  HashesAreUnique'
  BY DEF HashesAreUnique

LEMMA RecordEventInv ==
    ASSUME AnchorInv, NEW c \in Chain, Anchors!RecordEvent(c)
    PROVE  AnchorInv'
  <1>1. PICK new : new = [at |-> moment, previous |-> Anchors!LastHash(chains[c]), key |-> activeKey]
    OBVIOUS
  <1>2. PICK old : old = chains[c]
    OBVIOUS
  <1>3. /\ chains' = [chains EXCEPT ![c] = Append(old, new)]
        /\ moment' = moment + 1
        /\ UNCHANGED <<objects, checkpoints, receipts, signed, activeKey, keyring>>
        /\ old \in Seq(EventRow)
    BY <1>1, <1>2 DEF Anchors!RecordEvent, AnchorInv
  <1>4. Anchors!LastHash(old) \in Nat
    <2>1. CASE old = <<>>
      BY <2>1 DEF Anchors!LastHash
    <2>2. CASE old # <<>>
      <3>1. Len(old) \in 1 .. Len(old) /\ old[Len(old)] \in EventRow
        BY <1>3, <2>2
      <3> QED BY <2>2, <3>1 DEF Anchors!LastHash, Anchors!Last, EventRow
    <2> QED BY <2>1, <2>2
  <1>5. new \in EventRow /\ new.at = moment
    BY <1>1, <1>2, <1>4 DEF EventRow, AnchorInv
  <1>6. /\ chains' \in [Chain -> Seq(EventRow)]
        /\ chains'[c] = Append(old, new)
        /\ \A d \in Chain : d # c => chains'[d] = chains[d]
    <2>1. Append(old, new) \in Seq(EventRow)
      BY <1>3, <1>5
    <2> QED BY <1>3, <2>1 DEF AnchorInv
  <1>7. \A e : Seen(e)' => Seen(e) \/ e = new
    <2> SUFFICES ASSUME NEW e, Seen(e)'
                 PROVE  Seen(e) \/ e = new
      OBVIOUS
    <2>1. CASE \E m \in objects' : \E d \in Chain : \E i \in 1 .. Len(m.covers[d]) : e = m.covers[d][i]
      BY <1>3, <2>1 DEF Seen
    <2>2. ASSUME NEW d \in Chain, NEW i \in 1 .. Len(chains'[d]), e = chains'[d][i]
          PROVE  Seen(e) \/ e = new
      <3>1. CASE d # c
        BY <1>6, <2>2, <3>1 DEF Seen
      <3>2. CASE d = c
        <4>1. i \in 1 .. Len(old) + 1 /\ e = Append(old, new)[i]
          BY <1>3, <1>6, <2>2, <3>2
        <4>2. (i \in 1 .. Len(old) /\ e = old[i]) \/ e = new
          BY <1>3, <4>1
        <4> QED BY <1>2, <4>2 DEF Seen
      <3> QED BY <3>1, <3>2
    <2> QED BY <2>1, <2>2 DEF Seen
  <1>8. HashesAreUnique'
    <2>1. \A e \in EventRow : Seen(e)' => (Seen(e) /\ e.at < moment) \/ e = new
      BY <1>7 DEF AnchorInv, HashesAreUnique
    <2>2. ASSUME NEW e \in EventRow, NEW f \in EventRow, Seen(e)', Seen(f)', e.at = f.at
          PROVE  e = f
      <3>1. /\ moment \in Nat
            /\ e.at < moment => e # new
            /\ f.at < moment => f # new
        BY <1>5 DEF AnchorInv
      <3>2. CASE e.at < moment
        <4>1. Seen(e) /\ Seen(f)
          BY <1>5, <2>1, <2>2, <3>1, <3>2
        <4> QED BY <2>2, <4>1 DEF AnchorInv, HashesAreUnique
      <3>3. CASE ~ (e.at < moment)
        <4>1. e = new /\ f = new
          BY <2>1, <2>2, <3>3
        <4> QED BY <4>1
      <3> QED BY <3>2, <3>3
    <2>3. ASSUME NEW e \in EventRow, Seen(e)'
          PROVE  e.at < moment'
      <3>1. e.at \in Nat /\ moment \in Nat /\ moment' = moment + 1
        BY <1>3 DEF AnchorInv, EventRow
      <3>2. e.at < moment \/ e.at = moment
        BY <1>5, <2>1, <2>3
      <3>3. e.at < moment + 1
        BY <3>1, <3>2
      <3> QED BY <3>1, <3>3
    <2> QED BY <2>2, <2>3 DEF HashesAreUnique
  <1>9. ManifestsStand'
    BY <1>3 DEF AnchorInv, ManifestsStand
  <1>10. Anchors!ReceiptsAreIndependent'
    BY <1>3 DEF AnchorInv, Anchors!ReceiptsAreIndependent, Anchors!Receipted, Anchors!ManifestReadable
  <1> QED BY <1>3, <1>6, <1>8, <1>9, <1>10 DEF AnchorInv

\* A manifest is made over chains that verify.
LEMMA PutManifestInv ==
    ASSUME AnchorInv, NEW k \in Checkpoint, Anchors!PutManifest(k)
    PROVE  AnchorInv'
  <1>1. PICK terminals, count : terminals = Anchors!Terminals /\ count = Anchors!EventCount
    OBVIOUS
  <1>2. PICK new : new = [id |-> k, terminals |-> terminals, count |-> count, at |-> moment,
                          covers |-> chains]
    OBVIOUS
  <1>3. /\ objects' = objects \cup {new}
        /\ \A c \in Chain : Anchors!ChainVerifies(chains[c])
        /\ UNCHANGED <<chains, checkpoints, receipts, signed, activeKey, keyring, moment>>
        /\ new.covers = chains /\ new.terminals = terminals
    BY <1>1, <1>2 DEF Anchors!PutManifest
  <1>4. HashesAreUnique'
    <2>1. \A e : Seen(e)' => Seen(e)
      BY <1>3 DEF Seen
    <2> QED BY <1>3, <2>1, NothingNewSeen DEF AnchorInv
  <1>5. ManifestsStand'
    <2>1. new.covers \in [Chain -> Seq(EventRow)] /\ \A c \in Chain : Linked(new.covers[c])
      BY <1>3, VerifiedIsLinked DEF AnchorInv
    <2>2. ASSUME NEW c \in Chain, chains[c] # <<>>
          PROVE  /\ c \in DOMAIN terminals
                 /\ terminals[c].sequence = Len(chains[c])
                 /\ terminals[c].hash = chains[c][Len(chains[c])].at
      <3>1. Anchors!LastHash(chains[c]) = chains[c][Len(chains[c])].at
        BY <2>2 DEF Anchors!LastHash, Anchors!Last
      <3> QED BY <1>1, <2>2, <3>1 DEF Anchors!Terminals
    <2> QED BY <1>3, <2>1, <2>2 DEF AnchorInv, ManifestsStand
  <1>6. Anchors!ReceiptsAreIndependent'
    BY <1>3 DEF AnchorInv, Anchors!ReceiptsAreIndependent, Anchors!Receipted, Anchors!ManifestReadable
  <1> QED BY <1>3, <1>4, <1>5, <1>6 DEF AnchorInv

\* What is cut out is gone, and nothing comes in its place.
LEMMA CutOutInv ==
    ASSUME AnchorInv, NEW c \in Chain, NEW n \in DOMAIN chains[c], Anchors!CutOut(c, n)
    PROVE  AnchorInv'
  <1>1. PICK old, left : old = chains[c] /\ left = Anchors!RemoveAt(old, n)
    OBVIOUS
  <1>2. /\ chains' = [chains EXCEPT ![c] = left]
        /\ UNCHANGED <<objects, checkpoints, receipts, signed, activeKey, keyring, moment>>
        /\ old \in Seq(EventRow) /\ n \in 1 .. Len(old)
    BY <1>1 DEF Anchors!CutOut, AnchorInv
  <1>3. PICK head, tail : head = SubSeq(old, 1, n - 1) /\ tail = SubSeq(old, n + 1, Len(old))
    OBVIOUS
  <1>4. /\ head \in Seq(EventRow) /\ tail \in Seq(EventRow)
        /\ \A i \in 1 .. Len(head) : \E j \in 1 .. Len(old) : head[i] = old[j]
        /\ \A i \in 1 .. Len(tail) : \E j \in 1 .. Len(old) : tail[i] = old[j]
    <2>1. /\ head \in Seq(EventRow)
          /\ Len(head) = n - 1
          /\ \A i \in 1 .. n - 1 : head[i] = old[i]
      BY <1>2, <1>3, SubSeqProperties
    <2>2. /\ tail \in Seq(EventRow)
          /\ Len(tail) = Len(old) - n
          /\ \A i \in 1 .. Len(old) - n : tail[i] = old[n + i]
      BY <1>2, <1>3, SubSeqProperties
    <2>3. ASSUME NEW i \in 1 .. Len(tail)
          PROVE  \E j \in 1 .. Len(old) : tail[i] = old[j]
      <3>1. n + i \in 1 .. Len(old) /\ tail[i] = old[n + i]
        BY <1>2, <2>2
      <3> QED BY <3>1
    <2>4. ASSUME NEW i \in 1 .. Len(head)
          PROVE  \E j \in 1 .. Len(old) : head[i] = old[j]
      <3>1. i \in 1 .. Len(old) /\ head[i] = old[i]
        BY <1>2, <2>1
      <3> QED BY <3>1
    <2> QED BY <2>1, <2>2, <2>3, <2>4
  <1>5. left = head \o tail
    BY <1>1, <1>3 DEF Anchors!RemoveAt
  <1>6. /\ left \in Seq(EventRow)
        /\ \A i \in 1 .. Len(left) : \E j \in 1 .. Len(old) : left[i] = old[j]
    <2>1. /\ left \in Seq(EventRow)
          /\ Len(left) = Len(head) + Len(tail)
          /\ \A i \in 1 .. Len(head) + Len(tail) :
                left[i] = IF i <= Len(head) THEN head[i] ELSE tail[i - Len(head)]
      BY <1>4, <1>5, ConcatProperties
    <2>2. ASSUME NEW i \in 1 .. Len(left)
          PROVE  \E j \in 1 .. Len(old) : left[i] = old[j]
      <3>1. Len(head) \in Nat /\ Len(tail) \in Nat /\ i \in 1 .. Len(head) + Len(tail)
        BY <1>4, <2>1
      <3>2. CASE i <= Len(head)
        <4>1. i \in 1 .. Len(head) /\ left[i] = head[i]
          BY <2>1, <3>1, <3>2
        <4> QED BY <1>4, <4>1
      <3>3. CASE i > Len(head)
        <4>1. i - Len(head) \in 1 .. Len(tail) /\ left[i] = tail[i - Len(head)]
          BY <2>1, <3>1, <3>3
        <4> QED BY <1>4, <4>1
      <3> QED BY <3>1, <3>2, <3>3
    <2> QED BY <2>1, <2>2
  <1>7. /\ chains' \in [Chain -> Seq(EventRow)]
        /\ chains'[c] = left
        /\ \A d \in Chain : d # c => chains'[d] = chains[d]
    BY <1>2, <1>6 DEF AnchorInv
  <1>8. HashesAreUnique'
    <2>1. ASSUME NEW e, Seen(e)'
          PROVE  Seen(e)
      <3>1. ASSUME NEW d \in Chain, NEW i \in 1 .. Len(chains'[d]), e = chains'[d][i]
            PROVE  Seen(e)
        <4>1. CASE d = c
          <5>1. PICK j \in 1 .. Len(old) : left[i] = old[j]
            BY <1>6, <1>7, <3>1, <4>1
          <5>2. e = chains[c][j] /\ j \in 1 .. Len(chains[c])
            BY <1>1, <1>7, <3>1, <4>1, <5>1
          <5> QED BY <5>2 DEF Seen
        <4>2. CASE d # c
          BY <1>7, <3>1, <4>2 DEF Seen
        <4> QED BY <4>1, <4>2
      <3>2. CASE \E m \in objects' : \E d \in Chain : \E i \in 1 .. Len(m.covers[d]) : e = m.covers[d][i]
        BY <1>2, <3>2 DEF Seen
      <3> QED BY <2>1, <3>1, <3>2 DEF Seen
    <2> QED BY <1>2, <2>1, NothingNewSeen DEF AnchorInv
  <1>9. ManifestsStand'
    BY <1>2 DEF AnchorInv, ManifestsStand
  <1>10. Anchors!ReceiptsAreIndependent'
    BY <1>2 DEF AnchorInv, Anchors!ReceiptsAreIndependent, Anchors!Receipted, Anchors!ManifestReadable
  <1> QED BY <1>2, <1>7, <1>8, <1>9, <1>10 DEF AnchorInv

LEMMA AnchorNextInv ==
    ASSUME AnchorInv, Anchors!AnchorNext
    PROVE  AnchorInv'
  <1>1. ASSUME NEW a \in Admin, NEW k \in Checkpoint, Anchors!CommitCheckpoint(a, k)
        PROVE  AnchorInv'
    <2>1. PICK m \in objects : checkpoints' = [checkpoints EXCEPT ![k] = [manifest |-> m, by |-> a]]
      BY <1>1 DEF Anchors!CommitCheckpoint
    <2>2. /\ checkpoints[k] = NoRow
          /\ UNCHANGED <<chains, objects, receipts, signed, activeKey, keyring, moment>>
      BY <1>1 DEF Anchors!CommitCheckpoint
    <2>3. PICK row : row = [manifest |-> m, by |-> a]
      OBVIOUS
    <2>4. /\ checkpoints' = [j \in Checkpoint |-> checkpoints'[j]]
          /\ checkpoints'[k] = row /\ row.manifest \in objects
          /\ \A j \in Checkpoint : j # k => checkpoints'[j] = checkpoints[j]
      BY <2>1, <2>3 DEF AnchorInv
    <2>5. HashesAreUnique' /\ ManifestsStand'
      BY <2>2 DEF AnchorInv, HashesAreUnique, Seen, ManifestsStand
    <2>6. Anchors!ReceiptsAreIndependent'
      BY <2>2, <2>4 DEF AnchorInv, Anchors!ReceiptsAreIndependent, Anchors!Receipted,
                        Anchors!ManifestReadable
    <2> QED BY <2>2, <2>4, <2>5, <2>6 DEF AnchorInv
  <1>2. ASSUME NEW k \in Checkpoint, Anchors!Notarize(k)
        PROVE  AnchorInv'
    <2>1. /\ signed \subseteq signed'
          /\ UNCHANGED <<chains, objects, checkpoints, receipts, activeKey, keyring, moment>>
      BY <1>2 DEF Anchors!Notarize
    <2>2. HashesAreUnique' /\ ManifestsStand'
      BY <2>1 DEF AnchorInv, HashesAreUnique, Seen, ManifestsStand
    <2>3. Anchors!ReceiptsAreIndependent'
      BY <2>1 DEF AnchorInv, Anchors!ReceiptsAreIndependent, Anchors!Receipted,
                  Anchors!ManifestReadable
    <2> QED BY <2>1, <2>2, <2>3 DEF AnchorInv
  <1>3. ASSUME NEW a \in Admin, NEW k \in Checkpoint, NEW t \in 1 .. LastMoment,
               Anchors!RegisterReceipt(a, k, t)
        PROVE  AnchorInv'
    <2>1. PICK row : row = [at |-> t, by |-> a]
      OBVIOUS
    <2>2. /\ checkpoints[k] # NoRow /\ checkpoints[k].by # a
          /\ <<k, t>> \in signed
          /\ receipts' = [receipts EXCEPT ![k] = row]
          /\ row.at = t /\ row.by = a
          /\ UNCHANGED <<chains, objects, checkpoints, signed, activeKey, keyring, moment>>
      BY <1>3, <2>1 DEF Anchors!RegisterReceipt, Anchors!Registrable
    <2>3. /\ receipts' = [j \in Checkpoint |-> receipts'[j]]
          /\ receipts'[k] = row
          /\ \A j \in Checkpoint : j # k => receipts'[j] = receipts[j]
      BY <2>2 DEF AnchorInv
    <2>4. HashesAreUnique' /\ ManifestsStand'
      BY <2>2 DEF AnchorInv, HashesAreUnique, Seen, ManifestsStand
    <2>5. Anchors!ReceiptsAreIndependent'
      BY <2>2, <2>3 DEF AnchorInv, Anchors!ReceiptsAreIndependent, Anchors!Receipted,
                        Anchors!ManifestReadable
    <2> QED BY <2>2, <2>3, <2>4, <2>5 DEF AnchorInv
  <1>4. ASSUME NEW key \in Key, Anchors!RotateKey(key)
        PROVE  AnchorInv'
    <2>1. /\ activeKey' \in Key
          /\ UNCHANGED <<chains, objects, checkpoints, receipts, signed, moment>>
      BY <1>4 DEF Anchors!RotateKey
    <2>2. HashesAreUnique' /\ ManifestsStand'
      BY <2>1 DEF AnchorInv, HashesAreUnique, Seen, ManifestsStand
    <2>3. Anchors!ReceiptsAreIndependent'
      BY <2>1 DEF AnchorInv, Anchors!ReceiptsAreIndependent, Anchors!Receipted,
                  Anchors!ManifestReadable
    <2> QED BY <2>1, <2>2, <2>3 DEF AnchorInv
  <1> QED
    BY <1>1, <1>2, <1>3, <1>4, RecordEventInv, CutOutInv, PutManifestInv DEF Anchors!AnchorNext

LEMMA AnchorStutter ==
    ASSUME AnchorInv, UNCHANGED Anchors!anchorVars
    PROVE  AnchorInv'
  <1>1. UNCHANGED <<chains, objects, checkpoints, receipts, signed, activeKey, keyring, moment>>
    BY DEF Anchors!anchorVars
  <1>2. HashesAreUnique' /\ ManifestsStand'
    BY <1>1 DEF AnchorInv, HashesAreUnique, Seen, ManifestsStand
  <1>3. Anchors!ReceiptsAreIndependent'
    BY <1>1 DEF AnchorInv, Anchors!ReceiptsAreIndependent, Anchors!Receipted, Anchors!ManifestReadable
  <1> QED BY <1>1, <1>2, <1>3 DEF AnchorInv

\* The terminal of a chain fixes everything that came before it.
LEMMA AnchorInvProves ==
    ASSUME AnchorInv
    PROVE  Anchors!AnchorProvesHistory
  <1> SUFFICES ASSUME NEW k \in Checkpoint, Anchors!AnchorValid(k), NEW c \in Chain
               PROVE  Anchors!IsPrefix(checkpoints[k].manifest.covers[c], chains[c])
    BY DEF Anchors!AnchorProvesHistory
  <1>1. PICK m : m = checkpoints[k].manifest
    OBVIOUS
  <1>2. m \in objects /\ Anchors!HistoryContains(m)
    BY <1>1 DEF AnchorInv, Anchors!AnchorValid, Anchors!ReceiptsAreIndependent,
                Anchors!ManifestReadable
  <1>3. PICK s, t : s = m.covers[c] /\ t = chains[c]
    OBVIOUS
  <1>4. /\ s \in Seq(EventRow) /\ t \in Seq(EventRow)
        /\ Linked(s) /\ Linked(t)
    BY <1>2, <1>3, VerifiedIsLinked DEF AnchorInv, ManifestsStand, Anchors!HistoryContains
  <1>5. CASE s = <<>>
    <2>1. Len(s) = 0 /\ SubSeq(s, 1, 0) = <<>> /\ SubSeq(t, 1, 0) = <<>>
      BY <1>4, <1>5, SubSeqEmpty
    <2> QED BY <1>1, <1>3, <1>4, <2>1 DEF Anchors!IsPrefix
  <1>6. CASE s # <<>>
    <2>1. PICK n : n = Len(s)
      OBVIOUS
    <2>2. n \in 1 .. Len(s)
      BY <1>4, <1>6, <2>1
    <2>3. /\ c \in DOMAIN m.terminals
          /\ m.terminals[c].sequence = n /\ m.terminals[c].hash = s[n].at
      BY <1>2, <1>3, <1>6, <2>1 DEF AnchorInv, ManifestsStand
    <2>4. n <= Len(t) /\ t[n].at = s[n].at
      BY <1>2, <1>3, <1>4, <2>2, <2>3 DEF Anchors!HistoryContains
    <2>5. ASSUME NEW i \in 1 .. Len(s), NEW j \in 1 .. Len(t), s[i].at = t[j].at
          PROVE  s[i] = t[j]
      <3>1. s[i] \in EventRow /\ t[j] \in EventRow
        BY <1>4
      <3>2. Seen(s[i]) /\ Seen(t[j])
        BY <1>2, <1>3 DEF Seen
      <3> QED BY <2>5, <3>1, <3>2 DEF AnchorInv, HashesAreUnique
    <2>6. n \in 1 .. Len(t) /\ s[n] = t[n]
      BY <1>4, <2>2, <2>4, <2>5
    <2>7. \A i \in 1 .. n : s[i] = t[i]
      BY <1>4, <2>2, <2>4, <2>5, <2>6, HistoriesAgree
    <2>8. SubSeq(s, 1, n) = SubSeq(t, 1, n)
      <3>1. /\ SubSeq(s, 1, n) \in Seq(EventRow) /\ Len(SubSeq(s, 1, n)) = n
            /\ \A i \in 1 .. n : SubSeq(s, 1, n)[i] = s[i]
        BY <1>4, <2>2, SubSeqProperties
      <3>2. /\ SubSeq(t, 1, n) \in Seq(EventRow) /\ Len(SubSeq(t, 1, n)) = n
            /\ \A i \in 1 .. n : SubSeq(t, 1, n)[i] = t[i]
        BY <1>4, <2>6, SubSeqProperties
      <3> QED BY <2>7, <3>1, <3>2, SeqEqual
    <2> QED BY <1>1, <1>3, <2>1, <2>4, <2>8 DEF Anchors!IsPrefix
  <1> QED BY <1>5, <1>6

\* A valid anchor proves that no event its checkpoint was made over is missing,
\* whatever was cut out and recorded since, and its receipt comes from the
\* notary through a second operator (create_checkpoint, register_receipt,
\* anchor_status).
THEOREM AnchorsProveHistory ==
    Anchors!AnchorSpec => [](Anchors!ReceiptsAreIndependent /\ Anchors!AnchorProvesHistory)
  <1>1. Anchors!AnchorInit => AnchorInv
    BY AnchorInitInv
  <1>2. AnchorInv /\ [Anchors!AnchorNext]_(Anchors!anchorVars) => AnchorInv'
    BY AnchorNextInv, AnchorStutter
  <1>3. AnchorInv => Anchors!ReceiptsAreIndependent /\ Anchors!AnchorProvesHistory
    BY AnchorInvProves DEF AnchorInv
  <1> QED BY <1>1, <1>2, <1>3, PTL DEF Anchors!AnchorSpec

-----------------------------------------------------------------------------
(* The verification of restores.                                            *)

\* A database: production, a backup of it or what was restored.
IsDatabase(db) ==
    /\ db = [docset |-> db.docset, snapshots |-> db.snapshots, status |-> db.status,
             evidence |-> db.evidence, scenarios |-> db.scenarios, exports |-> db.exports,
             checkpoint |-> db.checkpoint]
    /\ db.docset \in 1 .. MaxSets
    /\ db.snapshots \subseteq Restores!SnapshotRow

Has(db, s) == \E r \in db.snapshots : r.id = s

\* A backup has everything that was fixed before its hour; production has
\* everything that was fixed.
BackupsAreComplete ==
    /\ exercise = NoExercise => \A s \in Snapshot : fixedAt[s] # 0 => Has(live, s)
    /\ \A d \in dbBackups :
          /\ IsDatabase(d.db)
          /\ d.at \in 1 .. hour
          /\ \A s \in Snapshot : fixedAt[s] # 0 /\ fixedAt[s] < d.at => Has(d.db, s)

\* So does what was restored, of everything before the backup it was taken from.
RestoreReachesItsBackup ==
    exercise # NoExercise =>
        /\ exercise \in ExerciseRow
        /\ \A s \in Snapshot : fixedAt[s] # 0 /\ fixedAt[s] < exercise.taken => Has(live, s)

\* The inductive invariant of recovery.
RestoreInv ==
    /\ IsDatabase(live)
    /\ hour \in 1 .. LastHour
    /\ fixedAt \in [Snapshot -> 0 .. LastHour]
    /\ \A s \in Snapshot : fixedAt[s] <= hour
    /\ BackupsAreComplete
    /\ RestoreReachesItsBackup
    /\ Restores!PassedRestoreIsComplete

LEMMA RestoreInitInv ==
    ASSUME RestoreConstants, Restores!RecoveryInit
    PROVE  RestoreInv
  <1>1. /\ live.docset = 1 /\ live.snapshots = {}
        /\ live = [docset |-> live.docset, snapshots |-> live.snapshots, status |-> live.status,
                   evidence |-> live.evidence, scenarios |-> live.scenarios,
                   exports |-> live.exports, checkpoint |-> live.checkpoint]
    BY DEF Restores!RecoveryInit
  <1>2. IsDatabase(live)
    BY <1>1 DEF IsDatabase, RestoreConstants
  <1> QED
    BY <1>2 DEF RestoreInv, RestoreConstants, Restores!RecoveryInit, BackupsAreComplete,
                RestoreReachesItsBackup, Restores!PassedRestoreIsComplete, Restores!Running

\* In production, a step that adds to the database and fixes nothing.
LEMMA ProductionStep ==
    ASSUME RestoreConstants, RestoreInv, exercise = NoExercise, IsDatabase(live'),
           live.snapshots \subseteq live'.snapshots,
           UNCHANGED <<dbBackups, fixedAt, hour, exercise>>
    PROVE  RestoreInv'
  <1>1. \A s \in Snapshot : Has(live, s) => Has(live', s)
    BY DEF Has
  <1>2. BackupsAreComplete'
    BY <1>1 DEF RestoreInv, BackupsAreComplete
  <1> QED
    BY <1>2 DEF RestoreInv, RestoreReachesItsBackup, Restores!PassedRestoreIsComplete,
                Restores!Running, IsDatabase

LEMMA FixSnapshotInv ==
    ASSUME RestoreConstants, RestoreInv, NEW s \in Snapshot, NEW b \in Basis,
           Restores!FixSnapshot(s, b)
    PROVE  RestoreInv'
  <1>1. PICK old : old = live
    OBVIOUS
  <1>2. PICK row : row = [id |-> s, docset |-> old.docset, basis |-> b]
    OBVIOUS
  <1>3. PICK status : status = [old.status EXCEPT ![s] = Restores!FreshStatus[b]]
    OBVIOUS
  <1>4. /\ exercise = NoExercise
        /\ live' = [old EXCEPT !.snapshots = old.snapshots \cup {row}, !.status = status]
        /\ fixedAt' = [fixedAt EXCEPT ![s] = hour]
        /\ UNCHANGED <<dbBackups, storeBackups, hour, exercise>>
    BY <1>1, <1>2, <1>3 DEF Restores!FixSnapshot, Restores!Running
  <1>5. IsDatabase(old) /\ row \in Restores!SnapshotRow /\ row.id = s
    BY <1>1, <1>2 DEF RestoreInv, IsDatabase, Restores!SnapshotRow
  <1>6. IsDatabase(live') /\ live'.snapshots = live.snapshots \cup {row}
    BY <1>1, <1>4, <1>5 DEF IsDatabase
  <1>7. /\ fixedAt' \in [Snapshot -> 0 .. LastHour]
        /\ fixedAt'[s] = hour
        /\ \A x \in Snapshot : x # s => fixedAt'[x] = fixedAt[x]
        /\ hour \in Nat
    BY <1>4 DEF RestoreInv, RestoreConstants
  <1>8. BackupsAreComplete'
    <2>1. \A x \in Snapshot : fixedAt'[x] # 0 => Has(live', x)
      BY <1>4, <1>5, <1>6, <1>7 DEF RestoreInv, BackupsAreComplete, Has
    <2>2. ASSUME NEW d \in dbBackups
          PROVE  /\ IsDatabase(d.db) /\ d.at \in 1 .. hour
                 /\ \A x \in Snapshot : fixedAt'[x] # 0 /\ fixedAt'[x] < d.at => Has(d.db, x)
      BY <1>7 DEF RestoreInv, BackupsAreComplete
    <2> QED BY <1>4, <2>1, <2>2 DEF BackupsAreComplete
  <1> QED
    BY <1>4, <1>6, <1>7, <1>8 DEF RestoreInv, RestoreReachesItsBackup,
       Restores!PassedRestoreIsComplete, Restores!Running, IsDatabase

LEMMA ReplaceInv ==
    ASSUME RestoreConstants, RestoreInv, NEW captured \in BOOLEAN,
           Restores!ReplaceDocument(captured)
    PROVE  RestoreInv'
  <1>1. PICK old : old = live
    OBVIOUS
  <1>2. PICK step : step = [s \in Snapshot |->
            LET own == {r \in live.snapshots : r.id = s} IN
            IF own = {} \/ ~ captured THEN live.status[s]
            ELSE Restores!Invalidated(CHOOSE r \in own : TRUE, live.status[s])]
    OBVIOUS
  <1>3. live' = [live EXCEPT !.docset = live.docset + 1, !.status = step]
    BY <1>2, Zenon DEF Restores!ReplaceDocument
  <1>4. live' = [old EXCEPT !.docset = old.docset + 1, !.status = step]
    BY <1>1, <1>3, Zenon
  <1>5. IsDatabase(old) /\ old.docset < MaxSets /\ exercise = NoExercise
    BY <1>1 DEF RestoreInv, Restores!ReplaceDocument, Restores!Running
  <1>6. live' = [docset |-> old.docset + 1, snapshots |-> old.snapshots, status |-> step,
                 evidence |-> old.evidence, scenarios |-> old.scenarios,
                 exports |-> old.exports, checkpoint |-> old.checkpoint]
    BY <1>4, <1>5 DEF IsDatabase
  <1>7. IsDatabase(live') /\ live'.snapshots = old.snapshots
    BY <1>5, <1>6 DEF IsDatabase, RestoreConstants
  <1>8. UNCHANGED <<dbBackups, fixedAt, hour, exercise>>
    BY DEF Restores!ReplaceDocument
  <1> QED BY <1>1, <1>5, <1>7, <1>8, ProductionStep

LEMMA RunScenarioInv ==
    ASSUME RestoreConstants, RestoreInv, NEW s \in Snapshot, NEW basis \in Evidence,
           Restores!RunScenario(s, basis)
    PROVE  RestoreInv'
  <1>1. PICK old : old = live
    OBVIOUS
  <1>2. PICK evidence, scenarios :
            live' = [old EXCEPT !.evidence = evidence, !.scenarios = scenarios]
    BY <1>1 DEF Restores!RunScenario
  <1>3. IsDatabase(old) /\ exercise = NoExercise
    BY <1>1 DEF RestoreInv, Restores!RunScenario, Restores!Running
  <1>4. IsDatabase(live') /\ live'.snapshots = old.snapshots
    BY <1>2, <1>3 DEF IsDatabase
  <1>5. UNCHANGED <<dbBackups, fixedAt, hour, exercise>>
    BY DEF Restores!RunScenario
  <1> QED BY <1>1, <1>3, <1>4, <1>5, ProductionStep

LEMMA ExportInv ==
    ASSUME RestoreConstants, RestoreInv, NEW s \in Snapshot, Restores!ExportPackage(s)
    PROVE  RestoreInv'
  <1>1. PICK old : old = live
    OBVIOUS
  <1>2. live' = [old EXCEPT !.exports = old.exports \cup {s}]
    BY <1>1 DEF Restores!ExportPackage
  <1>3. IsDatabase(old) /\ exercise = NoExercise
    BY <1>1 DEF RestoreInv, Restores!ExportPackage, Restores!Running
  <1>4. IsDatabase(live') /\ live'.snapshots = old.snapshots
    BY <1>2, <1>3 DEF IsDatabase
  <1>5. UNCHANGED <<dbBackups, fixedAt, hour, exercise>>
    BY DEF Restores!ExportPackage
  <1> QED BY <1>1, <1>3, <1>4, <1>5, ProductionStep

LEMMA CheckpointInv ==
    ASSUME RestoreConstants, RestoreInv, Restores!CreateCheckpoint
    PROVE  RestoreInv'
  <1>1. PICK old : old = live
    OBVIOUS
  <1>2. live' = [old EXCEPT !.checkpoint = TRUE]
    BY <1>1 DEF Restores!CreateCheckpoint
  <1>3. IsDatabase(old) /\ exercise = NoExercise
    BY <1>1 DEF RestoreInv, Restores!CreateCheckpoint, Restores!Running
  <1>4. IsDatabase(live') /\ live'.snapshots = old.snapshots
    BY <1>2, <1>3 DEF IsDatabase
  <1>5. UNCHANGED <<dbBackups, fixedAt, hour, exercise>>
    BY DEF Restores!CreateCheckpoint
  <1> QED BY <1>1, <1>3, <1>4, <1>5, ProductionStep

LEMMA BackUpInv ==
    ASSUME RestoreConstants, RestoreInv, Restores!BackUpDatabase
    PROVE  RestoreInv'
  <1>1. PICK copy : copy = [at |-> hour, db |-> live]
    OBVIOUS
  <1>2. /\ dbBackups' = {copy} /\ exercise = NoExercise
        /\ UNCHANGED <<live, fixedAt, hour, exercise>>
    BY <1>1 DEF Restores!BackUpDatabase, Restores!Running
  <1>3. copy.at = hour /\ copy.db = live
    BY <1>1
  <1>4. /\ IsDatabase(copy.db) /\ copy.at \in 1 .. hour
        /\ \A s \in Snapshot : fixedAt[s] # 0 => Has(copy.db, s)
    BY <1>2, <1>3 DEF RestoreInv, BackupsAreComplete, RestoreConstants
  <1>5. BackupsAreComplete'
    BY <1>2, <1>4 DEF RestoreInv, BackupsAreComplete
  <1> QED
    BY <1>2, <1>5 DEF RestoreInv, RestoreReachesItsBackup, Restores!PassedRestoreIsComplete,
                      Restores!Running, IsDatabase

\* The database comes back as it was at its backup, with nothing verified.
LEMMA RestoreStepInv ==
    ASSUME RestoreConstants, RestoreInv, NEW d \in dbBackups, NEW o \in storeBackups, NEW lost,
           NEW defect \in Defect,
           NEW incident \in 1 .. hour, NEW point \in 1 .. hour, NEW started \in 1 .. hour,
           Restores!Restore(d, o, lost, defect, incident, point, started)
    PROVE  RestoreInv'
  <1>1. /\ live' = d.db /\ dbBackups' = {}
        /\ exercise' = [incident |-> incident, point |-> point, started |-> started,
                        taken |-> d.at, defect |-> defect, verdict |-> "open"]
        /\ UNCHANGED <<fixedAt, hour>>
    BY DEF Restores!Restore
  <1>2. /\ IsDatabase(d.db) /\ d.at \in 1 .. hour /\ hour \in Nat
        /\ \A s \in Snapshot : fixedAt[s] # 0 /\ fixedAt[s] < d.at => Has(d.db, s)
    BY DEF RestoreInv, BackupsAreComplete, RestoreConstants
  <1>3. /\ exercise' \in ExerciseRow
        /\ exercise'.taken = d.at /\ exercise'.verdict = "open"
    BY <1>1, <1>2 DEF ExerciseRow
  <1>4. exercise' # NoExercise
    BY <1>3 DEF RestoreConstants
  <1>5. RestoreReachesItsBackup'
    BY <1>1, <1>2, <1>3 DEF RestoreReachesItsBackup, Has
  <1>6. BackupsAreComplete' /\ Restores!PassedRestoreIsComplete'
    BY <1>1, <1>3, <1>4 DEF BackupsAreComplete, Restores!PassedRestoreIsComplete
  <1> QED
    BY <1>1, <1>2, <1>5, <1>6 DEF RestoreInv, IsDatabase

\* What the verifier passes is whole: its checks follow every reference, the
\* golden snapshots are among those it could replay, and the declared loss is
\* within the objective.
LEMMA PassedIsWhole ==
    ASSUME RestoreInv, Restores!Passes
    PROVE  /\ Restores!Complete
           /\ \A s \in Golden : Restores!Recovered(s)
           /\ exercise.incident - exercise.point \in 0 .. MaxRPO
  <1>1. \A n \in 1 .. live.docset : <<"document", n>> \in store
    BY DEF Restores!Passes, Restores!CheckObjectReferences, Restores!Restored
  <1>2. \A r \in live.snapshots : <<"snapshot", r.id>> \in store
    BY DEF Restores!Passes, Restores!CheckSnapshots, Restores!VerifySnapshot, Restores!Restored
  <1>3. \A s \in live.exports : <<"export", s>> \in store
    BY DEF Restores!Passes, Restores!CheckExports, Restores!Restored
  <1>4. live.checkpoint => <<"checkpoint", 0>> \in store
    BY DEF Restores!Passes, Restores!CheckAudit, Restores!Restored
  <1>5. Restores!Complete
    BY <1>1, <1>2, <1>3, <1>4 DEF Restores!Complete, Restores!References
  <1>6. \A s \in Golden : Restores!Recovered(s)
    BY DEF Restores!Passes, Restores!CheckGoldenSet, Restores!ValidSnapshots, Restores!Recovered
  <1> QED BY <1>5, <1>6 DEF Restores!Passes, Restores!CheckRecoveryObjectives

LEMMA VerifyInv ==
    ASSUME RestoreConstants, RestoreInv, Restores!Verify
    PROVE  RestoreInv'
  <1>1. PICK old : old = exercise
    OBVIOUS
  <1>2. PICK verdict : verdict = IF Restores!Passes THEN "PASSED" ELSE "FAILED"
    OBVIOUS
  <1>3. /\ exercise' = [old EXCEPT !.verdict = verdict]
        /\ old # NoExercise
        /\ UNCHANGED <<live, store, dbBackups, fixedAt, hour>>
    BY <1>1, <1>2 DEF Restores!Verify, Restores!Running
  <1>4. old \in ExerciseRow /\ verdict \in {"open", "PASSED", "FAILED"}
    BY <1>1, <1>2, <1>3 DEF RestoreInv, RestoreReachesItsBackup
  <1>5. /\ exercise' \in ExerciseRow /\ exercise'.point = old.point
        /\ exercise'.incident = old.incident /\ exercise'.taken = old.taken
        /\ exercise'.verdict = verdict
    BY <1>3, <1>4 DEF ExerciseRow
  <1>6. exercise' # NoExercise
    BY <1>5 DEF RestoreConstants
  <1>7. RestoreReachesItsBackup' /\ BackupsAreComplete'
    BY <1>1, <1>3, <1>5, <1>6 DEF RestoreInv, RestoreReachesItsBackup, BackupsAreComplete, Has
  <1>8. /\ Restores!Complete' = Restores!Complete
        /\ \A s : Restores!Recovered(s)' = Restores!Recovered(s)
    BY <1>3 DEF Restores!Complete, Restores!References, Restores!Recovered
  <1>9. ASSUME verdict = "PASSED"
        PROVE  /\ Restores!Complete
               /\ \A s \in Golden : Restores!Recovered(s)
               /\ old.point <= old.taken =>
                     \A s \in Snapshot :
                        fixedAt[s] # 0 /\ fixedAt[s] + MaxRPO < old.incident
                            => Restores!Recovered(s)
    <2>1. Restores!Passes
      BY <1>2, <1>9
    <2>2. /\ Restores!Complete
          /\ \A s \in Golden : Restores!Recovered(s)
          /\ old.incident - old.point \in 0 .. MaxRPO
      BY <1>1, <2>1, PassedIsWhole
    <2>3. ASSUME old.point <= old.taken, NEW s \in Snapshot,
                 fixedAt[s] # 0, fixedAt[s] + MaxRPO < old.incident
          PROVE  Restores!Recovered(s)
      <3>1. /\ old.incident \in Nat /\ old.point \in Nat /\ old.taken \in Nat
            /\ fixedAt[s] \in Nat /\ MaxRPO \in Nat
        BY <1>4 DEF ExerciseRow, RestoreInv, RestoreConstants
      <3>2. fixedAt[s] < old.taken
        BY <2>2, <2>3, <3>1
      <3> QED
        BY <1>1, <1>3, <2>3, <3>2
           DEF RestoreInv, RestoreReachesItsBackup, Has, Restores!Recovered
    <2> QED BY <2>2, <2>3
  <1>10. Restores!PassedRestoreIsComplete'
    BY <1>3, <1>5, <1>8, <1>9 DEF Restores!PassedRestoreIsComplete
  <1> QED BY <1>3, <1>7, <1>10 DEF RestoreInv, IsDatabase

LEMMA RestoreNextInv ==
    ASSUME RestoreConstants, RestoreInv, Restores!RecoveryNext
    PROVE  RestoreInv'
  <1>1. CASE Restores!CreateCheckpoint \/ Restores!BackUpDatabase
    BY <1>1, CheckpointInv, BackUpInv
  <1>2. CASE Restores!BackUpStore
    BY <1>2 DEF Restores!BackUpStore, Restores!Running, RestoreInv, IsDatabase, BackupsAreComplete,
                RestoreReachesItsBackup, Restores!PassedRestoreIsComplete, Has
  <1>3. CASE Restores!Tick
    <2>1. /\ hour' = hour + 1 /\ hour < LastHour
          /\ UNCHANGED <<live, store, dbBackups, fixedAt, exercise>>
      BY <1>3 DEF Restores!Tick
    <2>2. /\ hour' \in 1 .. LastHour
          /\ \A s \in Snapshot : fixedAt[s] <= hour'
          /\ \A n \in 1 .. hour : n \in 1 .. hour'
      BY <2>1 DEF RestoreInv, RestoreConstants
    <2>3. BackupsAreComplete'
      BY <2>1, <2>2 DEF RestoreInv, BackupsAreComplete, IsDatabase, Has
    <2>4. RestoreReachesItsBackup'
      BY <2>1 DEF RestoreInv, RestoreReachesItsBackup, Has
    <2>5. Restores!PassedRestoreIsComplete'
      BY <2>1 DEF RestoreInv, Restores!PassedRestoreIsComplete, Restores!Running,
                  Restores!Complete, Restores!References, Restores!Recovered
    <2> QED BY <2>1, <2>2, <2>3, <2>4, <2>5 DEF RestoreInv, IsDatabase
  <1>4. CASE Restores!Verify
    BY <1>4, VerifyInv
  <1>5. ASSUME NEW s \in Snapshot,
               \/ Restores!ExportPackage(s)
               \/ \E b \in Basis : Restores!FixSnapshot(s, b)
               \/ \E basis \in Evidence : Restores!RunScenario(s, basis)
        PROVE  RestoreInv'
    BY <1>5, RunScenarioInv, ExportInv, FixSnapshotInv
  <1>6. ASSUME NEW d \in dbBackups, NEW o \in storeBackups,
               \/ \E incident, point, started \in 1 .. hour :
                     Restores!Restore(d, o, {}, "none", incident, point, started)
               \/ \E defect \in Defect : Restores!Restore(d, o, {}, defect, hour, d.at, hour)
               \/ \E x \in o : Restores!Restore(d, o, {x}, "none", hour, d.at, hour)
        PROVE  RestoreInv'
    <2>1. "none" \in Defect /\ d.at \in 1 .. hour /\ hour \in 1 .. hour
      BY DEF RestoreConstants, RestoreInv, BackupsAreComplete
    <2>2. ASSUME NEW defect \in Defect, Restores!Restore(d, o, {}, defect, hour, d.at, hour)
          PROVE  RestoreInv'
      BY <2>1, <2>2, RestoreStepInv
    <2>3. ASSUME NEW x \in o, Restores!Restore(d, o, {x}, "none", hour, d.at, hour)
          PROVE  RestoreInv'
      BY <2>1, <2>3, RestoreStepInv
    <2>4. ASSUME NEW incident \in 1 .. hour, NEW point \in 1 .. hour, NEW started \in 1 .. hour,
                 Restores!Restore(d, o, {}, "none", incident, point, started)
          PROVE  RestoreInv'
      BY <2>1, <2>4, RestoreStepInv
    <2> QED BY <1>6, <2>2, <2>3, <2>4
  <1>7. ASSUME NEW captured \in BOOLEAN, Restores!ReplaceDocument(captured)
        PROVE  RestoreInv'
    BY <1>7, ReplaceInv
  <1> QED
    BY <1>1, <1>2, <1>3, <1>4, <1>5, <1>6, <1>7 DEF Restores!RecoveryNext

LEMMA RestoreStutter ==
    ASSUME RestoreInv, UNCHANGED Restores!recoveryVars
    PROVE  RestoreInv'
  BY DEF Restores!recoveryVars, RestoreInv, IsDatabase, BackupsAreComplete, RestoreReachesItsBackup,
         Restores!PassedRestoreIsComplete, Restores!Running, Restores!Complete,
         Restores!References, Restores!Recovered, Has

\* A restore that passed verification has every object its rows name and every
\* golden calculation; unless its point was declared later than its backup, it
\* also has every calculation that was fixed longer before the incident than the
\* approved loss (RecoveryVerifier.verify), however production, backups, incident
\* and restore were ordered and whatever else was declared.
THEOREM PassedRestoresAreComplete ==
    ASSUME RestoreConstants
    PROVE  Restores!RecoverySpec =>
             [](Restores!RecoveryTypeOK /\ Restores!PassedRestoreIsComplete)
  <1>1. Restores!RecoveryInit => RestoreInv
    BY RestoreInitInv
  <1>2. RestoreInv /\ [Restores!RecoveryNext]_(Restores!recoveryVars) => RestoreInv'
    BY RestoreNextInv, RestoreStutter
  <1>3. RestoreInv => Restores!RecoveryTypeOK /\ Restores!PassedRestoreIsComplete
    BY DEF RestoreInv, IsDatabase, RestoreReachesItsBackup, ExerciseRow, Restores!RecoveryTypeOK,
           Restores!Running
  <1> QED BY <1>1, <1>2, <1>3, PTL DEF Restores!RecoverySpec

-----------------------------------------------------------------------------
(* The evidence of the gates.                                               *)

\* Somebody other than submitter and executor of the package.
IndependentOf(a, p) == packages[p] # NoRow /\ a \notin {packages[p].by, packages[p].executedBy}

\* Who reviews, or is about to commit a review, is independent of the package.
ReviewersAreOthers ==
    /\ \A p \in Package : approvals[p] # NoRow => IndependentOf(approvals[p].by, p)
    /\ \A a \in Person : gateReviewing[a] # NoRow => IndependentOf(a, gateReviewing[a].package)

\* What a release was validated on stays: packages and reviews never change.
ReleaseRests(r) ==
    /\ approvals[r.package] # NoRow /\ approvals[r.package].decision = "APPROVED"
    /\ packages[r.package] # NoRow
    /\ packages[r.package].build = r.build
    /\ packages[r.package].completed + MaxAge >= r.day

\* The inductive invariant of gate evidence.
GateInv ==
    /\ Gates!GateTypeOK
    /\ packages \in [Package -> Gates!PackageRow \cup {NoRow}]
    /\ approvals \in [Package -> GateReview \cup {NoRow}]
    /\ gateReviewing \in [Person -> OpenGateReview \cup {NoRow}]
    /\ gateBuild \in Build /\ gateDay \in 0 .. LastDay
    /\ ReviewersAreOthers
    /\ releasing # NoRow => releasing \in GateRelease /\ ReleaseRests(releasing)
    /\ \A r \in releases : r \in GateRelease /\ ReleaseRests(r)

LEMMA GateInitInv ==
    ASSUME GateConstants, Gates!GateInit
    PROVE  GateInv
  BY DEF GateConstants, Gates!GateInit, GateInv, Gates!GateTypeOK, ReviewersAreOthers

\* Packages and reviews that are there are kept.
LEMMA GateKept ==
    ASSUME GateInv,
           \A p \in Package : packages[p] # NoRow => packages'[p] = packages[p],
           \A p \in Package : approvals[p] # NoRow => approvals'[p] = approvals[p]
    PROVE  /\ \A r \in GateRelease : ReleaseRests(r) => ReleaseRests(r)'
           /\ \A p \in Package, a \in Person : IndependentOf(a, p) => IndependentOf(a, p)'
  <1>1. \A r \in GateRelease : r.package \in Package
    BY DEF GateRelease
  <1>2. ASSUME NEW r \in GateRelease, ReleaseRests(r)
        PROVE  ReleaseRests(r)'
    BY <1>1, <1>2, r' = r DEF ReleaseRests
  <1>3. ASSUME NEW p \in Package, NEW a \in Person, IndependentOf(a, p)
        PROVE  IndependentOf(a, p)'
    BY <1>3 DEF IndependentOf
  <1> QED BY <1>2, <1>3

LEMMA SubmitInv ==
    ASSUME GateConstants, GateInv, NEW a \in Person, NEW x \in Person, NEW p \in Package,
           NEW t \in 0 .. LastDay, Gates!SubmitPackage(a, x, p, t)
    PROVE  GateInv'
  <1>1. PICK row : row = [by |-> a, executedBy |-> x, build |-> gateBuild, completed |-> t]
    OBVIOUS
  <1>2. /\ packages' = [packages EXCEPT ![p] = row] /\ packages[p] = NoRow
        /\ UNCHANGED <<approvals, revoked, unreadable, gateReviewing, releasing, releases, gateBuild, gateDay>>
    BY <1>1 DEF Gates!SubmitPackage
  <1>3. row \in Gates!PackageRow
    BY <1>1 DEF GateInv, Gates!PackageRow
  <1>4. packages' \in [Package -> Gates!PackageRow \cup {NoRow}] /\ Gates!GateTypeOK'
    BY <1>2, <1>3 DEF GateInv, Gates!GateTypeOK
  <1>5. \A q \in Package : packages[q] # NoRow => packages'[q] = packages[q]
    BY <1>2 DEF GateInv
  <1>6. /\ \A r \in GateRelease : ReleaseRests(r) => ReleaseRests(r)'
        /\ \A q \in Package, b \in Person : IndependentOf(b, q) => IndependentOf(b, q)'
    BY <1>2, <1>5, GateKept
  <1>7. ReviewersAreOthers'
    <2>1. /\ \A q \in Package : approvals[q] # NoRow => approvals[q].by \in Person
          /\ \A b \in Person : gateReviewing[b] # NoRow => gateReviewing[b].package \in Package
      BY DEF GateInv, GateReview, OpenGateReview
    <2> QED BY <1>2, <1>6, <2>1 DEF GateInv, ReviewersAreOthers
  <1> QED BY <1>2, <1>4, <1>6, <1>7 DEF GateInv

LEMMA BeginReviewInv ==
    ASSUME GateConstants, GateInv, NEW a \in Person, NEW p \in Package,
           NEW d \in {"APPROVED", "REJECTED"}, Gates!BeginReview(a, p, d)
    PROVE  GateInv'
  <1>1. PICK row : row = [package |-> p, decision |-> d]
    OBVIOUS
  <1>2. /\ gateReviewing' = [gateReviewing EXCEPT ![a] = row] /\ IndependentOf(a, p)
        /\ UNCHANGED <<packages, approvals, revoked, unreadable, releasing, releases, gateBuild, gateDay>>
    BY <1>1 DEF Gates!BeginReview, IndependentOf
  <1>3. row \in OpenGateReview /\ row.package = p
    BY <1>1 DEF OpenGateReview
  <1>4. /\ gateReviewing' \in [Person -> OpenGateReview \cup {NoRow}]
        /\ gateReviewing'[a] = row /\ \A b \in Person : b # a => gateReviewing'[b] = gateReviewing[b]
    BY <1>2, <1>3 DEF GateInv
  <1>5. ReviewersAreOthers'
    BY <1>2, <1>3, <1>4 DEF GateInv, ReviewersAreOthers, IndependentOf
  <1> QED
    BY <1>2, <1>4, <1>5 DEF GateInv, Gates!GateTypeOK, ReleaseRests

LEMMA CommitReviewInv ==
    ASSUME GateConstants, GateInv, NEW a \in Person, Gates!CommitReview(a)
    PROVE  GateInv'
  <1>1. PICK p, d : p = gateReviewing[a].package /\ d = gateReviewing[a].decision
    OBVIOUS
  <1>2. /\ p \in Package /\ d \in {"APPROVED", "REJECTED"} /\ IndependentOf(a, p)
    BY <1>1 DEF GateInv, ReviewersAreOthers, Gates!CommitReview, OpenGateReview
  <1>3. PICK row : row = [by |-> a, decision |-> d]
    OBVIOUS
  <1>4. row \in GateReview /\ row.by = a
    BY <1>2, <1>3 DEF GateReview
  <1>5. /\ \/ approvals' = approvals
           \/ approvals[p] = NoRow /\ approvals' = [approvals EXCEPT ![p] = row]
        /\ gateReviewing' = [gateReviewing EXCEPT ![a] = NoRow]
        /\ UNCHANGED <<packages, revoked, unreadable, releasing, releases, gateBuild, gateDay>>
    BY <1>1, <1>3 DEF Gates!CommitReview, Gates!Insertable
  <1>6. /\ approvals' \in [Package -> GateReview \cup {NoRow}]
        /\ \A q \in Package : approvals[q] # NoRow => approvals'[q] = approvals[q]
        /\ \A q \in Package : approvals'[q] \in {approvals[q], row}
        /\ \A q \in Package : q # p => approvals'[q] = approvals[q]
    BY <1>2, <1>4, <1>5 DEF GateInv
  <1>7. /\ gateReviewing' \in [Person -> OpenGateReview \cup {NoRow}]
        /\ \A b \in Person : gateReviewing'[b] \in {gateReviewing[b], NoRow}
    BY <1>5 DEF GateInv
  <1>8. /\ \A r \in GateRelease : ReleaseRests(r) => ReleaseRests(r)'
        /\ \A q \in Package, b \in Person : IndependentOf(b, q) => IndependentOf(b, q)'
    BY <1>5, <1>6, GateKept
  <1>9. ReviewersAreOthers'
    <2>1. ASSUME NEW q \in Package, approvals'[q] # NoRow
          PROVE  IndependentOf(approvals'[q].by, q)
      BY <1>2, <1>4, <1>6, <2>1 DEF GateInv, ReviewersAreOthers
    <2>2. ASSUME NEW b \in Person, gateReviewing'[b] # NoRow
          PROVE  IndependentOf(b, gateReviewing'[b].package)
      BY <1>7, <2>2 DEF GateInv, ReviewersAreOthers
    <2> QED BY <1>5, <2>1, <2>2 DEF ReviewersAreOthers, IndependentOf
  <1> QED BY <1>5, <1>6, <1>7, <1>8, <1>9 DEF GateInv, Gates!GateTypeOK

LEMMA BeginReleaseInv ==
    ASSUME GateConstants, GateInv, NEW p \in Package, Gates!BeginRelease(p)
    PROVE  GateInv'
  <1>1. PICK row : row = [package |-> p, build |-> gateBuild, day |-> gateDay]
    OBVIOUS
  <1>2. /\ releasing' = row
        /\ UNCHANGED <<packages, approvals, revoked, unreadable, gateReviewing, releases, gateBuild, gateDay>>
    BY <1>1 DEF Gates!BeginRelease
  <1>3. row \in GateRelease /\ row.package = p /\ row.build = gateBuild /\ row.day = gateDay
    BY <1>1 DEF GateRelease, GateInv, GateConstants
  <1>4. ReleaseRests(row)
    BY <1>3 DEF Gates!BeginRelease, Gates!GateBindingValid, Gates!Approved, Gates!BasisValid,
                ReleaseRests, GateInv, ReviewersAreOthers, IndependentOf
  <1>5. ReleaseRests(row)' /\ \A r \in releases : ReleaseRests(r)'
    BY <1>2, <1>4 DEF ReleaseRests, GateInv
  <1> QED
    BY <1>2, <1>3, <1>5 DEF GateInv, Gates!GateTypeOK, ReviewersAreOthers, IndependentOf, ReleaseRests

LEMMA CommitReleaseInv ==
    ASSUME GateConstants, GateInv, Gates!CommitRelease
    PROVE  GateInv'
  <1>1. PICK old : old = releasing
    OBVIOUS
  <1>2. /\ old \in GateRelease /\ ReleaseRests(old)
        /\ releases' = releases \cup {[package |-> old.package, build |-> old.build,
                                       day |-> old.day]}
        /\ releasing' = NoRow
        /\ UNCHANGED <<packages, approvals, revoked, unreadable, gateReviewing, gateBuild, gateDay>>
    BY <1>1 DEF Gates!CommitRelease, GateInv
  <1>3. releases' = releases \cup {old}
    BY <1>2 DEF GateRelease
  <1>4. \A r \in releases' : r \in GateRelease /\ ReleaseRests(r)'
    BY <1>2, <1>3 DEF GateInv, ReleaseRests
  <1> QED
    BY <1>2, <1>4 DEF GateInv, Gates!GateTypeOK, ReviewersAreOthers, IndependentOf

LEMMA GateNextInv ==
    ASSUME GateConstants, GateInv, Gates!GateNext
    PROVE  GateInv'
  <1>1. CASE Gates!CommitRelease
    BY <1>1, CommitReleaseInv
  <1>2. ASSUME UNCHANGED <<packages, approvals, gateReviewing, releasing, releases>>,
               revoked' \subseteq Package, unreadable' \subseteq Package,
               gateBuild' \in Build, gateDay' \in 0 .. LastDay
        PROVE  GateInv'
    BY <1>2 DEF GateInv, Gates!GateTypeOK, ReviewersAreOthers, IndependentOf, ReleaseRests
  <1>3. ASSUME NEW p \in Package,
               Gates!RevokePackage(p) \/ Gates!LoseArtifact(p)
        PROVE  GateInv'
    BY <1>2, <1>3 DEF Gates!RevokePackage, Gates!LoseArtifact, GateInv, Gates!GateTypeOK
  <1>4. CASE Gates!PassDay
    BY <1>2, <1>4 DEF Gates!PassDay, Gates!gateVars, GateInv, Gates!GateTypeOK, GateConstants
  <1>5. ASSUME NEW b \in Build, Gates!DeployBuild(b)
        PROVE  GateInv'
    BY <1>2, <1>5 DEF Gates!DeployBuild, Gates!gateVars, GateInv, Gates!GateTypeOK
  <1> QED
    BY <1>1, <1>3, <1>4, <1>5, SubmitInv, BeginReviewInv, CommitReviewInv, BeginReleaseInv
       DEF Gates!GateNext

LEMMA GateStutter ==
    ASSUME GateInv, UNCHANGED Gates!evidenceVars
    PROVE  GateInv'
  BY DEF Gates!evidenceVars, Gates!gateVars, GateInv, Gates!GateTypeOK, ReviewersAreOthers,
         IndependentOf, ReleaseRests

\* A bid is released only on a package that somebody other than its submitter
\* and executor approved, of the build of the release and fresh on its day,
\* although reviews, revocations and releases take no common lock
\* (review_package, gate_binding_valid).
THEOREM ReleasesRestOnReviews ==
    ASSUME GateConstants
    PROVE  Gates!GateSpec => [](Gates!GateTypeOK /\ Gates!ReleasedOnReviewedEvidence)
  <1>1. Gates!GateInit => GateInv
    BY GateInitInv
  <1>2. GateInv /\ [Gates!GateNext]_(Gates!evidenceVars) => GateInv'
    BY GateNextInv, GateStutter
  <1>3. GateInv => Gates!GateTypeOK /\ Gates!ReleasedOnReviewedEvidence
    BY DEF GateInv, ReleaseRests, Gates!ReleasedOnReviewedEvidence, GateRelease,
           ReviewersAreOthers, IndependentOf
  <1> QED BY <1>1, <1>2, <1>3, PTL DEF Gates!GateSpec

-----------------------------------------------------------------------------
(* The versions of governed content.                                        *)

\* What the audit chain says of a version, and of the bindings of a project.
VersionEvent == [type : {"created", "approved"}, by : Person]
BindingEvent == [purpose : Purpose, version : Version, by : Person]

\* A version is a draft or approved, and its events say so.
VersionsAgree ==
    \A v \in Version : versions[v] = NoVersion \/ Versions!DraftIntegrity(v)
                                               \/ Versions!ApprovedIntegrity(v)

\* The inductive invariant of governance.
VersionsInv ==
    /\ Versions!GovTypeOK
    /\ versionEvents \in [Version -> Seq(VersionEvent)]
    /\ reviewing \in [Person -> Version \cup {NoVersion}]
    /\ bindings \in [Purpose -> Versions!BindingRow \cup {NoVersion}]
    /\ bindingEvents \in Seq(BindingEvent)
    /\ VersionsAgree
    /\ Versions!GovernedContentVerifies

LEMMA VersionsInitInv ==
    ASSUME VersionConstants, Versions!GovInit
    PROVE  VersionsInv
  <1>1. <<>> \in Seq(VersionEvent) /\ <<>> \in Seq(BindingEvent)
    OBVIOUS
  <1> QED
    BY <1>1 DEF Versions!GovInit, VersionsInv, Versions!GovTypeOK, VersionsAgree,
                Versions!GovernedContentVerifies

\* What was approved stays approved as long as its row and its events stay.
LEMMA ApprovedStays ==
    ASSUME NEW v \in Version, Versions!ApprovedIntegrity(v),
           versions'[v] = versions[v], versionEvents'[v] = versionEvents[v]
    PROVE  Versions!ApprovedIntegrity(v)'
  BY DEF Versions!ApprovedIntegrity, Versions!Exists

LEMMA BoundTyped ==
    ASSUME VersionsInv, NEW p \in Purpose, bindings[p] # NoVersion
    PROVE  /\ bindings[p] \in Versions!BindingRow /\ bindings[p].version \in Version
           /\ Versions!ApprovedIntegrity(bindings[p].version)
           /\ Versions!BindingVerifies(p)
  BY DEF VersionsInv, Versions!BindingRow, Versions!GovernedContentVerifies,
         Versions!BindingVerifies

\* A step that leaves the bindings alone and every approved version as it is.
LEMMA VersionStep ==
    ASSUME VersionConstants, VersionsInv,
           versions' \in [Version -> Versions!VersionRow \cup {NoVersion}],
           versionEvents' \in [Version -> Seq(VersionEvent)],
           VersionsAgree',
           \A v \in Version : Versions!ApprovedIntegrity(v) =>
                versions'[v] = versions[v] /\ versionEvents'[v] = versionEvents[v],
           reviewing' \in [Person -> Version \cup {NoVersion}],
           UNCHANGED <<bindings, bindingEvents>>,
           qualifications' = qualifications
    PROVE  VersionsInv'
  <1>1. \A v \in Version : Versions!ApprovedIntegrity(v) => Versions!ApprovedIntegrity(v)'
    BY ApprovedStays
  <1>2. ASSUME NEW p \in Purpose, bindings[p] # NoVersion
        PROVE  Versions!BindingVerifies(p)'
    BY <1>1, <1>2, BoundTyped DEF Versions!BindingVerifies, Versions!NewestBinding
  <1>3. ASSUME NEW p \in Purpose, NEW q \in Purpose, p # q,
               bindings[p] # NoVersion, bindings[q] # NoVersion
        PROVE  versions'[bindings[p].version].kind # versions'[bindings[q].version].kind
    BY <1>3, BoundTyped DEF VersionsInv, Versions!GovernedContentVerifies
  <1>4. \A v \in qualifications : Versions!ApprovedIntegrity(v)'
    BY <1>1 DEF VersionsInv, Versions!GovTypeOK, Versions!GovernedContentVerifies
  <1>5. Versions!GovernedContentVerifies'
    BY <1>2, <1>3, <1>4 DEF Versions!GovernedContentVerifies
  <1> QED BY <1>5 DEF VersionsInv, Versions!GovTypeOK

LEMMA CreateInv ==
    ASSUME VersionConstants, VersionsInv, NEW a \in Person, NEW v \in Version, NEW k \in VersionKind,
           NEW d \in 0 .. LastValidDay, Versions!CreateVersion(a, v, k, d)
    PROVE  VersionsInv'
  <1>1. PICK row : row = [kind |-> k, createdBy |-> a, status |-> "DRAFT",
                          approvedBy |-> NoVersion, validUntil |-> d]
    OBVIOUS
  <1>2. PICK first : first = [type |-> "created", by |-> a]
    OBVIOUS
  <1>3. /\ versions[v] = NoVersion
        /\ versions' = [versions EXCEPT ![v] = row]
        /\ versionEvents' = [versionEvents EXCEPT ![v] = <<first>>]
        /\ UNCHANGED <<reviewing, bindings, bindingEvents, qualifications>>
    BY <1>1, <1>2 DEF Versions!CreateVersion, Versions!Exists
  <1>4. /\ row \in Versions!VersionRow /\ row.status = "DRAFT" /\ row.createdBy = a
        /\ row.approvedBy = NoVersion /\ row # NoVersion
    BY <1>1 DEF Versions!VersionRow, VersionConstants
  <1>5. first \in VersionEvent /\ <<first>> \in Seq(VersionEvent)
    BY <1>2 DEF VersionEvent
  <1>6. /\ versions' \in [Version -> Versions!VersionRow \cup {NoVersion}]
        /\ versions'[v] = row /\ \A w \in Version : w # v => versions'[w] = versions[w]
    BY <1>3, <1>4 DEF VersionsInv, Versions!GovTypeOK
  <1>7. /\ versionEvents' \in [Version -> Seq(VersionEvent)]
        /\ versionEvents'[v] = <<first>>
        /\ \A w \in Version : w # v => versionEvents'[w] = versionEvents[w]
    BY <1>3, <1>5 DEF VersionsInv
  <1>8. Versions!DraftIntegrity(v)'
    BY <1>2, <1>4, <1>6, <1>7 DEF Versions!DraftIntegrity, Versions!Exists
  <1>9. VersionsAgree'
    BY <1>6, <1>7, <1>8 DEF VersionsInv, VersionsAgree, Versions!DraftIntegrity,
                            Versions!ApprovedIntegrity, Versions!Exists
  <1>10. \A w \in Version : Versions!ApprovedIntegrity(w) => w # v
    BY <1>3 DEF Versions!ApprovedIntegrity, Versions!Exists
  <1>11. reviewing' \in [Person -> Version \cup {NoVersion}]
    BY <1>3 DEF VersionsInv
  <1> QED BY <1>3, <1>6, <1>7, <1>9, <1>10, <1>11, VersionStep

\* What an approval makes of a draft.
LEMMA DraftApproved ==
    ASSUME VersionConstants, VersionsInv, NEW a \in Person, NEW v \in Version,
           Versions!Approvable(a, v),
           versions' = [versions EXCEPT ![v].status = "APPROVED", ![v].approvedBy = a],
           versionEvents' = [versionEvents EXCEPT ![v] =
                Append(versionEvents[v], [type |-> "approved", by |-> a])]
    PROVE  /\ versions' \in [Version -> Versions!VersionRow \cup {NoVersion}]
           /\ versionEvents' \in [Version -> Seq(VersionEvent)]
           /\ Versions!ApprovedIntegrity(v)'
           /\ Versions!VersionChangeAllowed(versions[v], versions'[v])
           /\ versions'[v].approvedBy = a /\ a # versions[v].createdBy
           /\ \A w \in Version : w # v =>
                versions'[w] = versions[w] /\ versionEvents'[w] = versionEvents[w]
  <1>1. PICK old : old = versions[v]
    OBVIOUS
  <1>2. PICK new : new = [old EXCEPT !.status = "APPROVED", !.approvedBy = a]
    OBVIOUS
  <1>3. PICK first, sealed : /\ first = [type |-> "created", by |-> old.createdBy]
                             /\ sealed = [type |-> "approved", by |-> a]
    OBVIOUS
  <1>4. /\ old \in Versions!VersionRow /\ old.status = "DRAFT" /\ old.approvedBy = NoVersion
        /\ old.createdBy # a /\ versionEvents[v] = <<first>>
    BY <1>1, <1>3 DEF Versions!Approvable, Versions!DraftIntegrity, Versions!Exists, VersionsInv,
                      Versions!GovTypeOK
  <1>5. /\ new \in Versions!VersionRow /\ new.status = "APPROVED" /\ new.approvedBy = a
        /\ new.createdBy = old.createdBy /\ new # NoVersion /\ a # NoVersion
    BY <1>2, <1>4 DEF Versions!VersionRow, VersionConstants
  <1>6. versions' = [versions EXCEPT ![v] = new]
    BY <1>1, <1>2 DEF VersionsInv, Versions!GovTypeOK
  <1>7. /\ first \in VersionEvent /\ sealed \in VersionEvent
    BY <1>3, <1>4 DEF VersionEvent, Versions!VersionRow
  <1>8. Append(<<first>>, sealed) = <<first, sealed>> /\ <<first, sealed>> \in Seq(VersionEvent)
    <2>1. <<first>> \in Seq(VersionEvent) /\ <<first, sealed>> \in Seq(VersionEvent)
      BY <1>7
    <2>2. /\ Append(<<first>>, sealed) \in Seq(VersionEvent)
          /\ Len(Append(<<first>>, sealed)) = Len(<<first, sealed>>)
          /\ \A i \in 1 .. 2 : Append(<<first>>, sealed)[i] = <<first, sealed>>[i]
      BY <1>7, <2>1, AppendProperties
    <2> QED BY <2>1, <2>2, SeqEqual
  <1>9. versionEvents' = [versionEvents EXCEPT ![v] = <<first, sealed>>]
    BY <1>3, <1>4, <1>8
  <1>10. /\ versions' \in [Version -> Versions!VersionRow \cup {NoVersion}]
         /\ versions'[v] = new /\ \A w \in Version : w # v => versions'[w] = versions[w]
    BY <1>5, <1>6 DEF VersionsInv, Versions!GovTypeOK
  <1>11. /\ versionEvents' \in [Version -> Seq(VersionEvent)]
         /\ versionEvents'[v] = <<first, sealed>>
         /\ \A w \in Version : w # v => versionEvents'[w] = versionEvents[w]
    BY <1>8, <1>9 DEF VersionsInv
  <1>12. Versions!ApprovedIntegrity(v)'
    BY <1>3, <1>4, <1>5, <1>10, <1>11 DEF Versions!ApprovedIntegrity, Versions!Exists
  <1>13. Versions!VersionChangeAllowed(old, new)
    BY <1>2, <1>4, <1>5 DEF Versions!VersionChangeAllowed
  <1> QED BY <1>1, <1>4, <1>5, <1>10, <1>11, <1>12, <1>13

LEMMA OpenInv ==
    ASSUME VersionConstants, VersionsInv, NEW a \in Person, NEW v \in Version,
           Versions!OpenDraft(a, v)
    PROVE  VersionsInv'
  <1>1. /\ reviewing' = [reviewing EXCEPT ![a] = v]
        /\ UNCHANGED <<versions, versionEvents, bindings, bindingEvents, qualifications>>
    BY DEF Versions!OpenDraft
  <1>2. VersionsAgree'
    BY <1>1 DEF VersionsInv, VersionsAgree, Versions!DraftIntegrity, Versions!ApprovedIntegrity,
                Versions!Exists
  <1>3. reviewing' \in [Person -> Version \cup {NoVersion}]
    BY <1>1 DEF VersionsInv
  <1>4. /\ versions' \in [Version -> Versions!VersionRow \cup {NoVersion}]
        /\ versionEvents' \in [Version -> Seq(VersionEvent)]
    BY <1>1 DEF VersionsInv, Versions!GovTypeOK
  <1> QED BY <1>1, <1>2, <1>3, <1>4, VersionStep

\* A draft is never an approved version.
LEMMA DraftIsNotApproved ==
    ASSUME NEW v \in Version, Versions!DraftIntegrity(v)
    PROVE  ~ Versions!ApprovedIntegrity(v)
  BY DEF Versions!DraftIntegrity, Versions!ApprovedIntegrity

LEMMA ApproveInv ==
    ASSUME VersionConstants, VersionsInv, NEW a \in Person, Versions!ApproveVersion(a)
    PROVE  VersionsInv'
  <1>1. PICK v : v = reviewing[a]
    OBVIOUS
  <1>2. v \in Version
    BY <1>1 DEF VersionsInv, Versions!ApproveVersion
  <1>3. /\ reviewing' = [reviewing EXCEPT ![a] = NoVersion]
        /\ UNCHANGED <<bindings, bindingEvents, qualifications>>
    BY DEF Versions!ApproveVersion
  <1>4. reviewing' \in [Person -> Version \cup {NoVersion}]
    BY <1>3 DEF VersionsInv
  <1>5. CASE Versions!Approvable(a, v)
    <2>1. /\ versions' = [versions EXCEPT ![v].status = "APPROVED", ![v].approvedBy = a]
          /\ versionEvents' = [versionEvents EXCEPT ![v] =
                Append(versionEvents[v], [type |-> "approved", by |-> a])]
      BY <1>1, <1>5 DEF Versions!ApproveVersion
    <2>2. /\ versions' \in [Version -> Versions!VersionRow \cup {NoVersion}]
          /\ versionEvents' \in [Version -> Seq(VersionEvent)]
          /\ Versions!ApprovedIntegrity(v)'
          /\ \A w \in Version : w # v =>
                versions'[w] = versions[w] /\ versionEvents'[w] = versionEvents[w]
      BY <1>2, <1>5, <2>1, DraftApproved
    <2>3. \A w \in Version : Versions!ApprovedIntegrity(w) => w # v
      BY <1>2, <1>5, DraftIsNotApproved DEF Versions!Approvable
    <2>4. VersionsAgree'
      BY <2>2 DEF VersionsInv, VersionsAgree, Versions!DraftIntegrity,
                  Versions!ApprovedIntegrity, Versions!Exists
    <2> QED BY <1>3, <1>4, <2>2, <2>3, <2>4, VersionStep
  <1>6. CASE ~ Versions!Approvable(a, v)
    <2>1. UNCHANGED <<versions, versionEvents>>
      BY <1>1, <1>6 DEF Versions!ApproveVersion
    <2>2. VersionsAgree'
      BY <2>1 DEF VersionsInv, VersionsAgree, Versions!DraftIntegrity,
                  Versions!ApprovedIntegrity, Versions!Exists
    <2>3. /\ versions' \in [Version -> Versions!VersionRow \cup {NoVersion}]
          /\ versionEvents' \in [Version -> Seq(VersionEvent)]
      BY <2>1 DEF VersionsInv, Versions!GovTypeOK
    <2> QED BY <1>3, <1>4, <2>1, <2>2, <2>3, VersionStep
  <1> QED BY <1>5, <1>6

\* The events of a project after one more binding: the new one is the newest of
\* its purpose, and the others keep theirs.
LEMMA BindingAppended ==
    ASSUME NEW entry \in BindingEvent, bindingEvents \in Seq(BindingEvent),
           bindingEvents' = Append(bindingEvents, entry),
           NEW n \in Nat, n = Len(bindingEvents) + 1
    PROVE  /\ bindingEvents' \in Seq(BindingEvent)
           /\ Len(bindingEvents') = n
           /\ bindingEvents'[n] = entry
           /\ Versions!NewestBinding(n, entry.purpose)'
           /\ \A p \in Purpose \ {entry.purpose}, i \in 1 .. Len(bindingEvents) :
                Versions!NewestBinding(i, p) =>
                    /\ Versions!NewestBinding(i, p)'
                    /\ bindingEvents'[i] = bindingEvents[i]
  <1>1. /\ bindingEvents' \in Seq(BindingEvent)
        /\ Len(bindingEvents') = n
        /\ bindingEvents'[n] = entry
        /\ \A i \in 1 .. Len(bindingEvents) : bindingEvents'[i] = bindingEvents[i]
    BY AppendProperties
  <1>2. Len(bindingEvents) \in Nat
    OBVIOUS
  <1>3. Versions!NewestBinding(n, entry.purpose)'
    BY <1>1, <1>2 DEF Versions!NewestBinding
  <1>4. ASSUME NEW p \in Purpose \ {entry.purpose}, NEW i \in 1 .. Len(bindingEvents),
               Versions!NewestBinding(i, p)
        PROVE  Versions!NewestBinding(i, p)'
    <2>1. bindingEvents'[i].purpose = p /\ i \in 1 .. Len(bindingEvents')
      BY <1>1, <1>2, <1>4 DEF Versions!NewestBinding
    <2>2. ASSUME NEW j \in i + 1 .. Len(bindingEvents')
          PROVE  bindingEvents'[j].purpose # p
      <3>1. CASE j = n
        BY <1>1, <1>4, <3>1
      <3>2. CASE j # n
        <4>1. j \in i + 1 .. Len(bindingEvents) /\ j \in 1 .. Len(bindingEvents)
          BY <1>1, <1>2, <3>2
        <4> QED BY <1>1, <1>4, <4>1 DEF Versions!NewestBinding
      <3> QED BY <3>1, <3>2
    <2> QED BY <2>1, <2>2 DEF Versions!NewestBinding
  <1> QED BY <1>1, <1>3, <1>4

LEMMA BindInv ==
    ASSUME VersionConstants, VersionsInv, NEW a \in Person, NEW v \in Version,
           NEW purpose \in Purpose, Versions!BindToProject(a, v, purpose)
    PROVE  VersionsInv'
  <1>1. PICK row, entry : /\ row = [version |-> v, by |-> a]
                          /\ entry = [purpose |-> purpose, version |-> v, by |-> a]
    OBVIOUS
  <1>0. PICK n \in Nat : n = Len(bindingEvents) + 1
    BY DEF VersionsInv
  <1>2. /\ Versions!ApprovedIntegrity(v) /\ ~ Versions!KindBoundElsewhere(versions[v].kind, purpose)
        /\ bindings' = [bindings EXCEPT ![purpose] = row]
        /\ bindingEvents' = Append(bindingEvents, entry)
        /\ UNCHANGED <<versions, versionEvents, reviewing, qualifications>>
    BY <1>1 DEF Versions!BindToProject
  <1>3. /\ row \in Versions!BindingRow /\ row.version = v /\ row.by = a /\ row # NoVersion
        /\ entry \in BindingEvent /\ entry.purpose = purpose /\ entry.version = v /\ entry.by = a
    BY <1>1 DEF Versions!BindingRow, BindingEvent, VersionConstants
  <1>4. /\ bindings' \in [Purpose -> Versions!BindingRow \cup {NoVersion}]
        /\ bindings'[purpose] = row
        /\ \A p \in Purpose : p # purpose => bindings'[p] = bindings[p]
    BY <1>2, <1>3 DEF VersionsInv
  <1>5. /\ bindingEvents' \in Seq(BindingEvent)
        /\ Len(bindingEvents') = n
        /\ bindingEvents'[n] = entry
        /\ Versions!NewestBinding(n, purpose)'
        /\ \A p \in Purpose \ {purpose}, i \in 1 .. Len(bindingEvents) :
                Versions!NewestBinding(i, p) =>
                    /\ Versions!NewestBinding(i, p)'
                    /\ bindingEvents'[i] = bindingEvents[i]
    BY <1>0, <1>2, <1>3, BindingAppended DEF VersionsInv
  <1>6. \A w \in Version : Versions!ApprovedIntegrity(w) => Versions!ApprovedIntegrity(w)'
    BY <1>2, ApprovedStays
  <1>7. ASSUME NEW p \in Purpose, bindings'[p] # NoVersion
        PROVE  Versions!BindingVerifies(p)'
    <2>1. CASE p = purpose
      <3>1. n \in 1 .. Len(bindingEvents')
        BY <1>0, <1>5 DEF VersionsInv
      <3>2. Versions!ApprovedIntegrity(v)'
        BY <1>2, <1>6
      <3>3. Versions!ApprovedIntegrity(bindings[p].version)'
        BY <1>3, <1>4, <2>1, <3>2 DEF Versions!ApprovedIntegrity, Versions!Exists
      <3> QED BY <1>3, <1>4, <1>5, <2>1, <3>1, <3>3 DEF Versions!BindingVerifies
    <2>2. CASE p # purpose
      <3>1. bindings'[p] = bindings[p] /\ bindings[p] # NoVersion
        BY <1>4, <1>7, <2>2
      <3>2. /\ bindings[p].version \in Version
            /\ Versions!ApprovedIntegrity(bindings[p].version)
            /\ Versions!BindingVerifies(p)
        BY <3>1, BoundTyped
      <3>3. PICK i \in 1 .. Len(bindingEvents) :
                /\ Versions!NewestBinding(i, p)
                /\ bindingEvents[i].version = bindings[p].version
                /\ bindingEvents[i].by = bindings[p].by
        BY <3>2 DEF Versions!BindingVerifies
      <3>4. i \in 1 .. Len(bindingEvents')
        BY <1>0, <1>5 DEF VersionsInv
      <3>5. \A w \in Version : w = bindings[p].version => Versions!ApprovedIntegrity(w)'
        BY <1>6, <3>2
      <3>6. Versions!ApprovedIntegrity(bindings[p].version)'
        BY <3>1, <3>2, <3>5, <1>6 DEF Versions!ApprovedIntegrity, Versions!Exists
      <3> QED BY <1>5, <2>2, <3>1, <3>3, <3>4, <3>6 DEF Versions!BindingVerifies
    <2> QED BY <2>1, <2>2
  <1>8. \A p \in Purpose \ {purpose} :
            bindings[p] # NoVersion => versions[bindings[p].version].kind # versions[v].kind
    BY <1>2 DEF Versions!KindBoundElsewhere
  <1>9. ASSUME NEW p \in Purpose, NEW q \in Purpose, p # q,
               bindings'[p] # NoVersion, bindings'[q] # NoVersion
        PROVE  versions'[bindings'[p].version].kind # versions'[bindings'[q].version].kind
    <2>1. versions' = versions
      BY <1>2
    <2>2. CASE p = purpose
      BY <1>3, <1>4, <1>8, <1>9, <2>1, <2>2
    <2>3. CASE q = purpose
      BY <1>3, <1>4, <1>8, <1>9, <2>1, <2>3
    <2>4. CASE p # purpose /\ q # purpose
      BY <1>4, <1>9, <2>1, <2>4 DEF VersionsInv, Versions!GovernedContentVerifies
    <2> QED BY <2>2, <2>3, <2>4
  <1>10. (\A w \in qualifications : Versions!ApprovedIntegrity(w))'
    BY <1>2, <1>6 DEF VersionsInv, Versions!GovTypeOK, Versions!GovernedContentVerifies
  <1>11. Versions!GovernedContentVerifies'
    BY <1>7, <1>9, <1>10 DEF Versions!GovernedContentVerifies
  <1>12. VersionsAgree'
    BY <1>2 DEF VersionsInv, VersionsAgree, Versions!DraftIntegrity, Versions!ApprovedIntegrity,
                Versions!Exists
  <1> QED BY <1>2, <1>4, <1>5, <1>11, <1>12 DEF VersionsInv, Versions!GovTypeOK

LEMMA ActivateInv ==
    ASSUME VersionConstants, VersionsInv, NEW v \in Version, Versions!ActivateQualification(v)
    PROVE  VersionsInv'
  <1>1. /\ Versions!ApprovedIntegrity(v) /\ qualifications' = qualifications \cup {v}
        /\ UNCHANGED <<versions, versionEvents, reviewing, bindings, bindingEvents>>
    BY DEF Versions!ActivateQualification
  <1>2. \A w \in Version : Versions!ApprovedIntegrity(w) => Versions!ApprovedIntegrity(w)'
    BY <1>1, ApprovedStays
  <1>3. (\A w \in qualifications : Versions!ApprovedIntegrity(w))'
    BY <1>1, <1>2 DEF VersionsInv, Versions!GovTypeOK, Versions!GovernedContentVerifies
  <1>4. \A p \in Purpose : bindings'[p] # NoVersion => Versions!BindingVerifies(p)'
    BY <1>1, <1>2, BoundTyped DEF Versions!BindingVerifies, Versions!NewestBinding
  <1>5. Versions!GovernedContentVerifies'
    BY <1>1, <1>3, <1>4 DEF VersionsInv, Versions!GovernedContentVerifies
  <1>6. VersionsAgree'
    BY <1>1 DEF VersionsInv, VersionsAgree, Versions!DraftIntegrity, Versions!ApprovedIntegrity,
                Versions!Exists
  <1>7. Versions!GovTypeOK'
    BY <1>1 DEF VersionsInv, Versions!GovTypeOK
  <1> QED BY <1>1, <1>5, <1>6, <1>7 DEF VersionsInv

LEMMA VersionsStutter ==
    ASSUME VersionConstants, VersionsInv,
           UNCHANGED <<versions, versionEvents, reviewing, bindings, bindingEvents, qualifications>>
    PROVE  VersionsInv'
  <1>1. VersionsAgree'
    BY DEF VersionsInv, VersionsAgree, Versions!DraftIntegrity, Versions!ApprovedIntegrity,
           Versions!Exists
  <1>2. /\ versions' \in [Version -> Versions!VersionRow \cup {NoVersion}]
        /\ versionEvents' \in [Version -> Seq(VersionEvent)]
        /\ reviewing' \in [Person -> Version \cup {NoVersion}]
    BY DEF VersionsInv, Versions!GovTypeOK
  <1> QED BY <1>1, <1>2, VersionStep

LEMMA VersionsNextInv ==
    ASSUME VersionConstants, VersionsInv, [Versions!GovNext]_(Versions!governanceVars)
    PROVE  VersionsInv'
  <1>1. CASE UNCHANGED Versions!governanceVars
    BY <1>1, VersionsStutter DEF Versions!governanceVars
  <1>2. ASSUME NEW a \in Person, NEW v \in Version, NEW k \in VersionKind, NEW d \in 0 .. LastValidDay,
               Versions!CreateVersion(a, v, k, d)
        PROVE  VersionsInv'
    BY <1>2, CreateInv
  <1>3. ASSUME NEW a \in Person, NEW v \in Version, Versions!OpenDraft(a, v)
        PROVE  VersionsInv'
    BY <1>3, OpenInv
  <1>4. ASSUME NEW a \in Person, Versions!ApproveVersion(a)
        PROVE  VersionsInv'
    BY <1>4, ApproveInv
  <1>5. ASSUME NEW a \in Person, NEW v \in Version, NEW p \in Purpose,
               Versions!BindToProject(a, v, p)
        PROVE  VersionsInv'
    BY <1>5, BindInv
  <1>6. ASSUME NEW v \in Version, Versions!ActivateQualification(v)
        PROVE  VersionsInv'
    BY <1>6, ActivateInv
  <1>7. CASE Versions!NextDay
    BY <1>7, VersionsStutter DEF Versions!NextDay
  <1> QED BY <1>1, <1>2, <1>3, <1>4, <1>5, <1>6, <1>7 DEF Versions!GovNext

\* Whatever is bound to a purpose or activated as a qualification verifies
\* against the audit chain, and a kind is never bound to two purposes
\* (approve_version, bind_to_project, activate_adapter_qualification).  A version
\* has to agree with its events in every state, or an approval could complete a
\* history that says something else than the row.
THEOREM GovernedContentStands ==
    ASSUME VersionConstants
    PROVE  Versions!GovSpec => [](Versions!GovTypeOK /\ Versions!GovernedContentVerifies)
  <1>1. Versions!GovInit => VersionsInv
    BY VersionsInitInv
  <1>2. VersionsInv /\ [Versions!GovNext]_(Versions!governanceVars) => VersionsInv'
    BY VersionsNextInv
  <1>3. VersionsInv => Versions!GovTypeOK /\ Versions!GovernedContentVerifies
    BY DEF VersionsInv
  <1> QED BY <1>1, <1>2, <1>3, PTL DEF Versions!GovSpec

\* A version changes by the act of a person who did not write it.
ApprovedByOthers ==
    \A v \in Version :
        versions[v] \notin {NoVersion, versions'[v]} =>
            versions'[v].approvedBy \in Person \ {versions[v].createdBy}

\* A step changes a version only by approving a draft of somebody else.
LEMMA StepVersionsLegal ==
    ASSUME VersionConstants, VersionsInv, [Versions!GovNext]_(Versions!governanceVars)
    PROVE  VersionsChangeLegally /\ ApprovedByOthers
  <1>1. SUFFICES ASSUME NEW v \in Version, versions[v] \notin {NoVersion, versions'[v]}
                 PROVE  /\ Versions!VersionChangeAllowed(versions[v], versions'[v])
                        /\ versions'[v].approvedBy \in Person \ {versions[v].createdBy}
    BY DEF VersionsChangeLegally, ApprovedByOthers
  <1>2. CASE versions' = versions
    BY <1>1, <1>2
  <1>3. ASSUME NEW a \in Person, NEW w \in Version, NEW k \in VersionKind, NEW d \in 0 .. LastValidDay,
               Versions!CreateVersion(a, w, k, d)
        PROVE  FALSE
    BY <1>1, <1>3 DEF Versions!CreateVersion, Versions!Exists, VersionsInv, Versions!GovTypeOK
  <1>4. ASSUME NEW a \in Person, Versions!ApproveVersion(a)
        PROVE  /\ Versions!VersionChangeAllowed(versions[v], versions'[v])
               /\ versions'[v].approvedBy \in Person \ {versions[v].createdBy}
    <2>1. PICK w : w = reviewing[a]
      OBVIOUS
    <2>2. w \in Version
      BY <1>4, <2>1 DEF VersionsInv, Versions!ApproveVersion
    <2>3. Versions!Approvable(a, w)
      BY <1>1, <1>4, <2>1 DEF Versions!ApproveVersion
    <2>4. /\ versions' = [versions EXCEPT ![w].status = "APPROVED", ![w].approvedBy = a]
          /\ versionEvents' = [versionEvents EXCEPT ![w] =
                Append(versionEvents[w], [type |-> "approved", by |-> a])]
      BY <1>4, <2>1, <2>3 DEF Versions!ApproveVersion
    <2>5. /\ Versions!VersionChangeAllowed(versions[w], versions'[w])
          /\ versions'[w].approvedBy = a /\ a # versions[w].createdBy
          /\ \A x \in Version : x # w => versions'[x] = versions[x]
      BY <2>2, <2>3, <2>4, DraftApproved
    <2> QED BY <1>1, <2>5
  <1> QED BY <1>2, <1>3, <1>4
       DEF Versions!GovNext, Versions!governanceVars, Versions!OpenDraft, Versions!BindToProject,
           Versions!ActivateQualification, Versions!NextDay

\* Only a person other than its author approves a version, once, and nothing else
\* of a version ever changes (approve_version, the trigger of
\* controlled_versions).
THEOREM VersionsFollowTheirTrigger ==
    ASSUME VersionConstants
    PROVE  Versions!GovSpec =>
             [][VersionsChangeLegally /\ ApprovedByOthers]_(Versions!governanceVars)
  <1>1. Versions!GovInit => VersionsInv
    BY VersionsInitInv
  <1>2. VersionsInv /\ [Versions!GovNext]_(Versions!governanceVars) => VersionsInv'
    BY VersionsNextInv
  <1>3. VersionsInv /\ [Versions!GovNext]_(Versions!governanceVars)
            => VersionsChangeLegally /\ ApprovedByOthers
    BY StepVersionsLegal
  <1> QED BY <1>1, <1>2, <1>3, PTL DEF Versions!GovSpec

-----------------------------------------------------------------------------
(* What a finished project teaches.                                         *)

\* The life of a row and of its review task: it is not there yet, it waits for
\* its review, it was decided by somebody else than its author, or it is an
\* actual that a later fact superseded, decided or not.
NotYet(r) ==
    rows[r] = NoRow /\ actualTasks[r] = "none" /\ Outcomes!Records(r) = {}

AwaitsReview(r) ==
    /\ rows[r] # NoRow /\ actualTasks[r] = "PENDING"
    /\ Outcomes!InitialRow(rows[r]) /\ Outcomes!Records(r) = {}

WasDecided(r) ==
    /\ rows[r] # NoRow /\ actualTasks[r] \in {"APPROVED", "REJECTED"}
    /\ rows[r].status = Outcomes!StatusOf(actualTasks[r]) /\ rows[r].current
    /\ rows[r].reviewedBy \notin {Nobody, rows[r].by}
    /\ Outcomes!Records(r) =
          {[ref |-> r, decision |-> actualTasks[r], by |-> rows[r].reviewedBy]}

WasSuperseded(r) ==
    /\ rows[r] # NoRow /\ r[1] = "actual" /\ actualTasks[r] = "SUPERSEDED"
    /\ ~ rows[r].current
    /\ \/ rows[r].status = "IN_REVIEW" /\ Outcomes!Records(r) = {}
       \/ /\ rows[r].status \in {"VERIFIED", "REJECTED"}
          /\ rows[r].reviewedBy \notin {Nobody, rows[r].by}
          /\ \E entry : Outcomes!Records(r) = {entry}

LivesLegally(r) == NotYet(r) \/ AwaitsReview(r) \/ WasDecided(r) \/ WasSuperseded(r)

\* Actuals are numbered in the order of their recording, and the newest one is
\* the current one.
NewestIsCurrent(n) ==
    \A i \in Outcomes!Index :
        /\ rows[<<"actual", i>>] # NoRow <=> i <= n
        /\ i <= n => (rows[<<"actual", i>>].current <=> i = n)

\* A variance rests on a verified actual and an example on a verified variance,
\* and nobody reviews an example they contributed to.
BuiltAt(i) ==
    /\ rows[<<"variance", i>>] # NoRow =>
          rows[<<"actual", i>>] # NoRow /\ rows[<<"actual", i>>].status = "VERIFIED"
    /\ rows[<<"example", i>>] # NoRow =>
          /\ rows[<<"variance", i>>] # NoRow /\ rows[<<"variance", i>>].status = "VERIFIED"
          /\ rows[<<"example", i>>].reviewedBy \notin Outcomes!Contributors(i)

ActualsTyped ==
    /\ Outcomes!ActualsTypeOK
    /\ actualTasks \in
          [Outcomes!Ref -> {"none", "PENDING", "APPROVED", "REJECTED", "SUPERSEDED"}]

\* The inductive invariant of actuals.
ActualsInv ==
    /\ ActualsTyped
    /\ \A r \in Outcomes!Ref : LivesLegally(r)
    /\ \E n \in 0 .. MaxActuals : NewestIsCurrent(n)
    /\ \A i \in Outcomes!Index : BuiltAt(i)

LEMMA RefsOf ==
    ASSUME NEW i \in Outcomes!Index
    PROVE  /\ <<"actual", i>> \in Outcomes!Ref /\ <<"variance", i>> \in Outcomes!Ref
           /\ <<"example", i>> \in Outcomes!Ref
           /\ <<"actual", i>> # <<"variance", i>> /\ <<"actual", i>> # <<"example", i>>
           /\ <<"variance", i>> # <<"example", i>>
  BY DEF Outcomes!Ref, Outcomes!Kind

LEMMA ActualsInitInv ==
    ASSUME ActualsConstants, Outcomes!ActualsInit
    PROVE  ActualsInv
  <1>1. /\ rows = [r \in Outcomes!Ref |-> NoRow] /\ actualTasks = [r \in Outcomes!Ref |-> "none"]
        /\ actualApprovals = {} /\ outcomes = {} /\ bound \in Policy
    BY DEF Outcomes!ActualsInit
  <1>2. ActualsTyped
    BY <1>1 DEF ActualsTyped, Outcomes!ActualsTypeOK
  <1>3. \A r \in Outcomes!Ref : LivesLegally(r)
    BY <1>1 DEF LivesLegally, NotYet, Outcomes!Records
  <1>4. \A i \in Outcomes!Index : BuiltAt(i)
    BY <1>1, RefsOf DEF BuiltAt
  <1>5. NewestIsCurrent(0) /\ 0 \in 0 .. MaxActuals
    <2>1. \A i \in Outcomes!Index : rows[<<"actual", i>>] = NoRow
      BY <1>1, RefsOf
    <2>2. \A i \in Outcomes!Index : ~ (i <= 0)
      BY DEF Outcomes!Index
    <2> QED BY <2>1, <2>2 DEF NewestIsCurrent, ActualsConstants
  <1> QED BY <1>2, <1>3, <1>4, <1>5 DEF ActualsInv

\* Everybody an example rests on, one by one.
LEMMA ContributorsAre ==
    ASSUME NEW i \in Outcomes!Index
    PROVE  /\ Outcomes!Contributors(i) =
                {rows[<<"actual", i>>].by, rows[<<"variance", i>>].by, rows[<<"example", i>>].by,
                 rows[<<"actual", i>>].reviewedBy, rows[<<"variance", i>>].reviewedBy}
           /\ Outcomes!Contributors(i)' =
                {rows'[<<"actual", i>>].by, rows'[<<"variance", i>>].by, rows'[<<"example", i>>].by,
                 rows'[<<"actual", i>>].reviewedBy, rows'[<<"variance", i>>].reviewedBy}
  <1>1. Outcomes!Kind \X {i} = {<<"actual", i>>, <<"variance", i>>, <<"example", i>>}
    BY DEF Outcomes!Kind
  <1>2. {"actual", "variance"} \X {i} = {<<"actual", i>>, <<"variance", i>>}
    OBVIOUS
  <1>3. Outcomes!Contributors(i) =
            {rows[r].by : r \in {<<"actual", i>>, <<"variance", i>>, <<"example", i>>}}
                \cup {rows[r].reviewedBy : r \in {<<"actual", i>>, <<"variance", i>>}}
    BY <1>1, <1>2 DEF Outcomes!Contributors
  <1>4. Outcomes!Contributors(i)' =
            {rows'[r].by : r \in {<<"actual", i>>, <<"variance", i>>, <<"example", i>>}}
                \cup {rows'[r].reviewedBy : r \in {<<"actual", i>>, <<"variance", i>>}}
    BY <1>1, <1>2 DEF Outcomes!Contributors
  <1>5. Outcomes!Contributors(i) =
            {rows[<<"actual", i>>].by, rows[<<"variance", i>>].by, rows[<<"example", i>>].by,
             rows[<<"actual", i>>].reviewedBy, rows[<<"variance", i>>].reviewedBy}
    BY <1>3, Zenon
  <1>6. Outcomes!Contributors(i)' =
            {rows'[<<"actual", i>>].by, rows'[<<"variance", i>>].by, rows'[<<"example", i>>].by,
             rows'[<<"actual", i>>].reviewedBy, rows'[<<"variance", i>>].reviewedBy}
    BY <1>4, Zenon
  <1> QED BY <1>5, <1>6

\* What a step leaves alone lives on as before.
LEMMA RowKept ==
    ASSUME NEW r \in Outcomes!Ref, LivesLegally(r), rows'[r] = rows[r],
           actualTasks'[r] = actualTasks[r], Outcomes!Records(r)' = Outcomes!Records(r)
    PROVE  LivesLegally(r)'
  BY DEF LivesLegally, NotYet, AwaitsReview, WasDecided, WasSuperseded

LEMMA BuiltKept ==
    ASSUME NEW i \in Outcomes!Index, BuiltAt(i),
           \A k \in Outcomes!Kind :
              /\ rows'[<<k, i>>] # NoRow <=> rows[<<k, i>>] # NoRow
              /\ rows'[<<k, i>>].by = rows[<<k, i>>].by
              /\ rows'[<<k, i>>].status = rows[<<k, i>>].status
              /\ rows'[<<k, i>>].reviewedBy = rows[<<k, i>>].reviewedBy
    PROVE  BuiltAt(i)'
  <1>1. Outcomes!Contributors(i)' = Outcomes!Contributors(i)
    BY ContributorsAre DEF Outcomes!Kind
  <1> QED BY <1>1 DEF BuiltAt, Outcomes!Kind

\* A record about one row says nothing about the others.
LEMMA RecordsAdded ==
    ASSUME NEW r, NEW d, NEW a,
           actualApprovals' = actualApprovals \cup {[ref |-> r, decision |-> d, by |-> a]}
    PROVE  /\ Outcomes!Records(r)' =
                Outcomes!Records(r) \cup {[ref |-> r, decision |-> d, by |-> a]}
           /\ \A s : s # r => Outcomes!Records(s)' = Outcomes!Records(s)
  BY DEF Outcomes!Records

\* A row and its task enter through a pending review.
LEMMA NewRowAwaits ==
    ASSUME ActualsConstants, ActualsTyped, NEW r \in Outcomes!Ref, NotYet(r),
           NEW a \in Person, NEW basis \in SUBSET FinalOutcome,
           rows'[r] = Outcomes!NewRow(a, basis), actualTasks'[r] = "PENDING",
           Outcomes!Records(r)' = Outcomes!Records(r)
    PROVE  /\ AwaitsReview(r)' /\ rows'[r] \in Outcomes!Row /\ rows'[r].reviewedBy = Nobody
           /\ rows'[r].by = a /\ rows'[r].current /\ rows'[r].status = "IN_REVIEW"
  <1>1. rows'[r] \in Outcomes!Row
    BY DEF Outcomes!NewRow, Outcomes!Row, ActualsTyped, Outcomes!ActualsTypeOK
  <1>2. Outcomes!InitialRow(rows'[r]) /\ rows'[r].by = a
    BY DEF Outcomes!NewRow, Outcomes!InitialRow
  <1>3. AwaitsReview(r)'
    BY <1>1, <1>2 DEF AwaitsReview, NotYet, ActualsConstants
  <1> QED BY <1>1, <1>2, <1>3 DEF Outcomes!InitialRow

\* A review is decided by somebody else than the author of the row.
LEMMA RowDecided ==
    ASSUME ActualsConstants, ActualsTyped, NEW r \in Outcomes!Ref, LivesLegally(r),
           NEW a \in Person, NEW d \in {"APPROVED", "REJECTED"}, Outcomes!Reviewable(a, r),
           rows'[r] = Outcomes!Decided(rows[r], a, d), actualTasks'[r] = d,
           actualApprovals' = actualApprovals \cup {[ref |-> r, decision |-> d, by |-> a]}
    PROVE  /\ WasDecided(r)' /\ rows'[r] \in Outcomes!Row
           /\ rows[r].status = "IN_REVIEW" /\ rows[r].current
           /\ rows'[r] = [rows[r] EXCEPT !.status = Outcomes!StatusOf(d), !.reviewedBy = a]
           /\ rows'[r].by = rows[r].by /\ rows'[r].reviewedBy = a /\ rows'[r].current
           /\ rows'[r].status = Outcomes!StatusOf(d)
           /\ \A s : s # r => Outcomes!Records(s)' = Outcomes!Records(s)
  <1>1. PICK old, status : old = rows[r] /\ status = Outcomes!StatusOf(d)
    OBVIOUS
  <1>2. PICK new : new = [old EXCEPT !.status = status, !.reviewedBy = a]
    OBVIOUS
  <1>3. rows'[r] = new
    BY <1>1, <1>2, Zenon DEF Outcomes!Decided, Outcomes!StatusOf
  <1>4. AwaitsReview(r) /\ old \in Outcomes!Row /\ old.by # a
    BY <1>1 DEF Outcomes!Reviewable, LivesLegally, NotYet, WasDecided, WasSuperseded, ActualsTyped,
                Outcomes!ActualsTypeOK
  <1>5. old.current /\ old.status = "IN_REVIEW" /\ Outcomes!Records(r) = {}
    BY <1>1, <1>4 DEF AwaitsReview, Outcomes!InitialRow
  <1>6. status \in {"VERIFIED", "REJECTED"}
    BY <1>1 DEF Outcomes!StatusOf
  <1>7. /\ new \in Outcomes!Row /\ new.by = old.by /\ new.reviewedBy = a /\ new.status = status
        /\ new.current
    BY <1>2, <1>4, <1>5, <1>6 DEF Outcomes!Row
  <1>8. /\ Outcomes!Records(r)' = {[ref |-> r, decision |-> d, by |-> a]}
        /\ \A s : s # r => Outcomes!Records(s)' = Outcomes!Records(s)
    BY <1>5, RecordsAdded
  <1>9. WasDecided(r)'
    BY <1>1, <1>3, <1>4, <1>7, <1>8 DEF WasDecided, ActualsConstants
  <1> QED BY <1>1, <1>2, <1>3, <1>5, <1>7, <1>8, <1>9

\* A step that changes one row and its task.
LEMMA OneRowStep ==
    ASSUME ActualsConstants, ActualsInv, NEW r \in Outcomes!Ref, NEW row \in Outcomes!Row,
           NEW task \in {"PENDING", "APPROVED", "REJECTED"},
           rows' = [rows EXCEPT ![r] = row], actualTasks' = [actualTasks EXCEPT ![r] = task],
           \A s \in Outcomes!Ref : s # r => Outcomes!Records(s)' = Outcomes!Records(s),
           LivesLegally(r)', outcomes' = outcomes, bound' = bound
    PROVE  /\ ActualsTyped' /\ \A s \in Outcomes!Ref : LivesLegally(s)'
           /\ rows'[r] = row /\ \A s \in Outcomes!Ref : s # r => rows'[s] = rows[s]
  <1>1. /\ rows' \in [Outcomes!Ref -> Outcomes!Row \cup {NoRow}] /\ rows'[r] = row
        /\ \A s \in Outcomes!Ref : s # r => rows'[s] = rows[s]
    BY DEF ActualsInv, ActualsTyped, Outcomes!ActualsTypeOK
  <1>2. /\ actualTasks' \in
              [Outcomes!Ref -> {"none", "PENDING", "APPROVED", "REJECTED", "SUPERSEDED"}]
        /\ \A s \in Outcomes!Ref : s # r => actualTasks'[s] = actualTasks[s]
    BY DEF ActualsInv, ActualsTyped
  <1>3. \A s \in Outcomes!Ref : LivesLegally(s)'
    BY <1>1, <1>2, RowKept DEF ActualsInv
  <1>4. ActualsTyped'
    BY <1>1, <1>2 DEF ActualsInv, ActualsTyped, Outcomes!ActualsTypeOK
  <1> QED BY <1>1, <1>3, <1>4

\* The order of the actuals stays when none is added or superseded.
LEMMA OrderKept ==
    ASSUME ActualsConstants, \E n \in 0 .. MaxActuals : NewestIsCurrent(n),
           \A i \in Outcomes!Index :
              /\ rows'[<<"actual", i>>] # NoRow <=> rows[<<"actual", i>>] # NoRow
              /\ rows[<<"actual", i>>] # NoRow =>
                    (rows'[<<"actual", i>>].current <=> rows[<<"actual", i>>].current)
    PROVE  (\E n \in 0 .. MaxActuals : NewestIsCurrent(n))'
  BY DEF NewestIsCurrent

\* A decided review of an actual: nothing was built on it yet.
LEMMA DecideActualInv ==
    ASSUME ActualsConstants, ActualsInv, NEW a \in Person, NEW i \in Outcomes!Index,
           NEW d \in {"APPROVED", "REJECTED"}, Outcomes!DecideActual(a, i, d)
    PROVE  ActualsInv'
  <1>1. PICK r : r = <<"actual", i>>
    OBVIOUS
  <1>2. r \in Outcomes!Ref
    BY <1>1, RefsOf
  <1>3. PICK row : row = Outcomes!Decided(rows[r], a, d)
    OBVIOUS
  <1>4. /\ Outcomes!Reviewable(a, r)
        /\ rows' = [rows EXCEPT ![r] = row] /\ actualTasks' = [actualTasks EXCEPT ![r] = d]
        /\ actualApprovals' = actualApprovals \cup {[ref |-> r, decision |-> d, by |-> a]}
        /\ outcomes' = outcomes /\ bound' = bound
    BY <1>1, <1>3 DEF Outcomes!DecideActual, Outcomes!ActualReviewable, Outcomes!Decide
  <1>5. rows'[r] = row /\ actualTasks'[r] = d
    BY <1>2, <1>4 DEF ActualsInv, ActualsTyped, Outcomes!ActualsTypeOK
  <1>6. /\ WasDecided(r)' /\ row \in Outcomes!Row
        /\ rows[r].status = "IN_REVIEW" /\ rows[r].current
        /\ row.current /\ \A s : s # r => Outcomes!Records(s)' = Outcomes!Records(s)
    BY <1>2, <1>3, <1>4, <1>5, RowDecided DEF ActualsInv
  <1>7. /\ ActualsTyped' /\ \A s \in Outcomes!Ref : LivesLegally(s)'
        /\ rows'[r] = row /\ \A s \in Outcomes!Ref : s # r => rows'[s] = rows[s]
    <2>1. LivesLegally(r)' /\ row \in Outcomes!Row
      BY <1>6 DEF LivesLegally
    <2>2. d \in {"PENDING", "APPROVED", "REJECTED"}
      OBVIOUS
    <2>3. /\ rows' = [rows EXCEPT ![r] = row] /\ actualTasks' = [actualTasks EXCEPT ![r] = d]
          /\ outcomes' = outcomes /\ bound' = bound
      BY <1>4
    <2>4. \A s \in Outcomes!Ref : s # r => Outcomes!Records(s)' = Outcomes!Records(s)
      BY <1>6
    <2> QED BY <1>2, <2>1, <2>2, <2>3, <2>4, OneRowStep
  <1>8. rows[r] # NoRow /\ rows'[r] # NoRow
    BY <1>4, <1>6, <1>7 DEF Outcomes!Reviewable, ActualsConstants
  <1>9. ASSUME NEW j \in Outcomes!Index PROVE BuiltAt(j)'
    <2>1. CASE j = i
      <3>1. rows[<<"variance", j>>] = NoRow
        BY <1>1, <1>6, <2>1 DEF ActualsInv, BuiltAt
      <3>2. rows[<<"example", j>>] = NoRow
        BY <3>1 DEF ActualsInv, BuiltAt
      <3>3. rows'[<<"variance", j>>] = NoRow /\ rows'[<<"example", j>>] = NoRow
        BY <1>1, <1>7, <2>1, <3>1, <3>2, RefsOf
      <3> QED BY <3>3 DEF BuiltAt
    <2>2. CASE j # i
      <3>1. \A k \in Outcomes!Kind : rows'[<<k, j>>] = rows[<<k, j>>]
        BY <1>1, <1>7, <2>2, RefsOf DEF Outcomes!Kind
      <3> QED BY <3>1, BuiltKept DEF ActualsInv
    <2> QED BY <2>1, <2>2
  <1>10. \A j \in Outcomes!Index :
            /\ rows'[<<"actual", j>>] # NoRow <=> rows[<<"actual", j>>] # NoRow
            /\ rows'[<<"actual", j>>].current <=> rows[<<"actual", j>>].current
    BY <1>1, <1>6, <1>7, <1>8, RefsOf
  <1>11. (\E n \in 0 .. MaxActuals : NewestIsCurrent(n))'
    BY <1>10, OrderKept DEF ActualsInv
  <1> QED BY <1>7, <1>9, <1>11 DEF ActualsInv

LEMMA CompareInv ==
    ASSUME ActualsConstants, ActualsInv, NEW a \in Person, NEW i \in Outcomes!Index,
           Outcomes!Compare(a, i)
    PROVE  ActualsInv'
  <1>1. PICK r : r = <<"variance", i>>
    OBVIOUS
  <1>2. r \in Outcomes!Ref
    BY <1>1, RefsOf
  <1>3. PICK row : row = Outcomes!NewRow(a, {})
    OBVIOUS
  <1>4. /\ rows[r] = NoRow /\ Outcomes!VerifiedActual(i)
        /\ rows' = [rows EXCEPT ![r] = row]
        /\ actualTasks' = [actualTasks EXCEPT ![r] = "PENDING"]
        /\ actualApprovals' = actualApprovals /\ outcomes' = outcomes /\ bound' = bound
    BY <1>1, <1>3 DEF Outcomes!Compare
  <1>5. rows'[r] = row /\ actualTasks'[r] = "PENDING"
    BY <1>2, <1>4 DEF ActualsInv, ActualsTyped, Outcomes!ActualsTypeOK
  <1>6. \A s : Outcomes!Records(s)' = Outcomes!Records(s)
    BY <1>4 DEF Outcomes!Records
  <1>7. NotYet(r)
    BY <1>2, <1>4 DEF ActualsInv, LivesLegally, AwaitsReview, WasDecided, WasSuperseded
  <1>8. AwaitsReview(r)' /\ row \in Outcomes!Row
    BY <1>2, <1>3, <1>5, <1>6, <1>7, NewRowAwaits DEF ActualsInv
  <1>9. /\ ActualsTyped' /\ \A s \in Outcomes!Ref : LivesLegally(s)'
        /\ rows'[r] = row /\ \A s \in Outcomes!Ref : s # r => rows'[s] = rows[s]
    <2>1. LivesLegally(r)'
      BY <1>8 DEF LivesLegally
    <2> QED BY <1>2, <1>4, <1>6, <1>8, <2>1, OneRowStep
  <1>10. ASSUME NEW j \in Outcomes!Index PROVE BuiltAt(j)'
    <2>1. CASE j = i
      <3>1. rows'[<<"actual", j>>] = rows[<<"actual", j>>] /\ rows'[<<"example", j>>] = rows[<<"example", j>>]
        BY <1>1, <1>9, <2>1, RefsOf
      <3>2. rows[<<"example", j>>] = NoRow
        BY <1>1, <1>4, <2>1 DEF ActualsInv, BuiltAt
      <3>3. rows[<<"actual", j>>] # NoRow /\ rows[<<"actual", j>>].status = "VERIFIED"
        BY <1>4, <2>1 DEF Outcomes!VerifiedActual
      <3> QED BY <3>1, <3>2, <3>3 DEF BuiltAt
    <2>2. CASE j # i
      <3>1. \A k \in Outcomes!Kind : rows'[<<k, j>>] = rows[<<k, j>>]
        BY <1>1, <1>9, <2>2, RefsOf DEF Outcomes!Kind
      <3> QED BY <3>1, BuiltKept DEF ActualsInv
    <2> QED BY <2>1, <2>2
  <1>11. \A j \in Outcomes!Index : rows'[<<"actual", j>>] = rows[<<"actual", j>>]
    BY <1>1, <1>9, RefsOf
  <1>12. (\E n \in 0 .. MaxActuals : NewestIsCurrent(n))'
    BY <1>11, OrderKept DEF ActualsInv
  <1> QED BY <1>9, <1>10, <1>12 DEF ActualsInv

LEMMA DecideExampleInv ==
    ASSUME ActualsConstants, ActualsInv, NEW a \in Person, NEW i \in Outcomes!Index,
           NEW d \in {"APPROVED", "REJECTED"}, Outcomes!DecideExample(a, i, d)
    PROVE  ActualsInv'
  <1>1. PICK r : r = <<"example", i>>
    OBVIOUS
  <1>2. r \in Outcomes!Ref
    BY <1>1, RefsOf
  <1>3. PICK row : row = Outcomes!Decided(rows[r], a, d)
    OBVIOUS
  <1>4. /\ Outcomes!Reviewable(a, r) /\ a \notin Outcomes!Contributors(i)
        /\ rows' = [rows EXCEPT ![r] = row] /\ actualTasks' = [actualTasks EXCEPT ![r] = d]
        /\ actualApprovals' = actualApprovals \cup {[ref |-> r, decision |-> d, by |-> a]}
        /\ outcomes' = outcomes /\ bound' = bound
    BY <1>1, <1>3 DEF Outcomes!DecideExample, Outcomes!ExampleReviewable, Outcomes!Decide
  <1>5. rows'[r] = row /\ actualTasks'[r] = d
    BY <1>2, <1>4 DEF ActualsInv, ActualsTyped, Outcomes!ActualsTypeOK
  <1>6. /\ WasDecided(r)' /\ row \in Outcomes!Row /\ row.by = rows[r].by /\ row.reviewedBy = a
        /\ \A s : s # r => Outcomes!Records(s)' = Outcomes!Records(s)
    <2>1. LivesLegally(r) /\ ActualsTyped
      BY <1>2 DEF ActualsInv
    <2>2. rows'[r] = Outcomes!Decided(rows[r], a, d) /\ actualTasks'[r] = d
      BY <1>3, <1>5
    <2>0. /\ Outcomes!Reviewable(a, r)
          /\ actualApprovals' = actualApprovals \cup {[ref |-> r, decision |-> d, by |-> a]}
      BY <1>4
    <2>3. /\ WasDecided(r)' /\ rows'[r] \in Outcomes!Row
          /\ rows[r].status = "IN_REVIEW" /\ rows[r].current
          /\ rows'[r].by = rows[r].by /\ rows'[r].reviewedBy = a /\ rows'[r].current
          /\ \A s : s # r => Outcomes!Records(s)' = Outcomes!Records(s)
      BY <1>2, <2>0, <2>1, <2>2, RowDecided
    <2> QED BY <1>5, <2>3
  <1>7. /\ ActualsTyped' /\ \A s \in Outcomes!Ref : LivesLegally(s)'
        /\ rows'[r] = row /\ \A s \in Outcomes!Ref : s # r => rows'[s] = rows[s]
    <2>1. LivesLegally(r)' /\ row \in Outcomes!Row
      BY <1>6 DEF LivesLegally
    <2>2. d \in {"PENDING", "APPROVED", "REJECTED"}
      OBVIOUS
    <2>3. /\ rows' = [rows EXCEPT ![r] = row] /\ actualTasks' = [actualTasks EXCEPT ![r] = d]
          /\ outcomes' = outcomes /\ bound' = bound
      BY <1>4
    <2>4. \A s \in Outcomes!Ref : s # r => Outcomes!Records(s)' = Outcomes!Records(s)
      BY <1>6
    <2> QED BY <1>2, <2>1, <2>2, <2>3, <2>4, OneRowStep
  <1>8. ASSUME NEW j \in Outcomes!Index PROVE BuiltAt(j)'
    <2>1. CASE j = i
      <3>1. rows'[<<"actual", j>>] = rows[<<"actual", j>>] /\ rows'[<<"variance", j>>] = rows[<<"variance", j>>]
        BY <1>1, <1>7, <2>1, RefsOf
      <3>2. rows'[<<"example", j>>].by = rows[<<"example", j>>].by /\ rows'[<<"example", j>>].reviewedBy = a
        BY <1>1, <1>6, <1>7, <2>1
      <3>3. Outcomes!Contributors(j)' = Outcomes!Contributors(j)
        BY <3>1, <3>2, ContributorsAre
      <3>4. rows[<<"example", j>>] # NoRow
        BY <1>1, <1>4, <2>1 DEF Outcomes!Reviewable
      <3> QED BY <1>4, <2>1, <3>1, <3>2, <3>3, <3>4 DEF ActualsInv, BuiltAt
    <2>2. CASE j # i
      <3>1. \A k \in Outcomes!Kind : rows'[<<k, j>>] = rows[<<k, j>>]
        BY <1>1, <1>7, <2>2, RefsOf DEF Outcomes!Kind
      <3> QED BY <3>1, BuiltKept DEF ActualsInv
    <2> QED BY <2>1, <2>2
  <1>9. \A j \in Outcomes!Index : rows'[<<"actual", j>>] = rows[<<"actual", j>>]
    BY <1>1, <1>7, RefsOf
  <1>10. (\E n \in 0 .. MaxActuals : NewestIsCurrent(n))'
    BY <1>9, OrderKept DEF ActualsInv
  <1> QED BY <1>7, <1>8, <1>10 DEF ActualsInv

\* An approved variance becomes an example in the same transaction.
LEMMA DecideVarianceInv ==
    ASSUME ActualsConstants, ActualsInv, NEW a \in Person, NEW i \in Outcomes!Index,
           NEW d \in {"APPROVED", "REJECTED"}, Outcomes!DecideVariance(a, i, d)
    PROVE  ActualsInv'
  <1>1. PICK r, e : r = <<"variance", i>> /\ e = <<"example", i>>
    OBVIOUS
  <1>2. r \in Outcomes!Ref /\ e \in Outcomes!Ref /\ r # e
    BY <1>1, RefsOf
  <1>3. PICK row, example : /\ row = Outcomes!Decided(rows[r], a, d)
                            /\ example = Outcomes!Example(a, i, d)
    OBVIOUS
  <1>4. PICK task : task = IF d = "APPROVED" THEN "PENDING" ELSE actualTasks[e]
    OBVIOUS
  <1>5. /\ Outcomes!Reviewable(a, r) /\ Outcomes!VerifiedActual(i)
        /\ rows' = [rows EXCEPT ![r] = row, ![e] = example]
        /\ actualTasks' = [actualTasks EXCEPT ![r] = d, ![e] = task]
        /\ actualApprovals' = actualApprovals \cup {[ref |-> r, decision |-> d, by |-> a]}
        /\ outcomes' = outcomes /\ bound' = bound
    <2>1. /\ Outcomes!Reviewable(a, r) /\ Outcomes!VerifiedActual(i)
          /\ rows' = [rows EXCEPT ![r] = row, ![e] = example]
          /\ actualApprovals' = actualApprovals \cup {[ref |-> r, decision |-> d, by |-> a]}
          /\ outcomes' = outcomes /\ bound' = bound
      BY <1>1, <1>3 DEF Outcomes!DecideVariance, Outcomes!VarianceReviewable
    <2>2. actualTasks' = [actualTasks EXCEPT ![r] = d, ![e] = task]
      BY <1>1, <1>2, <1>4 DEF Outcomes!DecideVariance
    <2> QED BY <2>1, <2>2
  <1>6. /\ rows \in [Outcomes!Ref -> Outcomes!Row \cup {NoRow}]
        /\ actualTasks \in
              [Outcomes!Ref -> {"none", "PENDING", "APPROVED", "REJECTED", "SUPERSEDED"}]
    BY DEF ActualsInv, ActualsTyped, Outcomes!ActualsTypeOK
  <1>7. /\ rows'[r] = row /\ rows'[e] = example /\ actualTasks'[r] = d /\ actualTasks'[e] = task
        /\ \A s \in Outcomes!Ref : s # r /\ s # e =>
              rows'[s] = rows[s] /\ actualTasks'[s] = actualTasks[s]
    BY <1>2, <1>5, <1>6
  <1>8. /\ WasDecided(r)' /\ row \in Outcomes!Row /\ rows[r].status = "IN_REVIEW"
        /\ row.status = Outcomes!StatusOf(d)
        /\ \A s : s # r => Outcomes!Records(s)' = Outcomes!Records(s)
    <2>1. LivesLegally(r) /\ ActualsTyped
      BY <1>2 DEF ActualsInv
    <2>2. rows'[r] = Outcomes!Decided(rows[r], a, d) /\ actualTasks'[r] = d
      BY <1>3, <1>7
    <2>3. /\ Outcomes!Reviewable(a, r)
          /\ actualApprovals' = actualApprovals \cup {[ref |-> r, decision |-> d, by |-> a]}
      BY <1>5
    <2>4. /\ WasDecided(r)' /\ rows'[r] \in Outcomes!Row /\ rows[r].status = "IN_REVIEW"
          /\ rows'[r].status = Outcomes!StatusOf(d)
          /\ \A s : s # r => Outcomes!Records(s)' = Outcomes!Records(s)
      BY <1>2, <2>1, <2>2, <2>3, RowDecided
    <2> QED BY <1>7, <2>4
  <1>9. rows[e] = NoRow
    BY <1>1, <1>8 DEF ActualsInv, BuiltAt
  <1>10. NotYet(e)
    BY <1>2, <1>9 DEF ActualsInv, LivesLegally, AwaitsReview, WasDecided, WasSuperseded
  <1>11. /\ LivesLegally(e)' /\ example \in Outcomes!Row \cup {NoRow}
         /\ task \in {"none", "PENDING"}
         /\ example # NoRow => row.status = "VERIFIED" /\ example.by = a /\ example.reviewedBy = Nobody
    <2>1. CASE d = "APPROVED"
      <3>1. rows'[e] = Outcomes!NewRow(a, {}) /\ actualTasks'[e] = "PENDING" /\ task = "PENDING"
        BY <1>3, <1>4, <1>7, <2>1 DEF Outcomes!Example
      <3>2. Outcomes!Records(e)' = Outcomes!Records(e)
        BY <1>2, <1>8
      <3>3. /\ AwaitsReview(e)' /\ rows'[e] \in Outcomes!Row /\ rows'[e].reviewedBy = Nobody
            /\ rows'[e].by = a
        BY <1>2, <1>10, <3>1, <3>2, NewRowAwaits DEF ActualsInv
      <3>4. row.status = "VERIFIED"
        BY <1>8, <2>1 DEF Outcomes!StatusOf
      <3>5. LivesLegally(e)'
        BY <3>3 DEF LivesLegally
      <3> QED BY <1>7, <3>1, <3>3, <3>4, <3>5
    <2>2. CASE d = "REJECTED"
      <3>1. example = NoRow /\ task = "none"
        BY <1>1, <1>3, <1>4, <1>9, <1>10, <2>2 DEF Outcomes!Example, NotYet
      <3>2. NotYet(e)'
        BY <1>2, <1>7, <1>8, <1>10, <3>1 DEF NotYet
      <3> QED BY <3>1, <3>2 DEF LivesLegally
    <2> QED BY <2>1, <2>2
  <1>12. \A s \in Outcomes!Ref : LivesLegally(s)'
    <2>1. LivesLegally(r)'
      BY <1>8 DEF LivesLegally
    <2>2. \A s \in Outcomes!Ref : s # r /\ s # e => LivesLegally(s)'
      BY <1>7, <1>8, RowKept DEF ActualsInv
    <2> QED BY <1>11, <2>1, <2>2
  <1>13. ActualsTyped'
    <2>1. rows' \in [Outcomes!Ref -> Outcomes!Row \cup {NoRow}]
      BY <1>5, <1>6, <1>8, <1>11
    <2>2. actualTasks' \in
              [Outcomes!Ref -> {"none", "PENDING", "APPROVED", "REJECTED", "SUPERSEDED"}]
      BY <1>5, <1>6, <1>11
    <2> QED BY <1>5, <2>1, <2>2 DEF ActualsInv, ActualsTyped, Outcomes!ActualsTypeOK
  <1>14. ASSUME NEW j \in Outcomes!Index PROVE BuiltAt(j)'
    <2>1. CASE j = i
      <3>1. rows'[<<"actual", j>>] = rows[<<"actual", j>>]
        BY <1>1, <1>7, <2>1, RefsOf
      <3>2. /\ rows[<<"actual", j>>] # NoRow /\ rows[<<"actual", j>>].status = "VERIFIED"
            /\ rows[<<"actual", j>>].reviewedBy # Nobody /\ rows[<<"actual", j>>].by # Nobody
        <4>1. rows[<<"actual", j>>] # NoRow /\ rows[<<"actual", j>>].status = "VERIFIED"
          BY <1>5, <2>1 DEF Outcomes!VerifiedActual
        <4>2. rows[<<"actual", j>>].by \in Person
          BY <1>6, <4>1, RefsOf DEF Outcomes!Row
        <4>3. rows[<<"actual", j>>].reviewedBy # Nobody
          BY <4>1, RefsOf DEF ActualsInv, LivesLegally, NotYet, AwaitsReview, WasDecided, WasSuperseded,
                      Outcomes!InitialRow
        <4> QED BY <4>1, <4>2, <4>3 DEF ActualsConstants
      <3>3. CASE example = NoRow
        BY <1>1, <1>7, <2>1, <3>1, <3>2, <3>3 DEF BuiltAt
      <3>4. CASE example # NoRow
        <4>1. row.by \in Person /\ row.reviewedBy \notin {Nobody, row.by}
          BY <1>7, <1>8 DEF Outcomes!Row, WasDecided
        <4>2. /\ rows'[<<"variance", j>>] = row /\ rows'[<<"example", j>>] = example
              /\ row # NoRow
          BY <1>1, <1>7, <1>8, <2>1 DEF ActualsConstants
        <4>3. Nobody \notin Outcomes!Contributors(j)'
          BY <1>11, <3>1, <3>2, <3>4, <4>1, <4>2, ContributorsAre DEF ActualsConstants
        <4> QED BY <1>11, <3>1, <3>2, <3>4, <4>2, <4>3 DEF BuiltAt
      <3> QED BY <3>3, <3>4
    <2>2. CASE j # i
      <3>1. \A k \in Outcomes!Kind : rows'[<<k, j>>] = rows[<<k, j>>]
        BY <1>1, <1>7, <2>2, RefsOf DEF Outcomes!Kind
      <3> QED BY <3>1, BuiltKept DEF ActualsInv
    <2> QED BY <2>1, <2>2
  <1>15. \A j \in Outcomes!Index : rows'[<<"actual", j>>] = rows[<<"actual", j>>]
    BY <1>1, <1>7, RefsOf
  <1>16. (\E n \in 0 .. MaxActuals : NewestIsCurrent(n))'
    BY <1>15, OrderKept DEF ActualsInv
  <1> QED BY <1>12, <1>13, <1>14, <1>16 DEF ActualsInv

LEMMA OutcomesCardinality ==
    ASSUME NEW S
    PROVE  Outcomes!Cardinality(S) = Cardinality(S)
  BY DEF Outcomes!Cardinality, Cardinality

\* The number of recorded actuals is the number of the newest one.
LEMMA RecordedCount ==
    ASSUME ActualsConstants, NEW n \in 0 .. MaxActuals, NewestIsCurrent(n)
    PROVE  Cardinality(Outcomes!Recorded) = n
  <1>1. Outcomes!Recorded = 1 .. n
    BY DEF Outcomes!Recorded, NewestIsCurrent, Outcomes!Index, ActualsConstants
  <1>2. n \in Nat /\ 1 \in Int /\ n \in Int
    BY DEF ActualsConstants
  <1> QED BY <1>1, <1>2, FS_Interval

\* Recording a fact supersedes the one before, decided or not.
LEMMA RecordStep ==
    ASSUME ActualsConstants, ActualsInv, NEW a \in Person, Outcomes!RecordActual(a),
           NEW n \in 0 .. MaxActuals, NewestIsCurrent(n),
           NEW r, r = <<"actual", n + 1>>, NEW p, p = <<"actual", n>>
    PROVE  /\ n + 1 \in Outcomes!Index /\ r \in Outcomes!Ref /\ p # r
           /\ NotYet(r) /\ rows'[r] = Outcomes!NewRow(a, outcomes) /\ actualTasks'[r] = "PENDING"
           /\ \A s \in Outcomes!Ref : s # r /\ s # p =>
                rows'[s] = rows[s] /\ actualTasks'[s] = actualTasks[s]
           /\ p \in Outcomes!Ref =>
                /\ n \in Outcomes!Index /\ rows[p] \in Outcomes!Row /\ rows[p].current
                /\ rows'[p] = [rows[p] EXCEPT !.current = FALSE]
                /\ actualTasks'[p] = "SUPERSEDED"
           /\ actualTasks' = [s \in Outcomes!Ref |-> actualTasks'[s]]
           /\ rows' = [s \in Outcomes!Ref |-> rows'[s]]
           /\ \A s : Outcomes!Records(s)' = Outcomes!Records(s)
           /\ outcomes' = outcomes /\ bound' = bound
  <1>1. Cardinality(Outcomes!Recorded) = n
    BY RecordedCount
  <1>2. n \in Nat /\ n + 1 - 1 = n
    BY DEF ActualsConstants
  <1>3. /\ n + 1 \in Outcomes!Index
        /\ rows' = [s \in Outcomes!Ref |->
              IF s = <<"actual", n + 1>> THEN Outcomes!NewRow(a, outcomes)
              ELSE IF s = <<"actual", n>> THEN [rows[s] EXCEPT !.current = FALSE]
              ELSE rows[s]]
        /\ actualTasks' = [s \in Outcomes!Ref |->
              IF s = <<"actual", n + 1>> THEN "PENDING"
              ELSE IF s = <<"actual", n>> THEN "SUPERSEDED" ELSE actualTasks[s]]
        /\ actualApprovals' = actualApprovals /\ outcomes' = outcomes /\ bound' = bound
    <2>1. PICK k \in Outcomes!Index :
          /\ k = Outcomes!Cardinality(Outcomes!Recorded) + 1
          /\ rows' = [s \in Outcomes!Ref |->
                IF s = <<"actual", k>> THEN Outcomes!NewRow(a, outcomes)
                ELSE IF s = <<"actual", k - 1>> THEN [rows[s] EXCEPT !.current = FALSE]
                ELSE rows[s]]
          /\ actualTasks' = [s \in Outcomes!Ref |->
                IF s = <<"actual", k>> THEN "PENDING"
                ELSE IF s = <<"actual", k - 1>> THEN Outcomes!Superseded(actualTasks[s])
                ELSE actualTasks[s]]
          /\ UNCHANGED <<actualApprovals, outcomes, disputed, bound>>
      BY Zenon DEF Outcomes!RecordActual
    <2>2. k = n + 1 /\ k - 1 = n
      BY <1>1, <1>2, <2>1, OutcomesCardinality
    <2> QED BY <2>1, <2>2 DEF Outcomes!Superseded
  <1>4. r \in Outcomes!Ref /\ p # r
    <2>1. n + 1 \in Outcomes!Index
      BY <1>3
    <2>2. r \in Outcomes!Ref
      BY <2>1, RefsOf
    <2>3. n + 1 # n
      BY <1>2
    <2> QED BY <2>2, <2>3
  <1>5. /\ rows'[r] = Outcomes!NewRow(a, outcomes) /\ actualTasks'[r] = "PENDING"
        /\ \A s \in Outcomes!Ref : s # r /\ s # p =>
              rows'[s] = rows[s] /\ actualTasks'[s] = actualTasks[s]
        /\ p \in Outcomes!Ref =>
              rows'[p] = [rows[p] EXCEPT !.current = FALSE] /\ actualTasks'[p] = "SUPERSEDED"
    BY <1>3, <1>4
  <1>6. NotYet(r)
    <2>1. rows[r] = NoRow
      BY <1>2, <1>3 DEF NewestIsCurrent
    <2> QED BY <1>4, <2>1 DEF ActualsInv, LivesLegally, AwaitsReview, WasDecided, WasSuperseded
  <1>7. p \in Outcomes!Ref => n \in Outcomes!Index /\ rows[p] \in Outcomes!Row /\ rows[p].current
    BY <1>2 DEF NewestIsCurrent, Outcomes!Ref, ActualsInv, ActualsTyped, Outcomes!ActualsTypeOK
  <1>8. \A s : Outcomes!Records(s)' = Outcomes!Records(s)
    BY <1>3 DEF Outcomes!Records
  <1>9. /\ actualTasks' = [s \in Outcomes!Ref |-> actualTasks'[s]]
        /\ rows' = [s \in Outcomes!Ref |-> rows'[s]]
    BY <1>3
  <1> QED BY <1>3, <1>4, <1>5, <1>6, <1>7, <1>8, <1>9

\* The row that a new fact supersedes.
LEMMA RowSuperseded ==
    ASSUME ActualsConstants, ActualsInv, NEW p \in Outcomes!Ref, p[1] = "actual",
           rows[p] \in Outcomes!Row, rows[p].current,
           rows'[p] = [rows[p] EXCEPT !.current = FALSE], actualTasks'[p] = "SUPERSEDED",
           Outcomes!Records(p)' = Outcomes!Records(p)
    PROVE  /\ WasSuperseded(p)' /\ rows'[p] \in Outcomes!Row /\ ~ rows'[p].current
           /\ rows'[p].by = rows[p].by /\ rows'[p].status = rows[p].status
           /\ rows'[p].reviewedBy = rows[p].reviewedBy
  <1>1. PICK old : old = rows[p]
    OBVIOUS
  <1>2. PICK new : new = [old EXCEPT !.current = FALSE]
    OBVIOUS
  <1>3. /\ new \in Outcomes!Row /\ new.by = old.by /\ new.status = old.status
        /\ new.reviewedBy = old.reviewedBy /\ ~ new.current
    BY <1>1, <1>2 DEF Outcomes!Row
  <1>4. rows'[p] = new /\ new # NoRow
    BY <1>1, <1>2, <1>3 DEF ActualsConstants
  <1>5. AwaitsReview(p) \/ WasDecided(p)
    BY DEF ActualsInv, LivesLegally, NotYet, WasSuperseded, ActualsConstants
  <1>6. CASE AwaitsReview(p)
    BY <1>1, <1>3, <1>4, <1>6 DEF AwaitsReview, WasSuperseded, Outcomes!InitialRow
  <1>7. CASE WasDecided(p)
    <2>1. /\ old.status \in {"VERIFIED", "REJECTED"} /\ old.reviewedBy \notin {Nobody, old.by}
      BY <1>1, <1>7 DEF WasDecided, Outcomes!StatusOf
    <2>2. \E entry : Outcomes!Records(p)' = {entry}
      BY <1>7 DEF WasDecided
    <2>3. /\ rows'[p] # NoRow /\ ~ rows'[p].current
          /\ rows'[p].status \in {"VERIFIED", "REJECTED"}
          /\ rows'[p].reviewedBy \notin {Nobody, rows'[p].by}
      BY <1>3, <1>4, <2>1
    <2>4. WasSuperseded(p)'
      BY <2>2, <2>3 DEF WasSuperseded
    <2> QED BY <1>1, <1>3, <1>4, <2>4
  <1> QED BY <1>1, <1>3, <1>4, <1>5, <1>6, <1>7

LEMMA RecordActualInv ==
    ASSUME ActualsConstants, ActualsInv, NEW a \in Person, Outcomes!RecordActual(a)
    PROVE  ActualsInv'
  <1>1. PICK n \in 0 .. MaxActuals : NewestIsCurrent(n)
    BY DEF ActualsInv
  <1>2. PICK r, p : r = <<"actual", n + 1>> /\ p = <<"actual", n>>
    OBVIOUS
  <1>3. /\ n + 1 \in Outcomes!Index /\ r \in Outcomes!Ref /\ p # r
        /\ NotYet(r) /\ rows'[r] = Outcomes!NewRow(a, outcomes) /\ actualTasks'[r] = "PENDING"
        /\ \A s \in Outcomes!Ref : s # r /\ s # p =>
              rows'[s] = rows[s] /\ actualTasks'[s] = actualTasks[s]
        /\ p \in Outcomes!Ref =>
              /\ n \in Outcomes!Index /\ rows[p] \in Outcomes!Row /\ rows[p].current
              /\ rows'[p] = [rows[p] EXCEPT !.current = FALSE]
              /\ actualTasks'[p] = "SUPERSEDED"
        /\ actualTasks' = [s \in Outcomes!Ref |-> actualTasks'[s]]
        /\ rows' = [s \in Outcomes!Ref |-> rows'[s]]
        /\ \A s : Outcomes!Records(s)' = Outcomes!Records(s)
        /\ outcomes' = outcomes /\ bound' = bound
    BY <1>1, <1>2, RecordStep
  <1>4. /\ AwaitsReview(r)' /\ rows'[r] \in Outcomes!Row /\ rows'[r].current
    <2>1. ActualsTyped /\ outcomes \in SUBSET FinalOutcome
      BY DEF ActualsInv, ActualsTyped, Outcomes!ActualsTypeOK
    <2> QED BY <1>3, <2>1, NewRowAwaits
  <1>5. p \in Outcomes!Ref =>
            /\ WasSuperseded(p)' /\ rows'[p] \in Outcomes!Row /\ ~ rows'[p].current
            /\ rows'[p].by = rows[p].by /\ rows'[p].status = rows[p].status
            /\ rows'[p].reviewedBy = rows[p].reviewedBy
    BY <1>2, <1>3, RowSuperseded
  <1>6. ASSUME NEW s \in Outcomes!Ref
        PROVE  /\ LivesLegally(s)' /\ rows'[s] \in Outcomes!Row \cup {NoRow}
               /\ actualTasks'[s] \in {"none", "PENDING", "APPROVED", "REJECTED", "SUPERSEDED"}
    <2>1. CASE s = r
      BY <1>3, <1>4, <2>1 DEF LivesLegally
    <2>2. CASE s = p
      BY <1>3, <1>5, <2>2 DEF LivesLegally
    <2>3. CASE s # r /\ s # p
      <3>1. rows'[s] = rows[s] /\ actualTasks'[s] = actualTasks[s]
        BY <1>3, <2>3
      <3>2. LivesLegally(s)'
        BY <1>3, <3>1, RowKept DEF ActualsInv
      <3> QED BY <3>1, <3>2 DEF ActualsInv, ActualsTyped, Outcomes!ActualsTypeOK
    <2> QED BY <2>1, <2>2, <2>3
  <1>7. ActualsTyped'
    <2>1. rows' \in [Outcomes!Ref -> Outcomes!Row \cup {NoRow}]
      BY <1>3, <1>6
    <2>2. actualTasks' \in
              [Outcomes!Ref -> {"none", "PENDING", "APPROVED", "REJECTED", "SUPERSEDED"}]
      BY <1>3, <1>6
    <2> QED BY <1>3, <2>1, <2>2 DEF ActualsInv, ActualsTyped, Outcomes!ActualsTypeOK
  <1>8. n \in Nat /\ \A i \in Outcomes!Index : i \in Nat
    BY DEF Outcomes!Index, ActualsConstants
  <1>9. ASSUME NEW j \in Outcomes!Index PROVE BuiltAt(j)'
    <2>1. /\ rows'[<<"variance", j>>] = rows[<<"variance", j>>]
          /\ rows'[<<"example", j>>] = rows[<<"example", j>>]
      BY <1>2, <1>3, RefsOf
    <2>2. CASE j = n + 1
      <3>1. rows[<<"actual", j>>] = NoRow
        BY <1>2, <1>3, <2>2 DEF NotYet
      <3>2. rows[<<"variance", j>>] = NoRow /\ rows[<<"example", j>>] = NoRow
        BY <3>1 DEF ActualsInv, BuiltAt
      <3> QED BY <2>1, <3>2 DEF BuiltAt
    <2>3. CASE j = n
      <3>1. p \in Outcomes!Ref /\ p = <<"actual", j>>
        BY <1>2, <2>3, RefsOf
      <3>2. rows'[p] # NoRow /\ rows[p] # NoRow
        BY <1>3, <1>5, <3>1 DEF ActualsConstants
      <3>3. \A k \in Outcomes!Kind :
              /\ rows'[<<k, j>>] # NoRow <=> rows[<<k, j>>] # NoRow
              /\ rows'[<<k, j>>].by = rows[<<k, j>>].by
              /\ rows'[<<k, j>>].status = rows[<<k, j>>].status
              /\ rows'[<<k, j>>].reviewedBy = rows[<<k, j>>].reviewedBy
        BY <1>5, <2>1, <3>1, <3>2 DEF Outcomes!Kind
      <3> QED BY <3>3, BuiltKept DEF ActualsInv
    <2>4. CASE j # n /\ j # n + 1
      <3>1. rows'[<<"actual", j>>] = rows[<<"actual", j>>]
        BY <1>2, <1>3, <2>4, RefsOf
      <3>2. \A k \in Outcomes!Kind : rows'[<<k, j>>] = rows[<<k, j>>]
        BY <2>1, <3>1 DEF Outcomes!Kind
      <3> QED BY <3>2, BuiltKept DEF ActualsInv
    <2> QED BY <2>2, <2>3, <2>4
  <1>10. PICK m : m = n + 1
    OBVIOUS
  <1>11. m \in 0 .. MaxActuals
    BY <1>3, <1>8, <1>10 DEF Outcomes!Index, ActualsConstants
  <1>12. ASSUME NEW i \in Outcomes!Index
         PROVE  /\ rows'[<<"actual", i>>] # NoRow <=> i <= m
                /\ i <= m => (rows'[<<"actual", i>>].current <=> i = m)
    <2>1. CASE i = m
      <3>1. r = <<"actual", i>> /\ rows'[r] # NoRow /\ rows'[r].current
        BY <1>2, <1>4, <1>10, <2>1 DEF ActualsConstants
      <3> QED BY <1>8, <2>1, <3>1
    <2>2. CASE i = n
      <3>1. p = <<"actual", i>> /\ p \in Outcomes!Ref
        BY <1>2, <2>2, RefsOf
      <3>2. rows'[p] # NoRow /\ ~ rows'[p].current
        BY <1>5, <3>1 DEF ActualsConstants
      <3> QED BY <1>8, <1>10, <2>2, <3>1, <3>2
    <2>3. CASE i # m /\ i # n
      <3>1. rows'[<<"actual", i>>] = rows[<<"actual", i>>]
        BY <1>2, <1>3, <1>10, <2>3, RefsOf
      <3>2. i <= m <=> i <= n
        BY <1>8, <1>10, <2>3
      <3> QED BY <1>1, <2>3, <3>1, <3>2 DEF NewestIsCurrent
    <2> QED BY <2>1, <2>2, <2>3
  <1>13. NewestIsCurrent(m)'
    BY <1>12 DEF NewestIsCurrent
  <1>14. (\E k \in 0 .. MaxActuals : NewestIsCurrent(k))'
    BY <1>11, <1>13
  <1> QED BY <1>6, <1>7, <1>9, <1>14 DEF ActualsInv

\* A step that touches no row: evidence, conflicts, the bound policy.
LEMMA ActualsStutter ==
    ASSUME ActualsConstants, ActualsInv, UNCHANGED <<rows, actualTasks, actualApprovals>>,
           outcomes' \subseteq FinalOutcome, bound' \in Policy
    PROVE  ActualsInv'
  <1>1. \A s : Outcomes!Records(s)' = Outcomes!Records(s)
    BY DEF Outcomes!Records
  <1>2. \A s \in Outcomes!Ref : LivesLegally(s)'
    BY <1>1, RowKept DEF ActualsInv
  <1>3. \A i \in Outcomes!Index : BuiltAt(i)'
    BY BuiltKept DEF ActualsInv
  <1>4. (\E n \in 0 .. MaxActuals : NewestIsCurrent(n))'
    BY OrderKept DEF ActualsInv
  <1>5. ActualsTyped'
    BY DEF ActualsInv, ActualsTyped, Outcomes!ActualsTypeOK
  <1> QED BY <1>2, <1>3, <1>4, <1>5 DEF ActualsInv

LEMMA ActualsNextInv ==
    ASSUME ActualsConstants, ActualsInv, [Outcomes!ActualsNext]_(Outcomes!actualsVars)
    PROVE  ActualsInv'
  <1>0. outcomes \subseteq FinalOutcome /\ bound \in Policy
    BY DEF ActualsInv, ActualsTyped, Outcomes!ActualsTypeOK
  <1>1. CASE UNCHANGED Outcomes!actualsVars
    BY <1>0, <1>1, ActualsStutter DEF Outcomes!actualsVars
  <1>2. ASSUME NEW a \in Person, Outcomes!RecordActual(a)
        PROVE  ActualsInv'
    BY <1>2, RecordActualInv
  <1>3. ASSUME NEW a \in Person, NEW i \in Outcomes!Index, Outcomes!Compare(a, i)
        PROVE  ActualsInv'
    BY <1>3, CompareInv
  <1>4. ASSUME NEW a \in Person, NEW i \in Outcomes!Index, NEW d \in {"APPROVED", "REJECTED"},
               Outcomes!DecideActual(a, i, d)
        PROVE  ActualsInv'
    BY <1>4, DecideActualInv
  <1>5. ASSUME NEW a \in Person, NEW i \in Outcomes!Index, NEW d \in {"APPROVED", "REJECTED"},
               Outcomes!DecideVariance(a, i, d)
        PROVE  ActualsInv'
    BY <1>5, DecideVarianceInv
  <1>6. ASSUME NEW a \in Person, NEW i \in Outcomes!Index, NEW d \in {"APPROVED", "REJECTED"},
               Outcomes!DecideExample(a, i, d)
        PROVE  ActualsInv'
    BY <1>6, DecideExampleInv
  <1>7. ASSUME NEW o \in FinalOutcome, Outcomes!VerifyOutcome(o)
        PROVE  ActualsInv'
    BY <1>0, <1>7, ActualsStutter DEF Outcomes!VerifyOutcome
  <1>8. CASE Outcomes!Dispute
    BY <1>0, <1>8, ActualsStutter DEF Outcomes!Dispute
  <1>9. ASSUME NEW v \in Policy, Outcomes!BindPolicy(v)
        PROVE  ActualsInv'
    BY <1>0, <1>9, ActualsStutter DEF Outcomes!BindPolicy
  <1> QED BY <1>1, <1>2, <1>3, <1>4, <1>5, <1>6, <1>7, <1>8, <1>9 DEF Outcomes!ActualsNext

\* What the invariant says of the links that the deferred triggers check, and of
\* the people behind an example.
LEMMA ActualsInvStands ==
    ASSUME ActualsConstants, ActualsInv
    PROVE  Outcomes!ActualsTypeOK /\ Outcomes!LearnedIndependently /\ Outcomes!LinksHold
  <1>1. /\ Outcomes!Cardinality({}) = 0
        /\ \A x : Outcomes!Cardinality({x}) = 1
    BY OutcomesCardinality, FS_EmptySet, FS_Singleton
  <1>2. ASSUME NEW r \in Outcomes!Ref, rows[r] # NoRow
        PROVE  /\ Outcomes!TaskLinked(r) /\ Outcomes!PendingLinked(r)
               /\ Outcomes!DecidedLinked(r) /\ Outcomes!EvidenceLinked(r)
    <2>1. CASE AwaitsReview(r)
      BY <2>1 DEF AwaitsReview, Outcomes!InitialRow, Outcomes!TaskLinked,
                  Outcomes!PendingLinked, Outcomes!DecidedLinked, Outcomes!EvidenceLinked
    <2>2. CASE WasDecided(r)
      <3>1. PICK entry : entry = [ref |-> r, decision |-> actualTasks[r], by |-> rows[r].reviewedBy]
        OBVIOUS
      <3>2. Outcomes!Records(r) = {entry} /\ entry.decision = actualTasks[r]
            /\ entry.by = rows[r].reviewedBy
        BY <2>2, <3>1 DEF WasDecided
      <3>3. Outcomes!Cardinality(Outcomes!Records(r)) = 1
        BY <1>1, <3>2
      <3>4. Outcomes!TaskLinked(r)
        BY <2>2 DEF WasDecided, Outcomes!TaskLinked
      <3> QED BY <2>2, <3>2, <3>3, <3>4
           DEF WasDecided, Outcomes!PendingLinked, Outcomes!DecidedLinked, Outcomes!EvidenceLinked
    <2>3. CASE WasSuperseded(r)
      <3>1. Outcomes!Cardinality(Outcomes!Records(r)) =
                IF rows[r].status = "IN_REVIEW" THEN 0 ELSE 1
        BY <1>1, <2>3 DEF WasSuperseded
      <3> QED BY <2>3, <3>1 DEF WasSuperseded, Outcomes!TaskLinked, Outcomes!PendingLinked,
                                Outcomes!DecidedLinked, Outcomes!EvidenceLinked
    <2> QED BY <1>2, <2>1, <2>2, <2>3 DEF ActualsInv, LivesLegally, NotYet
  <1>3. ASSUME NEW i \in Outcomes!Index, rows[<<"example", i>>] # NoRow
        PROVE  /\ \A r \in {"actual", "variance"} \X {i} :
                     rows[r].status = "VERIFIED" /\ rows[r].reviewedBy # rows[r].by
               /\ rows[<<"example", i>>].reviewedBy \notin Outcomes!Contributors(i)
    <2>1. /\ rows[<<"variance", i>>] # NoRow /\ rows[<<"variance", i>>].status = "VERIFIED"
          /\ rows[<<"actual", i>>] # NoRow /\ rows[<<"actual", i>>].status = "VERIFIED"
          /\ rows[<<"example", i>>].reviewedBy \notin Outcomes!Contributors(i)
      BY <1>3 DEF ActualsInv, BuiltAt
    <2>2. ASSUME NEW r \in Outcomes!Ref, rows[r] # NoRow, rows[r].status = "VERIFIED"
          PROVE  rows[r].reviewedBy # rows[r].by
      BY <2>2 DEF ActualsInv, LivesLegally, NotYet, AwaitsReview, WasDecided, WasSuperseded,
                  Outcomes!InitialRow
    <2>3. \A r \in {"actual", "variance"} \X {i} : r = <<"actual", i>> \/ r = <<"variance", i>>
      OBVIOUS
    <2> QED BY <2>1, <2>2, <2>3, RefsOf
  <1> QED BY <1>2, <1>3
       DEF ActualsInv, ActualsTyped, Outcomes!LearnedIndependently, Outcomes!LinksHold

\* Nobody approves a calibration example they contributed to, and the rows, tasks
\* and approval records of the three tables agree in every state, also for facts
\* that a later one superseded (record_actual, the review commands, the deferred
\* triggers).  That an example rests on verified rows needs that a superseded
\* actual keeps its decision.
THEOREM ExamplesAreIndependent ==
    ASSUME ActualsConstants
    PROVE  Outcomes!ActualsSpec =>
              [](Outcomes!ActualsTypeOK /\ Outcomes!LearnedIndependently /\ Outcomes!LinksHold)
  <1>1. Outcomes!ActualsInit => ActualsInv
    BY ActualsInitInv
  <1>2. ActualsInv /\ [Outcomes!ActualsNext]_(Outcomes!actualsVars) => ActualsInv'
    BY ActualsNextInv
  <1>3. ActualsInv => Outcomes!ActualsTypeOK /\ Outcomes!LearnedIndependently /\ Outcomes!LinksHold
    BY ActualsInvStands
  <1> QED BY <1>1, <1>2, <1>3, PTL DEF Outcomes!ActualsSpec

\* How a row may change, by the table it is in.
LegalRowChange(r) ==
    IF rows[r] = NoRow
    THEN Outcomes!InitialRow(rows'[r]) /\ Outcomes!InitialTask(actualTasks'[r])
    ELSE /\ r[1] = "actual" => Outcomes!ActualChangeAllowed(rows[r], rows'[r])
         /\ r[1] = "variance" => Outcomes!VarianceChangeAllowed(rows[r], rows'[r])
         /\ r[1] = "example" => Outcomes!ExampleChangeAllowed(rows[r], rows'[r])

LEMMA RowChangesSuffice ==
    ASSUME \A r \in Outcomes!Ref : rows'[r] # rows[r] => LegalRowChange(r)
    PROVE  ActualsChangeLegally
  <1>1. ASSUME NEW r \in Outcomes!Ref, LegalRowChange(r), rows[r] # NoRow
        PROVE  CASE r[1] = "actual" -> Outcomes!ActualChangeAllowed(rows[r], rows'[r])
                 [] r[1] = "variance" -> Outcomes!VarianceChangeAllowed(rows[r], rows'[r])
                 [] r[1] = "example" -> Outcomes!ExampleChangeAllowed(rows[r], rows'[r])
    <2>1. r[1] \in {"actual", "variance", "example"}
      BY DEF Outcomes!Ref, Outcomes!Kind
    <2>2. CASE r[1] = "actual"
      BY <1>1, <2>2 DEF LegalRowChange
    <2>3. CASE r[1] = "variance"
      BY <1>1, <2>3 DEF LegalRowChange
    <2>4. CASE r[1] = "example"
      BY <1>1, <2>4 DEF LegalRowChange
    <2> QED BY <2>1, <2>2, <2>3, <2>4
  <1> QED BY <1>1 DEF ActualsChangeLegally, LegalRowChange

\* A decision changes the two fields that the triggers let a decision change.
LEMMA DecisionIsLegal ==
    ASSUME ActualsConstants, ActualsInv, NEW r \in Outcomes!Ref, NEW a \in Person,
           NEW d \in {"APPROVED", "REJECTED"}, Outcomes!Reviewable(a, r),
           rows'[r] = Outcomes!Decided(rows[r], a, d), actualTasks'[r] = d,
           actualApprovals' = actualApprovals \cup {[ref |-> r, decision |-> d, by |-> a]}
    PROVE  LegalRowChange(r)
  <1>1. PICK old, new : old = rows[r] /\ new = rows'[r]
    OBVIOUS
  <1>2. LivesLegally(r) /\ ActualsTyped
    BY DEF ActualsInv
  <1>3. /\ rows'[r] \in Outcomes!Row
        /\ rows[r].status = "IN_REVIEW" /\ rows[r].current
        /\ rows'[r] = [rows[r] EXCEPT !.status = Outcomes!StatusOf(d), !.reviewedBy = a]
        /\ rows'[r].reviewedBy = a /\ rows'[r].current
        /\ rows'[r].status = Outcomes!StatusOf(d)
    BY <1>2, RowDecided
  <1>4. rows[r] # NoRow /\ old \in Outcomes!Row
    BY <1>1, <1>2 DEF Outcomes!Reviewable, ActualsTyped, Outcomes!ActualsTypeOK
  <1>5. PICK status : status = Outcomes!StatusOf(d) /\ status \in {"VERIFIED", "REJECTED"}
    BY DEF Outcomes!StatusOf
  <1>6. /\ new = [old EXCEPT !.status = status, !.reviewedBy = a] /\ a # Nobody
        /\ old.status = "IN_REVIEW" /\ old.current = new.current /\ old.current
        /\ new.status = status /\ new.reviewedBy = a
    BY <1>1, <1>3, <1>4, <1>5 DEF Outcomes!Row, ActualsConstants
  <1>7. new = [old EXCEPT !.current = new.current, !.status = new.status,
                          !.reviewedBy = new.reviewedBy]
    BY <1>4, <1>6 DEF Outcomes!Row
  <1>8. /\ Outcomes!ActualChangeAllowed(old, new)
        /\ Outcomes!VarianceChangeAllowed(old, new)
        /\ Outcomes!ExampleChangeAllowed(old, new)
    BY <1>5, <1>6, <1>7 DEF Outcomes!ActualChangeAllowed, Outcomes!VarianceChangeAllowed,
                            Outcomes!ExampleChangeAllowed
  <1> QED BY <1>1, <1>4, <1>8 DEF LegalRowChange

\* A step changes the rows of actuals as their triggers accept.
LEMMA StepActualsLegal ==
    ASSUME ActualsConstants, ActualsInv, [Outcomes!ActualsNext]_(Outcomes!actualsVars)
    PROVE  ActualsChangeLegally
  <1>1. SUFFICES ASSUME NEW r \in Outcomes!Ref, rows'[r] # rows[r]
                 PROVE  LegalRowChange(r)
    BY RowChangesSuffice
  <1>2. /\ rows \in [Outcomes!Ref -> Outcomes!Row \cup {NoRow}]
        /\ actualTasks \in
              [Outcomes!Ref -> {"none", "PENDING", "APPROVED", "REJECTED", "SUPERSEDED"}]
    BY DEF ActualsInv, ActualsTyped, Outcomes!ActualsTypeOK
  <1>3. ASSUME NEW a \in Person, NEW q \in Outcomes!Ref, NEW d \in {"APPROVED", "REJECTED"},
               Outcomes!Reviewable(a, q), Outcomes!Decide(a, q, d)
        PROVE  LegalRowChange(r)
    <2>1. PICK row : row = Outcomes!Decided(rows[q], a, d)
      OBVIOUS
    <2>2. /\ rows' = [rows EXCEPT ![q] = row] /\ actualTasks' = [actualTasks EXCEPT ![q] = d]
          /\ actualApprovals' = actualApprovals \cup {[ref |-> q, decision |-> d, by |-> a]}
      BY <1>3, <2>1 DEF Outcomes!Decide
    <2>3. q = r
      BY <1>1, <1>2, <2>2
    <2>4. rows'[q] = Outcomes!Decided(rows[q], a, d) /\ actualTasks'[q] = d
      BY <1>2, <2>1, <2>2
    <2> QED BY <1>3, <2>2, <2>3, <2>4, DecisionIsLegal
  <1>4. ASSUME NEW a \in Person, Outcomes!RecordActual(a)
        PROVE  LegalRowChange(r)
    <2>1. PICK n \in 0 .. MaxActuals : NewestIsCurrent(n)
      BY DEF ActualsInv
    <2>2. PICK q, p : q = <<"actual", n + 1>> /\ p = <<"actual", n>>
      OBVIOUS
    <2>3. /\ NotYet(q) /\ rows'[q] = Outcomes!NewRow(a, outcomes) /\ actualTasks'[q] = "PENDING"
          /\ \A s \in Outcomes!Ref : s # q /\ s # p => rows'[s] = rows[s]
          /\ p \in Outcomes!Ref =>
                /\ rows[p] \in Outcomes!Row /\ rows[p].current
                /\ rows'[p] = [rows[p] EXCEPT !.current = FALSE]
      BY <1>4, <2>1, <2>2, RecordStep
    <2>4. CASE r = q
      BY <2>3, <2>4 DEF NotYet, LegalRowChange, Outcomes!NewRow, Outcomes!InitialRow,
                        Outcomes!InitialTask
    <2>5. CASE r = p
      <3>1. PICK old, new : old = rows[p] /\ new = rows'[p]
        OBVIOUS
      <3>2. /\ old \in Outcomes!Row /\ old.current /\ new = [old EXCEPT !.current = FALSE]
            /\ old # NoRow
        BY <2>3, <2>5, <3>1 DEF ActualsConstants
      <3>3. Outcomes!ActualChangeAllowed(old, new)
        BY <3>2 DEF Outcomes!ActualChangeAllowed, Outcomes!Row
      <3>4. r[1] = "actual"
        BY <2>2, <2>5
      <3> QED BY <2>5, <3>1, <3>2, <3>3, <3>4 DEF LegalRowChange
    <2> QED BY <1>1, <2>3, <2>4, <2>5
  <1>5. ASSUME NEW a \in Person, NEW i \in Outcomes!Index, Outcomes!Compare(a, i)
        PROVE  LegalRowChange(r)
    <2>1. PICK q, row : q = <<"variance", i>> /\ row = Outcomes!NewRow(a, {})
      OBVIOUS
    <2>2. /\ rows[q] = NoRow /\ rows' = [rows EXCEPT ![q] = row]
          /\ actualTasks' = [actualTasks EXCEPT ![q] = "PENDING"]
      BY <1>5, <2>1 DEF Outcomes!Compare
    <2>3. q = r
      BY <1>1, <1>2, <2>2
    <2>4. rows'[q] = row /\ actualTasks'[q] = "PENDING"
      BY <1>1, <1>2, <2>2, <2>3
    <2> QED BY <2>1, <2>2, <2>3, <2>4 DEF LegalRowChange, Outcomes!NewRow, Outcomes!InitialRow,
                                      Outcomes!InitialTask
  <1>6. ASSUME NEW a \in Person, NEW i \in Outcomes!Index, NEW d \in {"APPROVED", "REJECTED"},
               Outcomes!DecideVariance(a, i, d)
        PROVE  LegalRowChange(r)
    <2>1. PICK q, e : q = <<"variance", i>> /\ e = <<"example", i>>
      OBVIOUS
    <2>2. PICK row, example : /\ row = Outcomes!Decided(rows[q], a, d)
                              /\ example = Outcomes!Example(a, i, d)
      OBVIOUS
    <2>3. /\ Outcomes!Reviewable(a, q)
          /\ rows' = [rows EXCEPT ![q] = row, ![e] = example]
          /\ actualApprovals' = actualApprovals \cup {[ref |-> q, decision |-> d, by |-> a]}
      BY <1>6, <2>1, <2>2 DEF Outcomes!DecideVariance, Outcomes!VarianceReviewable
    <2>4. q \in Outcomes!Ref /\ e \in Outcomes!Ref /\ q # e
      BY <2>1, RefsOf
    <2>5. rows'[q] = row /\ rows'[e] = example /\ (r = q \/ r = e)
      BY <1>1, <1>2, <2>3, <2>4
    <2>6. CASE r = q
      <3>1. actualTasks'[q] = d
        BY <1>2, <1>6, <2>1, <2>4 DEF Outcomes!DecideVariance
      <3> QED BY <2>2, <2>3, <2>4, <2>5, <2>6, <3>1, DecisionIsLegal
    <2>7. CASE r = e
      <3>1. d = "APPROVED" /\ example = Outcomes!NewRow(a, {})
        BY <1>1, <2>1, <2>2, <2>5, <2>7 DEF Outcomes!Example
      <3>2. actualTasks'[e] = "PENDING"
        BY <1>2, <1>6, <2>1, <2>4, <3>1 DEF Outcomes!DecideVariance
      <3>3. rows[q].status = "IN_REVIEW"
        BY <2>3 DEF Outcomes!Reviewable
      <3>4. rows[e] = NoRow
        BY <2>1, <3>3 DEF ActualsInv, BuiltAt
      <3> QED BY <2>5, <2>7, <3>1, <3>2, <3>4 DEF LegalRowChange, Outcomes!NewRow,
                                                  Outcomes!InitialRow, Outcomes!InitialTask
    <2> QED BY <2>5, <2>6, <2>7
  <1>7. ASSUME NEW a \in Person, NEW i \in Outcomes!Index, NEW d \in {"APPROVED", "REJECTED"},
               Outcomes!DecideActual(a, i, d) \/ Outcomes!DecideExample(a, i, d)
        PROVE  LegalRowChange(r)
    BY <1>3, <1>7, RefsOf DEF Outcomes!DecideActual, Outcomes!ActualReviewable,
                              Outcomes!DecideExample, Outcomes!ExampleReviewable
  <1>8. CASE rows' = rows
    BY <1>1, <1>8
  <1> QED BY <1>4, <1>5, <1>6, <1>7, <1>8
       DEF Outcomes!ActualsNext, Outcomes!actualsVars, Outcomes!VerifyOutcome, Outcomes!Dispute,
           Outcomes!BindPolicy

\* The triggers of the three tables accept every change the service makes: a row
\* enters through a pending review, is decided once, and only an actual stops
\* being current.
THEOREM ActualsFollowTheirTriggers ==
    ASSUME ActualsConstants
    PROVE  Outcomes!ActualsSpec => [][ActualsChangeLegally]_(Outcomes!actualsVars)
  <1>1. Outcomes!ActualsInit => ActualsInv
    BY ActualsInitInv
  <1>2. ActualsInv /\ [Outcomes!ActualsNext]_(Outcomes!actualsVars) => ActualsInv'
    BY ActualsNextInv
  <1>3. ActualsInv /\ [Outcomes!ActualsNext]_(Outcomes!actualsVars) => ActualsChangeLegally
    BY StepActualsLegal
  <1> QED BY <1>1, <1>2, <1>3, PTL DEF Outcomes!ActualsSpec

-----------------------------------------------------------------------------
(* The components together: a behaviour of Oversight is one of the component *)
(* that runs in it.                                                          *)

\* A behaviour starts as one of its component ...
LEMMA PartBegins ==
    ASSUME Init
    PROVE  /\ part = "access" => Access!Init
           /\ part = "versions" => Versions!GovInit
           /\ part = "tasks" => Tasks!AppInit
           /\ part = "rework" => Rework!ReworkInit
           /\ part = "campaign" => Campaign!CampaignInit
           /\ part = "gates" => Gates!GateInit
           /\ part = "actuals" => Outcomes!ActualsInit
           /\ part = "rates" => Rates!RateInit
           /\ part = "anchors" => Anchors!AnchorInit
           /\ part = "restores" => Restores!RecoveryInit
  BY DEF Init

\* ... and goes on as one: the component that runs makes its own steps.
LEMMA PartRuns ==
    ASSUME [Next]_vars
    PROVE  /\ part' = part
           /\ part = "access" => [Access!Next]_(Access!accessVars)
           /\ part = "versions" => [Versions!GovNext]_(Versions!governanceVars)
           /\ part = "tasks" => [Tasks!AppNext]_(Tasks!approvalVars)
           /\ part = "rework" => [Rework!ReworkNext]_(Rework!reworkVars)
           /\ part = "campaign" => [Campaign!CampaignNext]_(Campaign!campaignVars)
           /\ part = "gates" => [Gates!GateNext]_(Gates!evidenceVars)
           /\ part = "actuals" => [Outcomes!ActualsNext]_(Outcomes!actualsVars)
           /\ part = "rates" => [Rates!RateNext]_(Rates!rateVars)
           /\ part = "anchors" => [Anchors!AnchorNext]_(Anchors!anchorVars)
           /\ part = "restores" => [Restores!RecoveryNext]_(Restores!recoveryVars)
  <1>1. CASE UNCHANGED vars
    BY <1>1 DEF vars, accessVars, versionVars, taskVars, reworkVars, campaignVars, gateVars,
                actualsVars, rateVars, anchorVars, restoreVars, Access!accessVars,
                Versions!governanceVars, Tasks!approvalVars, Tasks!setVars, Rework!reworkVars,
                Campaign!campaignVars, Gates!evidenceVars, Gates!gateVars, Outcomes!actualsVars,
                Rates!rateVars, Anchors!anchorVars, Restores!recoveryVars
  <1>2. CASE Next
    BY <1>2 DEF Next
  <1> QED BY <1>1, <1>2

\* A project always has an active owner (_require_another_active_owner).
THEOREM OwnersRemain ==
    Spec => []OwnerRemains
  <1> DEFINE Inv == (part = "access" => AccessInv)
  <1>0. AccessConstants
    BY OversightAssumption
  <1>1. Init => Inv
    BY <1>0, PartBegins, AccessInitInv
  <1>2. Inv /\ [Next]_vars => Inv'
    BY <1>0, PartRuns, AccessNextInv, AccessStutter
  <1>3. Inv => OwnerRemains
    BY <1>0 DEF OwnerRemains, AccessInv
  <1> QED BY <1>1, <1>2, <1>3, PTL DEF Spec

\* An approval that a release counts was given after the last replacement of a
\* confirmed document set (plan, decide, _invalidate_derived_records).
THEOREM ApprovalsRemainCurrent ==
    Spec => []ApprovalsAreCurrent
  <1> DEFINE Inv == (part = "tasks" => TasksInv)
  <1>0. TaskConstants
    BY OversightAssumption
  <1>1. Init => Inv
    BY <1>0, PartBegins, TasksInitInv
  <1>2. Inv /\ [Next]_vars => Inv'
    BY <1>0, PartRuns, TasksNextInv, TasksStutter
  <1>3. Inv => ApprovalsAreCurrent
    BY <1>0 DEF ApprovalsAreCurrent, TasksInv
  <1> QED BY <1>1, <1>2, <1>3, PTL DEF Spec

\* A rework request becomes one command or one finding before its event is
\* acknowledged (_process_claim, _acknowledge).
THEOREM RequestsAreDispatchedOnce ==
    Spec => []DispatchedOnce
  <1> DEFINE Inv == (part = "rework" => ReworkInv)
  <1>0. ReworkConstants
    BY OversightAssumption
  <1>1. Init => Inv
    BY <1>0, PartBegins, ReworkInitInv
  <1>2. Inv /\ [Next]_vars => Inv'
    BY <1>0, PartRuns, ReworkNextInv, ReworkStutter
  <1>3. Inv => DispatchedOnce
    BY <1>0 DEF DispatchedOnce, ReworkInv
  <1> QED BY <1>1, <1>2, <1>3, PTL DEF Spec

\* A campaign that passed holds no number judged by its author, each case with a
\* snapshot author of its own, and the release accepts it (_snapshot_creator,
\* evaluate, _production_qualification_evidence_valid).
THEOREM CampaignsStand ==
    Spec => []CampaignStands
  <1> DEFINE Inv == (part = "campaign" => CampaignInv)
  <1>0. CampaignConstants
    BY OversightAssumption
  <1>1. Init => Inv
    BY <1>0, PartBegins, CampaignInitInv
  <1>2. Inv /\ [Next]_vars => Inv'
    BY <1>0, PartRuns, CampaignNextInv, CampaignStutter
  <1>3. Inv => CampaignStands
    BY <1>0, CampaignInvStands DEF CampaignStands, CampaignIsSound
  <1> QED BY <1>1, <1>2, <1>3, PTL DEF Spec

\* Bound versions verify against the audit chain, and a bid is released on a
\* package that somebody else reviewed (require_bound_controlled_version,
\* gate_binding_valid).
THEOREM WhatIsReliedOnStands ==
    Spec => []ReliedOnStands
  <1> DEFINE Inv == (part = "versions" => VersionsInv) /\ (part = "gates" => GateInv)
  <1>0. VersionConstants /\ GateConstants
    BY OversightAssumption
  <1>1. Init => Inv
    BY <1>0, PartBegins, VersionsInitInv, GateInitInv
  <1>2. Inv /\ [Next]_vars => Inv'
    BY <1>0, PartRuns, VersionsNextInv, GateNextInv, GateStutter
  <1>3. Inv => ReliedOnStands
    BY <1>0 DEF ReliedOnStands, VersionsInv, GateInv, ReleaseRests,
           Gates!ReleasedOnReviewedEvidence, GateRelease, ReviewersAreOthers, IndependentOf
  <1> QED BY <1>1, <1>2, <1>3, PTL DEF Spec

\* Nobody judges a calibration example that rests on a number of their own
\* (_calibration_review_blockers).
THEOREM LearningIsIndependent ==
    Spec => []LearnedIndependently
  <1> DEFINE Inv == (part = "actuals" => ActualsInv)
  <1>0. ActualsConstants
    BY OversightAssumption
  <1>1. Init => Inv
    BY <1>0, PartBegins, ActualsInitInv
  <1>2. Inv /\ [Next]_vars => Inv'
    BY <1>0, PartRuns, ActualsNextInv
  <1>3. Inv => LearnedIndependently
    BY <1>0, ActualsInvStands DEF LearnedIndependently
  <1> QED BY <1>1, <1>2, <1>3, PTL DEF Spec

\* No caller and no organization is served beyond its quota (consume).
THEOREM QuotasAreKept ==
    Spec => []QuotaHolds
  <1> DEFINE Inv == (part = "rates" => RateInv)
  <1>0. RateConstants
    BY OversightAssumption
  <1>1. Init => Inv
    BY <1>0, PartBegins, RateInitInv
  <1>2. Inv /\ [Next]_vars => Inv'
    BY <1>0, PartRuns, RateNextInv, RateStutter
  <1>3. Inv => QuotaHolds
    BY <1>0, RateInvHolds DEF QuotaHolds
  <1> QED BY <1>1, <1>2, <1>3, PTL DEF Spec

\* A valid anchor proves that no event it covers is missing (anchor_status).
THEOREM AnchorsProve ==
    Spec => []AnchorProvesHistory
  <1> DEFINE Inv == (part = "anchors" => AnchorInv)
  <1>1. Init => Inv
    BY PartBegins, AnchorInitInv
  <1>2. Inv /\ [Next]_vars => Inv'
    BY PartRuns, AnchorNextInv, AnchorStutter
  <1>3. Inv => AnchorProvesHistory
    BY AnchorInvProves DEF AnchorProvesHistory, AnchorInv
  <1> QED BY <1>1, <1>2, <1>3, PTL DEF Spec

\* A restore that passed verification is complete and has every golden
\* calculation; unless its point was declared later than its backup, it also has
\* everything fixed longer before the incident than the approved loss
\* (RecoveryVerifier.verify).
THEOREM RestoresAreComplete ==
    Spec => []PassedRestoreIsComplete
  <1> DEFINE Inv == (part = "restores" => RestoreInv)
  <1>0. RestoreConstants
    BY OversightAssumption
  <1>1. Init => Inv
    BY <1>0, PartBegins, RestoreInitInv
  <1>2. Inv /\ [Next]_vars => Inv'
    BY <1>0, PartRuns, RestoreNextInv, RestoreStutter
  <1>3. Inv => PassedRestoreIsComplete
    BY <1>0 DEF PassedRestoreIsComplete, RestoreInv, IsDatabase, RestoreReachesItsBackup,
                 ExerciseRow, Restores!RecoveryTypeOK, Restores!Running
  <1> QED BY <1>1, <1>2, <1>3, PTL DEF Spec

\* No service ever tries a change of a row that the trigger of its table refuses,
\* and only active owners append to a membership history.
THEOREM HistoriesAreAccepted ==
    Spec => HistoriesAccepted
  <1> DEFINE Inv == /\ part = "access" => AccessInv
                    /\ part = "versions" => VersionsInv
                    /\ part = "tasks" => TasksInv
                    /\ part = "campaign" => CampaignInv /\ SignaturesFollowStatus
                    /\ part = "actuals" => ActualsInv
             Legal == /\ part = "access" => OwnersAppend
                      /\ part = "versions" => VersionsChangeLegally
                      /\ part = "tasks" => TasksChangeLegally
                      /\ part = "campaign" => CampaignChangesLegally
                      /\ part = "actuals" => ActualsChangeLegally
  <1>0. AccessConstants /\ VersionConstants /\ TaskConstants /\ CampaignConstants /\ ActualsConstants
    BY OversightAssumption
  <1>1. Init => Inv
    BY <1>0, PartBegins, AccessInitInv, VersionsInitInv, TasksInitInv, CampaignInitInv, ActualsInitInv
       DEF Campaign!CampaignInit, SignaturesFollowStatus
  <1>2. Inv /\ [Next]_vars => Inv'
    BY <1>0, PartRuns, AccessNextInv, AccessStutter, VersionsNextInv, TasksNextInv, TasksStutter,
       CampaignNextInv, CampaignStutter, CampaignStep, ActualsNextInv
  <1>3. Inv /\ [Next]_vars => Legal
    BY <1>0, PartRuns, StepOwnersAppend, StepVersionsLegal, StepTasksLegal, CampaignStep,
       StepActualsLegal
  <1> QED BY <1>1, <1>2, <1>3, PTL DEF Spec, HistoriesAccepted
=============================================================================
