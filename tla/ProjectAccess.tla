---------------------------- MODULE ProjectAccess ----------------------------
(***************************************************************************)
(* Access to one project: the history of memberships per principal         *)
(* (table project_memberships) and the owner commands that append to it.   *)
(*                                                                         *)
(* Roles come from two sources, the token of the caller (claims, external) *)
(* and the newest membership row; a command needs one that is in both.     *)
(* A command runs in one transaction: it takes the project row FOR UPDATE, *)
(* decides over what it then reads, and commits.  Begin is everything up   *)
(* to the decision and Commit the inserted row, so that two commands of    *)
(* two owners can meet wherever the lock lets them.                        *)
(***************************************************************************)
EXTENDS Naturals, Sequences, SequencesExt

CONSTANTS Person, Creator, Role, MaxRevisions, NoChange

VARIABLES
    claims,      \* [Person -> SUBSET Role]: the roles in a caller's token
    members,     \* [Person -> Seq of rows]: the membership history
    locked,      \* the callers whose transaction holds the project row
    change       \* [Person -> the row a caller is about to append]

accessVars == <<claims, members, locked, change>>

\* ProjectMembershipRow: roles, access level and status, its author, and the
\* version it supersedes.
Revision == [roles : SUBSET Role, owner : BOOLEAN, active : BOOLEAN,
             by : Person, version : Nat]

Init == /\ claims = [p \in Person |-> Role]
        /\ members = [p \in Person |->
                IF p = Creator
                    THEN <<[roles |-> Role, owner |-> TRUE, active |-> TRUE,
                            by |-> p, version |-> 1]>>
                    ELSE <<>>]
        /\ locked = {}
        /\ change = [p \in Person |-> NoChange]

-----------------------------------------------------------------------------
Current(p) == Last(members[p])

ActiveMember(p) == members[p] # <<>> /\ Current(p).active

ActiveOwner(p) == ActiveMember(p) /\ Current(p).owner

\* The roles a caller can use in the project.
EffectiveRoles(p) == claims[p] \cap Current(p).roles

Admitted(p) == ActiveMember(p) /\ EffectiveRoles(p) # {}

MayOwn(p) == Admitted(p) /\ Current(p).owner

AnotherActiveOwner(excluded) == \E q \in Person \ {excluded} : ActiveOwner(q)

NextRevision(p, q, roles, owner, active) ==
    [roles |-> roles, owner |-> owner, active |-> active, by |-> p,
     version |-> Len(members[q]) + 1]

\* The insert trigger of the table: histories only grow, by the next version.
ChainAccepts(q, row) == row.roles # {} /\ row.version = Len(members[q]) + 1
\* Mutant: the project is read without lock=True.
NeverLocked == TRUE

\* get_project(lock=True): one transaction at a time holds the project row.
LockFree == locked = {}

-----------------------------------------------------------------------------
\* The decision of grant_project_membership over what it reads under the lock.
Grantable(p, q, roles, owner) ==
    /\ roles # {}
    /\ p = q /\ owner => claims[p] \cap roles # {}
    /\ MayOwn(p)
    /\ ~ (/\ ActiveMember(q)
          /\ Current(q).owner = owner
          /\ Current(q).roles = roles)
    /\ ActiveOwner(q) /\ ~ owner => AnotherActiveOwner(q)

BeginGrant(p, q, roles, owner) ==
    /\ change[p] = NoChange /\ LockFree
    /\ Len(members[q]) < MaxRevisions
    /\ Grantable(p, q, roles, owner)
    /\ locked' = locked \cup {p}
    /\ change' = [change EXCEPT ![p] =
                    [of |-> q, row |-> NextRevision(p, q, roles, owner, TRUE)]]
    /\ UNCHANGED <<claims, members>>

BeginRevoke(p, q) ==
    /\ change[p] = NoChange /\ LockFree
    /\ Len(members[q]) < MaxRevisions
    /\ MayOwn(p)
    /\ ActiveMember(q)
    /\ Current(q).owner => AnotherActiveOwner(q)
    /\ locked' = locked \cup {p}
    /\ change' = [change EXCEPT ![p] =
          [of |-> q, row |-> NextRevision(p, q, Current(q).roles, Current(q).owner, FALSE)]]
    /\ UNCHANGED <<claims, members>>

\* The row is inserted and the transaction commits, or the trigger refuses
\* the row and it rolls back.
Commit(p) ==
    /\ change[p] # NoChange
    /\ members' = IF ChainAccepts(change[p].of, change[p].row)
                    THEN [members EXCEPT ![change[p].of] = Append(@, change[p].row)]
                    ELSE members
    /\ locked' = locked \ {p}
    /\ change' = [change EXCEPT ![p] = NoChange]
    /\ UNCHANGED claims

\* The process dies with the transaction open.
Rollback(p) ==
    /\ change[p] # NoChange
    /\ locked' = locked \ {p}
    /\ change' = [change EXCEPT ![p] = NoChange]
    /\ UNCHANGED <<claims, members>>

\* The identity provider changes a caller's roles.
ChangeClaims(p, roles) ==
    /\ roles # claims[p]
    /\ claims' = [claims EXCEPT ![p] = roles]
    /\ UNCHANGED <<members, locked, change>>

Next ==
    \/ \E p, q \in Person, roles \in SUBSET Role, owner \in BOOLEAN :
            BeginGrant(p, q, roles, owner)
    \/ \E p, q \in Person : BeginRevoke(p, q)
    \/ \E p \in Person : Commit(p) \/ Rollback(p)
    \/ \E p \in Person, roles \in SUBSET Role : ChangeClaims(p, roles)

Spec == Init /\ [][Next]_accessVars

-----------------------------------------------------------------------------
TypeOK == /\ claims \in [Person -> SUBSET Role]
          /\ members \in [Person -> Seq(Revision)]
          /\ locked \subseteq Person
          /\ \A p \in Person : change[p] # NoChange =>
                change[p].of \in Person /\ change[p].row \in Revision

\* A project always has an active owner, whatever revocations and downgrades
\* of owners run at the same time (_require_another_active_owner).
OwnerRemains == \E p \in Person : ActiveOwner(p)
=============================================================================
