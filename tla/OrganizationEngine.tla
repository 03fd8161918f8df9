---------------------------- MODULE OrganizationEngine ----------------------------
(***************************************************************************)
(* services/organization/src/engine.ts over the organization and audit     *)
(* repositories.                                                           *)
(*                                                                         *)
(*   createOrganization   INSERT | audit row                               *)
(*   inviteMember         organization? | INSERT of the member | audit row *)
(*   assignRole           role? | INSERT of the member                     *)
(*                                                                         *)
(* Users and roles are there from the start: no engine creates them.       *)
(***************************************************************************)
EXTENDS Calls

CONSTANTS Organizations, \* ids of organizations
          Users,
          Roles          \* the roles in the database

VARIABLES organizations, \* the organizations that exist
          members,       \* organization_members: [org, user, role]
          orgAudit       \* ORG_CREATED and MEMBER_INVITED rows

organizationTables == <<organizations, members, orgAudit>>

Member  == [org : Organizations, user : Users, role : Roles]
Created == [event : {"ORG_CREATED"}, org : Organizations]
Invited == [event : {"MEMBER_INVITED"}, member : Member]

OrganizationInit == organizations = {} /\ members = {} /\ orgAudit = {}

-----------------------------------------------------------------------------------
createOrganization(c) ==
  /\ \E o \in Organizations \ organizations :
       /\ Begin(c, "logCreated", [org |-> o])
       /\ organizations' = organizations \cup {o}
  /\ UNCHANGED <<members, orgAudit>>

LogCreated(c) ==
  /\ Return(c, "logCreated")
  /\ orgAudit' = orgAudit \cup {[event |-> "ORG_CREATED", org |-> req[c].org]}
  /\ UNCHANGED <<organizations, members>>

validateTenant(o) == o \in organizations

(* inviteMember: refused for an organization that does not exist.          *)
inviteMember(c, m) ==
  /\ validateTenant(m.org)
  /\ Begin(c, "invite", m)
  /\ UNCHANGED organizationTables

(* assignRole: no organization is looked for.                              *)
assignRole(c, m) ==
  /\ Begin(c, "assign", m)
  /\ UNCHANGED organizationTables

(* The constraints of organization_members: the organization exists, and   *)
(* the user is no member of it.                                            *)
insertable(m) == /\ m.org \in organizations
                 /\ \A n \in members : <<n.org, n.user>> # <<m.org, m.user>>

addMember(m) == insertable(m) /\ members' = members \cup {m}

(* Slip: a refused INSERT is taken for a member who is there already.      *)
InviteIgnored(c) ==
  /\ Goto(c, "invite", "logInvited")
  /\ addMember(req[c]) \/ (~insertable(req[c]) /\ UNCHANGED members)
  /\ UNCHANGED <<organizations, orgAudit>>

Invite(c) ==
  /\ \/ Goto(c, "invite", "logInvited") /\ addMember(req[c])
     \/ Return(c, "invite") /\ ~insertable(req[c]) /\ UNCHANGED members
  /\ UNCHANGED <<organizations, orgAudit>>

LogInvited(c) ==
  /\ Return(c, "logInvited")
  /\ orgAudit' = orgAudit \cup {[event |-> "MEMBER_INVITED", member |-> req[c]]}
  /\ UNCHANGED <<organizations, members>>

(* No audit row is written.                                                *)
Assign(c) ==
  /\ Return(c, "assign")
  /\ addMember(req[c]) \/ (~insertable(req[c]) /\ UNCHANGED members)
  /\ UNCHANGED <<organizations, orgAudit>>

OrganizationStep(c) == LogCreated(c) \/ Invite(c) \/ LogInvited(c) \/ Assign(c)
OrganizationCall(c) == \/ createOrganization(c)
                       \/ \E m \in Member : inviteMember(c, m) \/ assignRole(c, m)
===================================================================================
