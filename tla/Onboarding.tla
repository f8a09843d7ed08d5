----------------------------- MODULE Onboarding -----------------------------
(***************************************************************************)
(* How tenants and users come to be: the provisioning script, the route    *)
(* that accepts an invitation, the public sign-up, the organization a      *)
(* signed in user is served, and the migration scripts that run over all   *)
(* tenants meanwhile.  Each is a sequence of writes to Postgres, MinIO and *)
(* Better Auth (external) without a transaction; nothing is undone.        *)
(***************************************************************************)
EXTENDS Naturals, FiniteSets

CONSTANTS
    Tenants,      \* provisionings ever started, each with a tenant id of its own
    SignUps,      \* sign-ups beside the scripts', each for one email
    Slugs, Emails,
    ALLOW_SIGNUP, \* auth.ts: whether Better Auth's own sign-up is open
    NoTenant

ASSUME OnboardingAssumption ==
    NoTenant \notin Tenants /\ Emails # {} /\ ALLOW_SIGNUP \in BOOLEAN

VARIABLES
    tenants,        \* shared.tenants
    schemas,        \* <<tenant, spelling of its schema's name>>
    buckets,        \* MinIO buckets, by slug
    users,          \* shared.users, by their unique email
    organizations,  \* shared.organizations
    members,        \* shared.members: <<email, organization>>
    provisioning,   \* per provisioning: its arguments and its next statement
    joining,        \* per sign-up: its request, the organization that invited the
                    \* email, if one did, and the session's
    migrated,       \* tenants whose runs table has the columns
    migration       \* the script: next statement, organizations left, failed ones

stores == <<tenants, schemas, buckets, users, organizations, members>>
migrating == <<migrated, migration>>
onboardingVars == <<stores, provisioning, joining, migrating>>

OnboardingInit ==
    /\ tenants = {} /\ schemas = {} /\ buckets = {}
    /\ users = {} /\ organizations = {} /\ members = {}
    /\ provisioning \in [Tenants -> [at : {"insert"}, slug : Slugs, email : Emails]]
    /\ joining = [v \in SignUps |-> [at |-> "unsent", org |-> NoTenant, email |->
                    CHOOSE e \in Emails : TRUE, active |-> NoTenant]]
    /\ migrated = {}
    /\ migration = [at |-> "idle", left |-> {}, listed |-> {}, failed |-> {}]

-----------------------------------------------------------------------------
(* provisionTenantWithAuth, statement by statement.                         *)

ProvisionGoes(a, stage) == provisioning' = [provisioning EXCEPT ![a].at = stage]
ProvisionAt(a, stage) == provisioning[a].at = stage

\* The slug is unique among the tenants.
InsertTenant(a) ==
    /\ ProvisionAt(a, "insert")
    /\ \A b \in tenants : provisioning[b].slug # provisioning[a].slug
    /\ tenants' = tenants \cup {a}
    /\ ProvisionGoes(a, "schema")
    /\ UNCHANGED <<schemas, buckets, users, organizations, members, joining, migrating>>

\* The script's schema is named by the id as it is, with hyphens.
CreateSchema(a) ==
    /\ ProvisionAt(a, "schema")
    /\ schemas' = schemas \cup {<<a, "hyphens">>}
    /\ ProvisionGoes(a, "bucket")
    /\ UNCHANGED <<tenants, buckets, users, organizations, members, joining, migrating>>

EnsureBucket(a) ==
    /\ ProvisionAt(a, "bucket")
    /\ buckets' = buckets \cup {provisioning[a].slug}
    /\ ProvisionGoes(a, "signup")
    /\ UNCHANGED <<tenants, schemas, users, organizations, members, joining, migrating>>

\* Better Auth refuses an email that has an account.
SignUpAdmin(a) ==
    /\ ProvisionAt(a, "signup") /\ provisioning[a].email \notin users
    /\ users' = users \cup {provisioning[a].email}
    /\ ProvisionGoes(a, "organization")
    /\ UNCHANGED <<tenants, schemas, buckets, organizations, members, joining, migrating>>

InsertOrganization(a) ==
    /\ ProvisionAt(a, "organization")
    /\ organizations' = organizations \cup {a}
    /\ ProvisionGoes(a, "member")
    /\ UNCHANGED <<tenants, schemas, buckets, users, members, joining, migrating>>

InsertOwner(a) ==
    /\ ProvisionAt(a, "member")
    /\ members' = members \cup {<<provisioning[a].email, a>>}
    /\ ProvisionGoes(a, "verify")
    /\ UNCHANGED <<tenants, schemas, buckets, users, organizations, joining, migrating>>

VerifySignIn(a) ==
    /\ ProvisionAt(a, "verify")
    /\ ProvisionGoes(a, "done")
    /\ UNCHANGED <<stores, joining, migrating>>

\* A statement is refused or rejects, or the script dies.
ProvisionFails(a) ==
    /\ provisioning[a].at \notin {"done", "failed"}
    /\ ProvisionGoes(a, "failed")
    /\ UNCHANGED <<stores, joining, migrating>>

-----------------------------------------------------------------------------
(* An invitation, its page and POST /api/accept-invite; the public sign-up. *)

JoinGoes(v, stage) == joining' = [joining EXCEPT ![v].at = stage]
JoinAt(v, stage) == joining[v].at = stage

\* Better Auth: a member invites an email to his organization.
Invite(v) ==
    /\ JoinAt(v, "unsent")
    /\ \E m \in members, e \in Emails : <<e, m[2]>> \notin members
          /\ joining' = [joining EXCEPT ![v] =
                           [@ EXCEPT !.at = "page", !.org = m[2], !.email = e]]
    /\ UNCHANGED <<stores, provisioning, migrating>>

\* The page's button, again after a failure as well.
SubmitInvite(v) ==
    /\ joining[v].at \in {"page", "failed"}
    /\ JoinGoes(v, "signup")
    /\ UNCHANGED <<stores, provisioning, migrating>>

\* The route takes the body's email as it is, whatever the invitation's id
\* names: nothing, an invitation of another email, one that is over.
SubmitUninvited(v) ==
    /\ JoinAt(v, "unsent")
    /\ \E e \in Emails : joining' = [joining EXCEPT ![v].at = "signup", ![v].email = e]
    /\ UNCHANGED <<stores, provisioning, migrating>>

\* Better Auth's own endpoint, which brings no organization.
SignUpPublicly(v) ==
    /\ ALLOW_SIGNUP /\ JoinAt(v, "unsent")
    /\ \E e \in Emails \ users :
          /\ users' = users \cup {e}
          /\ joining' = [joining EXCEPT ![v].at = "public", ![v].email = e]
    /\ UNCHANGED <<tenants, schemas, buckets, organizations, members, provisioning, migrating>>

\* The account comes first, before anything asks about the invitation.
SignUpInvitee(v) ==
    /\ JoinAt(v, "signup") /\ joining[v].email \notin users
    /\ users' = users \cup {joining[v].email}
    /\ JoinGoes(v, "signin")
    /\ UNCHANGED <<tenants, schemas, buckets, organizations, members, provisioning, migrating>>

SignInInvitee(v) ==
    /\ JoinAt(v, "signin")
    /\ JoinGoes(v, "accept")
    /\ UNCHANGED <<stores, provisioning, migrating>>

\* Variant: a rejected acceptance is swallowed.
AcceptOrNot(v) ==
    /\ JoinAt(v, "accept") /\ joining[v].org # NoTenant
    /\ members' \in {members, members \cup {<<joining[v].email, joining[v].org>>}}
    /\ JoinGoes(v, "lookup")
    /\ UNCHANGED <<tenants, schemas, buckets, users, organizations, provisioning, migrating>>

\* Better Auth accepts what names a pending invitation of the session's email.
AcceptInvitation(v) ==
    /\ JoinAt(v, "accept") /\ joining[v].org # NoTenant
    /\ members' = members \cup {<<joining[v].email, joining[v].org>>}
    /\ JoinGoes(v, "lookup")
    /\ UNCHANGED <<tenants, schemas, buckets, users, organizations, provisioning, migrating>>

\* The organization is looked up again, and set when it is found.
SetActive(v) ==
    /\ JoinAt(v, "lookup")
    /\ \E found \in {NoTenant, joining[v].org} :
          joining' = [joining EXCEPT ![v].at = "done", ![v].active = found]
    /\ UNCHANGED <<stores, provisioning, migrating>>

JoinFails(v) ==
    /\ joining[v].at \in {"signup", "signin", "accept", "lookup"}
    /\ JoinGoes(v, "failed")
    /\ UNCHANGED <<stores, provisioning, migrating>>

\* requireTenantContext: the session's organization, or any of the user's
\* memberships, or none at all (/no-org).
tenantsServed(email, current) ==
    IF current # NoTenant THEN {current} ELSE {o \in Tenants : <<email, o>> \in members}

-----------------------------------------------------------------------------
(* The migrations.  The tables come from elsewhere, under the name with      *)
(* underscores that createTenantSchema reads.                               *)

CreateTables(a) ==
    /\ a \in organizations
    /\ schemas' = schemas \cup {<<a, "underscores">>}
    /\ UNCHANGED <<tenants, buckets, users, organizations, members>>
    /\ UNCHANGED <<provisioning, joining, migrating>>

\* migrate.ts, over shared.tenants; it stops at the first failure.
MigrateAll ==
    /\ \E done \in SUBSET tenants : schemas' = schemas \cup (done \X {"hyphens"})
    /\ UNCHANGED <<tenants, buckets, users, organizations, members>>
    /\ UNCHANGED <<provisioning, joining, migrating>>

\* migrate-13, -17, -17-1 and -19, over shared.organizations.
ListOrganizations ==
    /\ migration.at \in {"idle", "done"}
    /\ migration' = [at |-> "alter", left |-> organizations, failed |-> {},
                     listed |-> {a \in organizations : <<a, "underscores">> \in schemas}]
    /\ UNCHANGED <<stores, provisioning, joining, migrated>>

\* ALTER TABLE ... ADD COLUMN IF NOT EXISTS for one tenant.
AlterTenant(a) ==
    /\ migration.at = "alter" /\ a \in migration.left
    /\ <<a, "underscores">> \in schemas
    /\ migrated' = migrated \cup {a}
    /\ migration' = [migration EXCEPT !.left = @ \ {a}]
    /\ UNCHANGED <<stores, provisioning, joining>>

\* Variant: the try is around the loop.
AlterEndsTheLoop(a) ==
    /\ migration.at = "alter" /\ a \in migration.left
    /\ migration' = [migration EXCEPT !.left = {}, !.failed = @ \cup {a}]
    /\ UNCHANGED <<stores, provisioning, joining, migrated>>

\* It fails, for want of the table or otherwise; the loop goes on.
AlterFails(a) ==
    /\ migration.at = "alter" /\ a \in migration.left
    /\ migration' = [migration EXCEPT !.left = @ \ {a}, !.failed = @ \cup {a}]
    /\ UNCHANGED <<stores, provisioning, joining, migrated>>

MigrationEnds ==
    /\ migration.at = "alter" /\ migration.left = {}
    /\ migration' = [migration EXCEPT !.at = "done"]
    /\ UNCHANGED <<stores, provisioning, joining, migrated>>

-----------------------------------------------------------------------------

OnboardingNext ==
    \/ \E a \in Tenants :
          \/ InsertTenant(a) \/ CreateSchema(a) \/ EnsureBucket(a) \/ SignUpAdmin(a)
          \/ InsertOrganization(a) \/ InsertOwner(a) \/ VerifySignIn(a) \/ ProvisionFails(a)
          \/ CreateTables(a) \/ AlterTenant(a) \/ AlterFails(a)
    \/ \E v \in SignUps :
          \/ Invite(v) \/ SubmitInvite(v) \/ SubmitUninvited(v) \/ SignUpPublicly(v)
          \/ SignUpInvitee(v) \/ SignInInvitee(v)
          \/ AcceptInvitation(v) \/ SetActive(v) \/ JoinFails(v)
    \/ MigrateAll \/ ListOrganizations \/ MigrationEnds

OnboardingSpec == OnboardingInit /\ [][OnboardingNext]_onboardingVars

-----------------------------------------------------------------------------
(* Properties.                                                              *)

\* The typing of the stores and of the scripts' and the route's progress.
OnboardingTypeOK ==
    /\ tenants \subseteq Tenants /\ organizations \subseteq tenants
    /\ schemas \subseteq Tenants \X {"hyphens", "underscores"}
    /\ buckets \subseteq Slugs /\ users \subseteq Emails
    /\ members \subseteq users \X organizations
    /\ provisioning \in [Tenants -> [slug : Slugs, email : Emails, at : {"insert", "schema",
            "bucket", "signup", "organization", "member", "verify", "done", "failed"}]]
    /\ joining \in [SignUps -> [org : Tenants \cup {NoTenant}, email : Emails,
            active : Tenants \cup {NoTenant},
            at : {"unsent", "page", "public", "signup", "signin", "accept", "lookup", "done",
                  "failed"}]]
    /\ migrated \subseteq organizations
    /\ migration \in [at : {"idle", "alter", "done"}, left : SUBSET Tenants,
                      listed : SUBSET Tenants, failed : SUBSET Tenants]

\* Who was told that he is in, by the route or the script, is served that
\* organization and no other, also when the session could not be given it.  An
\* account that is served none came by the public sign-up, or is left by a
\* script, or by a call of the route, invited or not, that failed or is not done.
NewUsersAreServed ==
    /\ \A v \in SignUps : JoinAt(v, "done") =>
          tenantsServed(joining[v].email, joining[v].active) = {joining[v].org}
    /\ \A a \in Tenants : ProvisionAt(a, "done") =>
          tenantsServed(provisioning[a].email, NoTenant) = {a}
    /\ \A e \in users : tenantsServed(e, NoTenant) = {} =>
          \/ \E a \in tenants : provisioning[a].email = e
                /\ provisioning[a].at \in {"organization", "member", "failed"}
          \/ \E v \in SignUps : joining[v].email = e
                /\ joining[v].at \in {"public", "signup", "signin", "accept", "failed"}

\* One bad tenant does not block the rest: when a migration is over, every
\* tenant that had its tables when it began is migrated, unless its own
\* statement failed.
GoodTenantsAreMigrated ==
    migration.at = "done" => migration.listed \subseteq migrated \cup migration.failed

=============================================================================
