------------------------------ MODULE Accounts ------------------------------
(***************************************************************************)
(* Accounts, company seats, invitations and sessions under concurrent      *)
(* requests.                                                               *)
(*                                                                         *)
(*   internal/app/auth_handler.go, postgres_identity.go   sign up, sign in *)
(*   internal/app/onboarding.go, postgres_onboarding.go   invitations      *)
(*   internal/app/postgres_tenant_registry.go             companies, seats *)
(*   migrations/0005, 0009, 0011-0014, 0017               SQL functions    *)
(*                                                                         *)
(* A request is one call of a handler.  The SQL functions run in READ      *)
(* COMMITTED: every statement sees what is committed when it starts, so a  *)
(* function that waits for a lock is several steps, and its locks are kept *)
(* until it ends.  An address is guarded by an advisory lock, a company by *)
(* another; the row of an account is locked FOR UPDATE.  Names, passwords, *)
(* cookies and CSRF tokens only decide whether a handler goes on and are   *)
(* left out.                                                               *)
(***************************************************************************)
EXTENDS Integers, FiniteSets

CONSTANTS
    Account,     \* identities of accounts, numbers: the order of their ids
    MaxId,       \* the largest id there is
    Root,        \* the platform administrator the operator creates
    Email,       \* addresses, in lower case
    Tenant,      \* companies that may be registered
    Invitation,  \* identities of invitations
    Request,     \* concurrent requests
    MaxSessions, \* bound: sessions at a time
    None

ASSUME ConstantsAssumption ==
    /\ MaxId \in Nat /\ Account \subseteq 0 .. MaxId /\ Root \in 0 .. MaxId \ Account
    /\ MaxSessions \in Nat
    /\ None \notin Account \cup {Root} \cup Email \cup Tenant \cup Invitation \cup Request

User == Account \cup {Root}

VARIABLES
    users,       \* identities with a row in public.users
    email,       \* users.email, None for an identity not used yet
    tenantOf,    \* users.tenant_id
    role,        \* users.role
    tenants,     \* public.tenants
    invite,      \* per invitation: new, pending or accepted (used or closed)
    inviteTo,    \* per invitation: company, address and role
    expired,     \* invitations past their 48 hours
    session,     \* users with a session
    emailLock, tenantLock, rowLock,   \* who holds the lock, or None
    pc, actor, target, ten, addr, grant,        \* per request
    want,        \* per request: rows its FOR UPDATE has still to lock
    hadAdmin,    \* history: companies that have had an administrator
    disturbed    \* history: companies whose administrators the platform disturbed

userVars == <<users, email, tenantOf, role>>
lockVars == <<emailLock, tenantLock, rowLock>>
reqVars  == <<pc, actor, target, ten, addr, grant, want>>
vars == <<users, email, tenantOf, role, tenants, invite, inviteTo, expired, session,
          emailLock, tenantLock, rowLock, pc, actor, target, ten, addr, grant, want,
          hadAdmin, disturbed>>

NoInvite == [tenant |-> None, email |-> None, role |-> None]

Init ==
    /\ users = {}
    /\ email = [a \in User |-> None]
    /\ tenantOf = [a \in User |-> None]
    /\ role = [a \in User |-> "member"]
    /\ tenants = {}
    /\ invite = [i \in Invitation |-> "new"]
    /\ inviteTo = [i \in Invitation |-> NoInvite]
    /\ expired = {}
    /\ session = {}
    /\ emailLock = [e \in Email |-> None]
    /\ tenantLock = [t \in Tenant |-> None]
    /\ rowLock = [a \in User |-> None]
    /\ pc = [q \in Request |-> "idle"]
    /\ actor = [q \in Request |-> None]
    /\ target = [q \in Request |-> None]
    /\ ten = [q \in Request |-> None]
    /\ addr = [q \in Request |-> None]
    /\ grant = [q \in Request |-> None]
    /\ want = [q \in Request |-> {}]
    /\ hadAdmin = {}
    /\ disturbed = {}

-----------------------------------------------------------------------------
(***************************************************************************)
(* Conditions the SQL statements test, and the end of a request.           *)
(***************************************************************************)

Live(a)         == a \in users
Registered(e)   == \E a \in User : Live(a) /\ email[a] = e
Unaccepted(i)   == invite[i] = "pending"
Available(i)    == Unaccepted(i) /\ i \notin expired
IsAdmin(a, t)   == Live(a) /\ tenantOf[a] = t /\ role[a] = "tenant_admin"
IsPlatform(a)   == Live(a) /\ tenantOf[a] = None /\ role[a] = "platform_admin"
HasAdmin(t)     == \E a \in User : IsAdmin(a, t)
Changeable(a)   == Live(a) /\ role[a] \in {"member", "tenant_admin"}

Free(lock, x, q) == lock[x] \in {None, q}

\* The transaction ends and the handler answers.
Answer(q) ==
    /\ emailLock' = [e \in Email |-> IF emailLock[e] = q THEN None ELSE emailLock[e]]
    /\ tenantLock' = [t \in Tenant |-> IF tenantLock[t] = q THEN None ELSE tenantLock[t]]
    /\ rowLock' = [a \in User |-> IF rowLock[a] = q THEN None ELSE rowLock[a]]
    /\ pc' = [pc EXCEPT ![q] = "idle"]
    /\ actor' = [actor EXCEPT ![q] = None]
    /\ target' = [target EXCEPT ![q] = None]
    /\ ten' = [ten EXCEPT ![q] = None]
    /\ addr' = [addr EXCEPT ![q] = None]
    /\ grant' = [grant EXCEPT ![q] = None]
    /\ want' = [want EXCEPT ![q] = {}]

Goto(q, l) == pc' = [pc EXCEPT ![q] = l]

\* An identity no row has and no request speaks of stands for a new one.
Fresh(a) == a \notin users /\ \A q \in Request : a \notin {actor[q], target[q]}

\* A new row of public.users.
Insert(a, e, t, r) ==
    /\ users' = users \cup {a}
    /\ email' = [email EXCEPT ![a] = e]
    /\ tenantOf' = [tenantOf EXCEPT ![a] = t]
    /\ role' = [role EXCEPT ![a] = r]
    /\ hadAdmin' = IF r = "tenant_admin" THEN hadAdmin \cup {t} ELSE hadAdmin

-----------------------------------------------------------------------------
(***************************************************************************)
(* Sign up and sign in.                                                    *)
(***************************************************************************)

StartSignup(q, e) ==
    /\ pc[q] = "idle"
    /\ Goto(q, "signupLock")
    /\ addr' = [addr EXCEPT ![q] = e]
    /\ UNCHANGED <<userVars, tenants, invite, inviteTo, expired, session, lockVars,
                   actor, target, ten, grant, want, hadAdmin, disturbed>>

\* Fault: signup does not wait for the address.
LockEmailUnchecked(q) ==
    /\ pc[q] \in {"signupLock", "inviteEmail", "acceptEmail"}
    /\ emailLock' = [emailLock EXCEPT ![addr[q]] = q]
    /\ Goto(q, IF pc[q] = "signupLock" THEN "signupCheck"
               ELSE IF pc[q] = "inviteEmail" THEN "inviteClose" ELSE "acceptAct")
    /\ UNCHANGED <<userVars, tenants, invite, inviteTo, expired, session, tenantLock, rowLock,
                   actor, target, ten, addr, grant, want, hadAdmin, disturbed>>

\* pg_advisory_xact_lock('namo-invitation:' || email)
LockEmail(q) ==
    /\ pc[q] \in {"signupLock", "inviteEmail", "acceptEmail"}
    /\ Free(emailLock, addr[q], q)
    /\ emailLock' = [emailLock EXCEPT ![addr[q]] = q]
    /\ Goto(q, IF pc[q] = "signupLock" THEN "signupCheck"
               ELSE IF pc[q] = "inviteEmail" THEN "inviteClose" ELSE "acceptAct")
    /\ UNCHANGED <<userVars, tenants, invite, inviteTo, expired, session, tenantLock, rowLock,
                   actor, target, ten, addr, grant, want, hadAdmin, disturbed>>

SignupCheck(q) ==
    /\ pc[q] = "signupCheck"
    /\ IF \/ Registered(addr[q])
          \/ \E i \in Invitation : Available(i) /\ inviteTo[i].email = addr[q]
       THEN Answer(q)
       ELSE Goto(q, "signupInsert") /\ UNCHANGED <<lockVars, actor, target, ten, addr, grant, want>>
    /\ UNCHANGED <<userVars, tenants, invite, inviteTo, expired, session, hadAdmin, disturbed>>

SessionRoom == Cardinality(session) < MaxSessions

\* The row, unless another row has the address, and the session; when SaveSession
\* fails the account stays.
SignupInsert(q, a) ==
    /\ pc[q] = "signupInsert"
    /\ Fresh(a)
    /\ ~Registered(addr[q])
    /\ Insert(a, addr[q], None, "member")
    /\ \/ session' = session
       \/ SessionRoom /\ session' = session \cup {a}
    /\ Answer(q)
    /\ UNCHANGED <<tenants, invite, inviteTo, expired, disturbed>>

\* A unique violation, or any other failure of the call.
SignupFails(q) ==
    /\ pc[q] \in {"signupLock", "signupInsert"}
    /\ Answer(q)
    /\ UNCHANGED <<userVars, tenants, invite, inviteTo, expired, session, hadAdmin, disturbed>>

\* AccountByEmail, the right password and SaveSession, which the foreign key
\* refuses for an account deleted in the meantime.  A second session of an
\* account would allow what the first one does.
Login(a) ==
    /\ Live(a) /\ a \notin session /\ SessionRoom
    /\ session' = session \cup {a}
    /\ UNCHANGED <<userVars, tenants, invite, inviteTo, expired, lockVars, reqVars,
                   hadAdmin, disturbed>>

\* Logout, or the 12 hours are over.
EndSession(a) ==
    /\ a \in session
    /\ session' = session \ {a}
    /\ UNCHANGED <<userVars, tenants, invite, inviteTo, expired, lockVars, reqVars,
                   hadAdmin, disturbed>>

-----------------------------------------------------------------------------
(***************************************************************************)
(* A signed-in request: SessionByHash reads role and company from the row, *)
(* and the handler lets it through by that role.                           *)
(***************************************************************************)

Authenticate(q, a, l) ==
    /\ pc[q] = "idle"
    /\ a \in session /\ Live(a)
    /\ Goto(q, l)
    /\ actor' = [actor EXCEPT ![q] = a]

StartPlatform(q, a, l, b, t, r) ==
    /\ IsPlatform(a)
    /\ Authenticate(q, a, l)
    /\ target' = [target EXCEPT ![q] = b]
    /\ ten' = [ten EXCEPT ![q] = t]
    /\ grant' = [grant EXCEPT ![q] = r]
    /\ UNCHANGED <<userVars, tenants, invite, inviteTo, expired, session, lockVars,
                   addr, want, hadAdmin, disturbed>>

\* admin_register_tenant; a second registration of the company is refused.
RegisterTenant(q) ==
    /\ pc[q] = "register"
    /\ tenants' = IF IsPlatform(actor[q]) THEN tenants \cup {ten[q]} ELSE tenants
    /\ Answer(q)
    /\ UNCHANGED <<userVars, invite, inviteTo, expired, session, hadAdmin, disturbed>>

\* The platform takes an administrator from a company, or makes one of an account
\* whose own removal of somebody has passed the FOR UPDATE and not the check.
Disturbs(b, t, r) ==
    disturbed
    \cup {u \in {tenantOf[b]} : role[b] = "tenant_admin" /\ (r # "tenant_admin" \/ t # u)}
    \cup {u \in {t} : r = "tenant_admin" /\ \E p \in Request :
               pc[p] \in {"removeLock", "removeCheck"} /\ actor[p] = b /\ ten[p] = u}

\* admin_set_account_access: the update waits for the row.
SetAccountAccess(q) ==
    LET b == target[q] IN
    /\ pc[q] = "assign"
    /\ rowLock[b] = None
    /\ IF IsPlatform(actor[q]) /\ ten[q] \in tenants \cup {None} /\ Changeable(b)
       THEN /\ tenantOf' = [tenantOf EXCEPT ![b] = ten[q]]
            /\ role' = [role EXCEPT ![b] = grant[q]]
            /\ hadAdmin' = IF grant[q] = "tenant_admin" THEN hadAdmin \cup {ten[q]} ELSE hadAdmin
            /\ disturbed' = Disturbs(b, ten[q], grant[q])
       ELSE UNCHANGED <<tenantOf, role, hadAdmin, disturbed>>
    /\ Answer(q)
    /\ UNCHANGED <<users, email, tenants, invite, inviteTo, expired, session>>

\* admin_delete_account; the sessions go with the row.
DeleteAccount(q) ==
    LET b == target[q] IN
    /\ pc[q] = "delete"
    /\ rowLock[b] = None
    /\ IF IsPlatform(actor[q]) /\ actor[q] # b /\ Changeable(b)
       THEN /\ users' = users \ {b}
            /\ email' = [email EXCEPT ![b] = None]
            /\ tenantOf' = [tenantOf EXCEPT ![b] = None]
            /\ role' = [role EXCEPT ![b] = "member"]
            /\ session' = session \ {b}
            /\ disturbed' = Disturbs(b, None, "member")
       ELSE UNCHANGED <<users, email, tenantOf, role, session, disturbed>>
    /\ Answer(q)
    /\ UNCHANGED <<tenants, invite, inviteTo, expired, hadAdmin>>

-----------------------------------------------------------------------------
(***************************************************************************)
(* tenant_remove_member: FOR UPDATE over actor and target in the order of  *)
(* their ids, then the check of the actor, then the update.                *)
(***************************************************************************)

StartRemove(q, a, b) ==
    /\ role[a] = "tenant_admin" /\ tenantOf[a] # None
    /\ a # b
    /\ Authenticate(q, a, "removeStart")
    /\ target' = [target EXCEPT ![q] = b]
    /\ ten' = [ten EXCEPT ![q] = tenantOf[a]]
    /\ UNCHANGED <<userVars, tenants, invite, inviteTo, expired, session, lockVars,
                   addr, grant, want, hadAdmin, disturbed>>

Seated(a, t) == Live(a) /\ tenantOf[a] = t

RemoveStart(q) ==
    /\ pc[q] = "removeStart"
    /\ want' = [want EXCEPT ![q] = {a \in {actor[q], target[q]} : Seated(a, ten[q])}]
    /\ Goto(q, "removeLock")
    /\ UNCHANGED <<userVars, tenants, invite, inviteTo, expired, session, lockVars,
                   actor, target, ten, addr, grant, hadAdmin, disturbed>>

\* Fault: the target is locked before the actor, whatever their ids.
FirstOfTarget(q) == IF target[q] \in want[q] THEN target[q] ELSE actor[q]

First(q) == CHOOSE a \in want[q] : \A b \in want[q] : a <= b

\* Fault: the rows are not locked.
RemoveLockNothing(q) ==
    /\ pc[q] = "removeLock"
    /\ want' = [want EXCEPT ![q] = {}]
    /\ Goto(q, "removeCheck")
    /\ UNCHANGED <<userVars, tenants, invite, inviteTo, expired, session, lockVars,
                   actor, target, ten, addr, grant, hadAdmin, disturbed>>

\* A row that has left the company by the time its lock is free is passed over,
\* locked all the same; a deleted one has nothing to lock.
RemoveLock(q) ==
    /\ pc[q] = "removeLock"
    /\ IF want[q] = {}
       THEN Goto(q, "removeCheck") /\ UNCHANGED <<rowLock, want>>
       ELSE LET a == First(q) IN
            /\ Free(rowLock, a, q)
            /\ rowLock' = IF Live(a) THEN [rowLock EXCEPT ![a] = q] ELSE rowLock
            /\ want' = [want EXCEPT ![q] = @ \ {a}]
            /\ pc' = pc
    /\ UNCHANGED <<userVars, tenants, invite, inviteTo, expired, session, emailLock, tenantLock,
                   actor, target, ten, addr, grant, hadAdmin, disturbed>>

RemoveCheck(q) ==
    /\ pc[q] = "removeCheck"
    /\ IF IsAdmin(actor[q], ten[q])
       THEN Goto(q, "removeAct") /\ UNCHANGED <<lockVars, actor, target, ten, addr, grant, want>>
       ELSE Answer(q)
    /\ UNCHANGED <<userVars, tenants, invite, inviteTo, expired, session, hadAdmin, disturbed>>

\* The update of the seat, once nobody else holds its row.
RemoveMember(q) ==
    LET b == target[q] IN
    /\ pc[q] = "removeAct"
    /\ Free(rowLock, b, q)
    /\ IF Seated(b, ten[q]) /\ Changeable(b)
       THEN /\ tenantOf' = [tenantOf EXCEPT ![b] = None]
            /\ role' = [role EXCEPT ![b] = "member"]
       ELSE UNCHANGED <<tenantOf, role>>
    /\ Answer(q)
    /\ UNCHANGED <<users, email, tenants, invite, inviteTo, expired, session, hadAdmin, disturbed>>

-----------------------------------------------------------------------------
(***************************************************************************)
(* Invitations.                                                            *)
(***************************************************************************)

StartInvite(q, a, e, r) ==
    /\ role[a] = "tenant_admin" /\ tenantOf[a] # None
    /\ Authenticate(q, a, "inviteCheck")
    /\ ten' = [ten EXCEPT ![q] = tenantOf[a]]
    /\ addr' = [addr EXCEPT ![q] = e]
    /\ grant' = [grant EXCEPT ![q] = r]
    /\ UNCHANGED <<userVars, tenants, invite, inviteTo, expired, session, lockVars,
                   target, want, hadAdmin, disturbed>>

InviteCheck(q) ==
    /\ pc[q] = "inviteCheck"
    /\ IF IsAdmin(actor[q], ten[q])
       THEN Goto(q, "inviteTenant") /\ UNCHANGED <<lockVars, actor, target, ten, addr, grant, want>>
       ELSE Answer(q)
    /\ UNCHANGED <<userVars, tenants, invite, inviteTo, expired, session, hadAdmin, disturbed>>

\* pg_advisory_xact_lock('namo-tenant-onboarding:' || tenant)
LockTenant(q) ==
    /\ pc[q] \in {"inviteTenant", "acceptTenant"}
    /\ Free(tenantLock, ten[q], q)
    /\ tenantLock' = [tenantLock EXCEPT ![ten[q]] = q]
    /\ Goto(q, IF pc[q] = "inviteTenant" THEN "inviteEmail" ELSE "acceptEmail")
    /\ UNCHANGED <<userVars, tenants, invite, inviteTo, expired, session, emailLock, rowLock,
                   actor, target, ten, addr, grant, want, hadAdmin, disturbed>>

\* Fault: an invitation that has expired is passed over instead of closed.
InviteClosePasses(q) ==
    /\ pc[q] = "inviteClose"
    /\ IF Registered(addr[q]) \/ \E i \in Invitation : Available(i) /\ inviteTo[i].email = addr[q]
       THEN Answer(q)
       ELSE Goto(q, "inviteInsert") /\ UNCHANGED <<lockVars, actor, target, ten, addr, grant, want>>
    /\ UNCHANGED <<userVars, tenants, invite, inviteTo, expired, session, hadAdmin, disturbed>>

\* Expired invitations of the address are closed, then the address is looked up; an
\* invitation of another company is met by the index of open invitations instead.
InviteClose(q) ==
    /\ pc[q] = "inviteClose"
    /\ LET stale == {i \in Invitation : Unaccepted(i) /\ i \in expired /\ inviteTo[i].email = addr[q]}
           closed == [i \in Invitation |-> IF i \in stale THEN "accepted" ELSE invite[i]]
       IN IF \/ Registered(addr[q])
             \/ \E i \in Invitation : closed[i] = "pending" /\ inviteTo[i].email = addr[q]
          THEN Answer(q) /\ UNCHANGED invite
          ELSE /\ invite' = closed
               /\ Goto(q, "inviteInsert")
               /\ UNCHANGED <<lockVars, actor, target, ten, addr, grant, want>>
    /\ UNCHANGED <<userVars, tenants, inviteTo, expired, session, hadAdmin, disturbed>>

InviteInsert(q, i) ==
    /\ pc[q] = "inviteInsert"
    /\ invite[i] = "new"
    /\ invite' = [invite EXCEPT ![i] = "pending"]
    /\ inviteTo' = [inviteTo EXCEPT ![i] = [tenant |-> ten[q], email |-> addr[q], role |-> grant[q]]]
    /\ Answer(q)
    /\ UNCHANGED <<userVars, tenants, expired, session, hadAdmin, disturbed>>

InvitationExpires(i) ==
    /\ Unaccepted(i) /\ i \notin expired
    /\ expired' = expired \cup {i}
    /\ UNCHANGED <<userVars, tenants, invite, inviteTo, session, lockVars, reqVars,
                   hadAdmin, disturbed>>

\* InvitationByHash finds it available; the password is hashed; the function
\* reads company and address and starts to lock.
StartAccept(q, i) ==
    /\ pc[q] = "idle"
    /\ Available(i)
    /\ Goto(q, "acceptTenant")
    /\ ten' = [ten EXCEPT ![q] = inviteTo[i].tenant]
    /\ addr' = [addr EXCEPT ![q] = inviteTo[i].email]
    /\ UNCHANGED <<userVars, tenants, invite, inviteTo, expired, session, lockVars,
                   actor, target, grant, want, hadAdmin, disturbed>>

\* onboarding_accept_invitation under the locks.  An invitation that has expired or
\* was closed in the meantime is refused.  For one that is still available the next
\* statement fails too: its `lower(email)` names a column of users and an output
\* column of the function alike (0005:182 and 0005:223), which plpgsql does not
\* decide.  Either way the transaction ends without having written anything.
AcceptInvitation(q) ==
    /\ pc[q] = "acceptAct"
    /\ Answer(q)
    /\ UNCHANGED <<userVars, tenants, invite, inviteTo, expired, session, hadAdmin, disturbed>>

-----------------------------------------------------------------------------
(***************************************************************************)
(* Waiting for a lock, and what PostgreSQL does about a circle.            *)
(***************************************************************************)

Waits(q) ==
    \/ pc[q] \in {"signupLock", "inviteEmail", "acceptEmail"} /\ ~Free(emailLock, addr[q], q)
    \/ pc[q] \in {"inviteTenant", "acceptTenant"} /\ ~Free(tenantLock, ten[q], q)
    \/ pc[q] = "removeLock" /\ want[q] # {} /\ ~Free(rowLock, First(q), q)
    \/ pc[q] \in {"assign", "delete", "removeAct"} /\ ~Free(rowLock, target[q], q)

Stuck == LET busy == {q \in Request : pc[q] # "idle"}
         IN busy # {} /\ \A q \in busy : Waits(q)

\* One of them is rolled back, and its handler answers with an error.
DeadlockDetected(q) ==
    /\ Stuck
    /\ Waits(q)
    /\ Answer(q)
    /\ UNCHANGED <<userVars, tenants, invite, inviteTo, expired, session, hadAdmin, disturbed>>

-----------------------------------------------------------------------------
\* create-admin inserts the platform administrator and takes no lock; None stands
\* for an address that nobody else uses.
CreateAdmin(e) ==
    /\ Root \notin users
    /\ ~Registered(e)
    /\ Insert(Root, e, None, "platform_admin")
    /\ UNCHANGED <<tenants, invite, inviteTo, expired, session, lockVars, reqVars, disturbed>>

SeatRole == {"member", "tenant_admin"}

Start(q) ==
    \/ \E e \in Email : StartSignup(q, e)
    \/ \E a \in User :
          \/ \E t \in Tenant : StartPlatform(q, a, "register", None, t, None)
          \/ \E b \in Account :
                \/ \E t \in Tenant, r \in SeatRole : StartPlatform(q, a, "assign", b, t, r)
                \/ StartPlatform(q, a, "assign", b, None, "member")
                \/ StartPlatform(q, a, "delete", b, None, None)
                \/ StartRemove(q, a, b)
          \/ \E e \in Email, r \in SeatRole : StartInvite(q, a, e, r)
    \/ \E i \in Invitation : StartAccept(q, i)

Step(q) ==
    \/ LockEmail(q) \/ LockTenant(q)
    \/ SignupCheck(q) \/ (\E a \in Account : SignupInsert(q, a)) \/ SignupFails(q)
    \/ RegisterTenant(q) \/ SetAccountAccess(q) \/ DeleteAccount(q)
    \/ RemoveStart(q) \/ RemoveLock(q) \/ RemoveCheck(q) \/ RemoveMember(q)
    \/ InviteCheck(q) \/ InviteClose(q) \/ (\E i \in Invitation : InviteInsert(q, i))
    \/ AcceptInvitation(q)
    \/ DeadlockDetected(q)

Next ==
    \/ \E q \in Request : Start(q) \/ Step(q)
    \/ \E a \in User : Login(a) \/ EndSession(a)
    \/ \E i \in Invitation : InvitationExpires(i)
    \/ \E e \in Email \cup {None} : CreateAdmin(e)

Spec == Init /\ [][Next]_vars

-----------------------------------------------------------------------------
\* The types, and what the constraint users_role_tenant_scope would refuse: an
\* administrator of no company, or of the platform and a company at once.
TypeOK ==
    /\ users \subseteq User
    /\ email \in [User -> Email \cup {None}]
    /\ tenantOf \in [User -> Tenant \cup {None}]
    /\ role \in [User -> {"member", "tenant_admin", "platform_admin"}]
    /\ tenants \subseteq Tenant
    /\ invite \in [Invitation -> {"new", "pending", "accepted"}]
    /\ inviteTo \in [Invitation -> [tenant : Tenant \cup {None}, email : Email \cup {None},
                                    role : SeatRole \cup {None}]]
    /\ expired \subseteq Invitation
    /\ session \subseteq User
    /\ emailLock \in [Email -> Request \cup {None}]
    /\ tenantLock \in [Tenant -> Request \cup {None}]
    /\ rowLock \in [User -> Request \cup {None}]
    /\ hadAdmin \subseteq Tenant /\ disturbed \subseteq Tenant
    /\ \A a \in users : /\ role[a] = "platform_admin" => tenantOf[a] = None
                        /\ role[a] = "tenant_admin" => tenantOf[a] # None

\* An address that has a self-service or company account is promised to nobody
\* else: no invitation to it can still be accepted (signup_create_account,
\* onboarding_invite_member and onboarding_accept_invitation share one lock of
\* the address).  create-admin takes no lock, so its accounts are left out.
AddressTakenOnce ==
    \A a \in User, i \in Invitation :
        Live(a) /\ role[a] # "platform_admin" /\ Available(i) => inviteTo[i].email # email[a]

\* What a signup or an invitation found out about its address is still true when it
\* writes its row, whatever the other requests do between the two statements: the
\* address has no account, a signup meets no invitation that can be accepted, and an
\* invitation meets no open one at all, an expired one included, which the index
\* invitations_pending_email_unique (0003:28) would refuse (signup_create_account,
\* onboarding_invite_member).  create-admin takes no lock and is left out.
CheckStillHolds ==
    \A q \in Request :
        /\ pc[q] \in {"signupInsert", "inviteInsert"} =>
               \A a \in users : role[a] # "platform_admin" => email[a] # addr[q]
        /\ pc[q] = "signupInsert" =>
               \A i \in Invitation : Available(i) => inviteTo[i].email # addr[q]
        /\ pc[q] = "inviteInsert" =>
               \A i \in Invitation : Unaccepted(i) => inviteTo[i].email # addr[q]

\* Company administrators cannot leave their company without an administrator,
\* whomever they remove at the same time (0017_account_removal_lock.sql): a company
\* that has lost all of its administrators lost one to the platform administrator,
\* or got one back from it just between the FOR UPDATE of that one's own removal
\* of somebody, which did not find it in the company, and the check, which did.
CompanyKeepsAdmin == \A t \in hadAdmin \ disturbed : HasAdmin(t)

\* Requests do not wait for each other in a circle (rows are locked in the order
\* of their ids, the company before the address), with one exception: a member
\* who joins the company after the FOR UPDATE of 0017_account_removal_lock.sql
\* is only waited for at the update.
SomeoneProceeds == Stuck => \E q \in Request : pc[q] = "removeAct"
=============================================================================
