--------------------------- MODULE AccountsProofs ---------------------------
(***************************************************************************)
(* Proofs about Accounts, for any number of requests, accounts, companies, *)
(* addresses and invitations: what the locks of the SQL functions protect, *)
(* and that requests do not wait for each other in a circle.               *)
(***************************************************************************)
EXTENDS Accounts, WellFoundedInduction, TLAPS

USE ConstantsAssumption

-----------------------------------------------------------------------------
(***************************************************************************)
(* The inductive invariant, in parts.                                      *)
(***************************************************************************)

SignupPCs   == {"signupLock", "signupCheck", "signupInsert"}
InvitePCs   == {"inviteCheck", "inviteTenant", "inviteEmail", "inviteClose", "inviteInsert"}
AcceptPCs   == {"acceptTenant", "acceptEmail", "acceptAct"}
RemovePCs   == {"removeStart", "removeLock", "removeCheck", "removeAct"}
PlatformPCs == {"register", "assign", "delete"}
PC == {"idle"} \cup SignupPCs \cup InvitePCs \cup AcceptPCs \cup RemovePCs \cup PlatformPCs

InviteRecord == [tenant : Tenant \cup {None}, email : Email \cup {None}, role : SeatRole \cup {None}]

\* The types, by what the actions change together.
UserTypes ==
    /\ users \subseteq User
    /\ email \in [User -> Email \cup {None}]
    /\ tenantOf \in [User -> Tenant \cup {None}]
    /\ role \in [User -> {"member", "tenant_admin", "platform_admin"}]

SeatsOK ==
    \A a \in users : /\ role[a] = "platform_admin" => tenantOf[a] = None
                     /\ role[a] = "tenant_admin" => tenantOf[a] # None

InviteTypes ==
    /\ invite \in [Invitation -> {"new", "pending", "accepted"}]
    /\ inviteTo \in [Invitation -> InviteRecord]
    /\ expired \subseteq Invitation

LockTypes ==
    /\ emailLock \in [Email -> Request \cup {None}]
    /\ tenantLock \in [Tenant -> Request \cup {None}]
    /\ rowLock \in [User -> Request \cup {None}]

OtherTypes ==
    /\ tenants \subseteq Tenant
    /\ session \subseteq User
    /\ hadAdmin \subseteq Tenant /\ disturbed \subseteq Tenant

ReqTypes ==
    /\ pc \in [Request -> PC]
    /\ actor \in [Request -> User \cup {None}]
    /\ target \in [Request -> Account \cup {None}]
    /\ ten \in [Request -> Tenant \cup {None}]
    /\ addr \in [Request -> Email \cup {None}]
    /\ grant \in [Request -> SeatRole \cup {None}]
    /\ want \in [Request -> SUBSET User]

LEMMA TypeParts ==
    TypeOK <=> UserTypes /\ SeatsOK /\ InviteTypes /\ LockTypes /\ OtherTypes
<1>1. ASSUME TypeOK PROVE UserTypes /\ SeatsOK /\ InviteTypes /\ LockTypes /\ OtherTypes
  <2>0. UserTypes
    BY <1>1, Zenon DEF TypeOK, UserTypes
  <2>1. SeatsOK
    BY <1>1 DEF TypeOK, SeatsOK
  <2>2. InviteTypes
    BY <1>1, Zenon DEF TypeOK, InviteTypes, InviteRecord
  <2>3. LockTypes /\ OtherTypes
    BY <1>1, Zenon DEF TypeOK, LockTypes, OtherTypes
  <2>4. QED
    BY <2>0, <2>1, <2>2, <2>3
<1>2. UserTypes /\ SeatsOK /\ InviteTypes /\ LockTypes /\ OtherTypes => TypeOK
    BY ZenonT(60) DEF TypeOK, UserTypes, SeatsOK, InviteTypes, LockTypes, OtherTypes, InviteRecord
<1>3. QED
    BY <1>1, <1>2

\* What a request has been given by the time it is where it is.
ArgsOK(q) ==
    /\ pc[q] \in SignupPCs \cup InvitePCs \cup AcceptPCs => addr[q] \in Email
    /\ pc[q] \in InvitePCs \cup AcceptPCs \cup RemovePCs \cup {"register"} => ten[q] \in Tenant
    /\ pc[q] \in InvitePCs => grant[q] \in SeatRole
    /\ pc[q] \in {"assign", "delete"} \cup RemovePCs => target[q] \in Account
    /\ pc[q] = "assign" => grant[q] \in SeatRole /\ (ten[q] = None => grant[q] = "member")
    /\ pc[q] \in RemovePCs => actor[q] \in User /\ actor[q] # target[q]

\* An invitation that was sent names a company, an address and a seat.
InvitesOK ==
    \A i \in Invitation : invite[i] # "new" =>
        /\ inviteTo[i].tenant \in Tenant /\ inviteTo[i].email \in Email
        /\ inviteTo[i].role \in SeatRole

\* Where a request is when it holds an address, a company or rows.
EmailHeld  == {"signupCheck", "signupInsert", "inviteClose", "inviteInsert", "acceptAct"}
TenantHeld == {"inviteEmail", "inviteClose", "inviteInsert", "acceptEmail", "acceptAct"}
RowHeld    == {"removeLock", "removeCheck", "removeAct"}

EmailLockOK ==
    /\ \A q \in Request : pc[q] \in EmailHeld => addr[q] \in Email /\ emailLock[addr[q]] = q
    /\ \A e \in Email, q \in Request : emailLock[e] = q => pc[q] \in EmailHeld /\ addr[q] = e

TenantLockOK == \A t \in Tenant, q \in Request : tenantLock[t] = q => pc[q] \in TenantHeld

\* Rows are locked in the order of their ids.
RowLockOK ==
    \A a \in User, q \in Request : rowLock[a] = q =>
        pc[q] \in RowHeld /\ (pc[q] = "removeLock" => \A b \in want[q] : a < b)

LocksOK == EmailLockOK /\ TenantLockOK /\ RowLockOK

-----------------------------------------------------------------------------
(***************************************************************************)
(* What a step does to the requests and their locks.                       *)
(***************************************************************************)

SameArgs(p) == /\ actor'[p] = actor[p] /\ target'[p] = target[p] /\ ten'[p] = ten[p]
               /\ addr'[p] = addr[p] /\ grant'[p] = grant[p]

Others(q) == \A p \in Request : p # q => pc'[p] = pc[p] /\ SameArgs(p) /\ want'[p] = want[p]

\* A request begins.
Enters(q) ==
    /\ pc[q] = "idle"
    /\ pc'[q] \in {"signupLock", "register", "assign", "delete", "removeStart", "inviteCheck", "acceptTenant"}
    /\ Others(q)
    /\ UNCHANGED lockVars

\* It goes on.
Moves(q) ==
    /\ \/ pc[q] = "signupCheck" /\ pc'[q] = "signupInsert"
       \/ pc[q] = "inviteCheck" /\ pc'[q] = "inviteTenant"
       \/ pc[q] = "inviteClose" /\ pc'[q] = "inviteInsert"
       \/ pc[q] = "removeLock" /\ pc'[q] = "removeCheck"
       \/ pc[q] = "removeCheck" /\ pc'[q] = "removeAct"
       \/ pc[q] = "removeStart" /\ pc'[q] = "removeLock"
    /\ Others(q) /\ SameArgs(q)
    /\ UNCHANGED lockVars

\* It ends and gives its locks back.
Answers(q) ==
    /\ pc'[q] = "idle"
    /\ Others(q)
    /\ emailLock' = [e \in Email |-> IF emailLock[e] = q THEN None ELSE emailLock[e]]
    /\ tenantLock' = [t \in Tenant |-> IF tenantLock[t] = q THEN None ELSE tenantLock[t]]
    /\ rowLock' = [a \in User |-> IF rowLock[a] = q THEN None ELSE rowLock[a]]

\* It takes an address, a company or a row.
TakesEmail(q) ==
    /\ \/ pc[q] = "signupLock" /\ pc'[q] = "signupCheck"
       \/ pc[q] = "inviteEmail" /\ pc'[q] = "inviteClose"
       \/ pc[q] = "acceptEmail" /\ pc'[q] = "acceptAct"
    /\ emailLock[addr[q]] \in {None, q}
    /\ emailLock' = [emailLock EXCEPT ![addr[q]] = q]
    /\ Others(q) /\ SameArgs(q)
    /\ UNCHANGED <<tenantLock, rowLock>>

TakesTenant(q) ==
    /\ \/ pc[q] = "inviteTenant" /\ pc'[q] = "inviteEmail"
       \/ pc[q] = "acceptTenant" /\ pc'[q] = "acceptEmail"
    /\ tenantLock[ten[q]] \in {None, q}
    /\ tenantLock' = [tenantLock EXCEPT ![ten[q]] = q]
    /\ Others(q) /\ SameArgs(q)
    /\ UNCHANGED <<emailLock, rowLock>>

TakesRow(q) ==
    /\ pc[q] = "removeLock" /\ pc'[q] = "removeLock"
    /\ \E a \in want[q] :
          /\ \A b \in want[q] : a <= b
          /\ rowLock[a] \in {None, q}
          /\ rowLock' = [rowLock EXCEPT ![a] = q] \/ rowLock' = rowLock
          /\ want'[q] = want[q] \ {a}
    /\ Others(q) /\ SameArgs(q)
    /\ UNCHANGED <<emailLock, tenantLock>>

Acts(q) == \/ Enters(q) \/ Moves(q) \/ Answers(q)
           \/ TakesEmail(q) \/ TakesTenant(q) \/ TakesRow(q)

\* Among some ids there is a largest one.
LEMMA LargestId ==
    ASSUME NEW T, T \subseteq 0 .. MaxId, T # {}
    PROVE  \E x \in T : \A y \in T : y <= x
<1> DEFINE R == OpToRel(<, Nat)
           D == {MaxId - x : x \in T}
<1>1. IsWellFoundedOn(R, Nat)
    BY NatLessThanWellFounded, Zenon
<1>2. D \subseteq Nat /\ D # {}
  <2>1. \A x \in T : MaxId - x \in Nat
    OBVIOUS
  <2>2. PICK x \in T : TRUE
    OBVIOUS
  <2>3. MaxId - x \in D
    BY <2>2
  <2>4. D \subseteq Nat
    BY <2>1, Zenon
  <2>5. QED
    BY <2>3, <2>4, Zenon
<1>3. \A a, b \in Nat : a < b => <<a, b>> \in R
    BY DEF OpToRel
<1> HIDE DEF R, D
<1>4. PICK d \in D : \A e \in D : ~(<<e, d>> \in R)
    BY <1>1, <1>2, WFMin
<1>5. PICK x \in T : d = MaxId - x
    BY DEF D
<1>6. ASSUME NEW y \in T PROVE y <= x
  <2>1. MaxId - y \in D /\ MaxId - y \in Nat /\ d \in Nat
    BY <1>2 DEF D
  <2>2. ~(MaxId - y < d)
    BY <1>3, <1>4, <2>1
  <2>3. QED
    BY <1>5, <2>1, <2>2
<1>7. QED
    BY <1>6

LEMMA SmallestId ==
    ASSUME NEW T, T \subseteq 0 .. MaxId, T # {}
    PROVE  \E x \in T : \A y \in T : x <= y
<1> DEFINE R == OpToRel(<, Nat)
<1>1. IsWellFoundedOn(R, Nat)
    BY NatLessThanWellFounded, Zenon
<1>2. T \subseteq Nat
    OBVIOUS
<1>3. \A a, b \in Nat : a < b => <<a, b>> \in R
    BY DEF OpToRel
<1> HIDE DEF R
<1>4. PICK x \in T : \A y \in T : ~(<<y, x>> \in R)
    BY <1>1, <1>2, WFMin
<1>5. ASSUME NEW y \in T PROVE x <= y
  <2>1. x \in Nat /\ y \in Nat
    BY <1>2
  <2>2. ~(y < x)
    BY <1>3, <1>4, <2>1
  <2>3. QED
    BY <2>1, <2>2
<1>6. QED
    BY <1>5

LEMMA UserIds == User \subseteq 0 .. MaxId /\ Account \subseteq User /\ None \notin User
BY DEF User

\* The row the FOR UPDATE turns to is the smallest of those it still wants.
LEMMA FirstIsSmallest ==
    ASSUME ReqTypes, NEW q \in Request, want[q] # {}
    PROVE  First(q) \in want[q] /\ \A b \in want[q] : First(q) <= b
<1>1. want[q] \subseteq 0 .. MaxId
    BY UserIds DEF ReqTypes
<1>2. \E a \in want[q] : \A b \in want[q] : a <= b
    BY <1>1, SmallestId
<1>3. QED
    BY <1>2, Zenon DEF First

\* A function over S keeps its type when one value is replaced.
LEMMA UpdateType ==
    ASSUME NEW S, NEW T, NEW f \in [S -> T], NEW x, NEW v \in T
    PROVE  [f EXCEPT ![x] = v] \in [S -> T]
OBVIOUS

\* ... and the other values.
LEMMA UpdateOne ==
    ASSUME NEW S, NEW T, NEW f \in [S -> T], NEW x \in S, NEW v
    PROVE  [f EXCEPT ![x] = v][x] = v /\ \A y \in S : y # x => [f EXCEPT ![x] = v][y] = f[y]
OBVIOUS

LEMMA AnswerKind ==
    ASSUME ReqTypes, LockTypes, NEW q \in Request, Answer(q)
    PROVE  Answers(q) /\ ReqTypes' /\ LockTypes'
<1>1. ReqTypes'
  <2>1. "idle" \in PC /\ {} \in SUBSET User
    BY DEF PC
  <2>2. QED
    BY <2>1, UpdateType, Zenon DEF Answer, ReqTypes
<1>2. LockTypes'
    BY DEF Answer, LockTypes
<1>3. pc'[q] = "idle"
    BY DEF Answer, ReqTypes
<1>4. ASSUME NEW p \in Request, p # q PROVE pc'[p] = pc[p] /\ SameArgs(p) /\ want'[p] = want[p]
    BY <1>4 DEF Answer, ReqTypes, SameArgs
<1>5. Others(q)
    BY <1>4, Zenon DEF Others
<1>6. QED
    BY <1>1, <1>2, <1>3, <1>5, Zenon DEF Answers, Answer

\* A step that only moves the request on.
LEMMA GotoKind ==
    ASSUME ReqTypes, NEW q \in Request, NEW l \in PC, Goto(q, l),
           UNCHANGED <<actor, target, ten, addr, grant, want>>
    PROVE  Others(q) /\ SameArgs(q) /\ pc'[q] = l /\ ReqTypes'
<1>1. pc' \in [Request -> PC]
    BY UpdateType, Zenon DEF ReqTypes, Goto
<1>2. ReqTypes'
    BY <1>1, Zenon DEF ReqTypes
<1>3. pc'[q] = l /\ \A p \in Request : p # q => pc'[p] = pc[p]
    BY DEF ReqTypes, Goto
<1>4. QED
    BY <1>2, <1>3, Zenon DEF Others, SameArgs

LEMMA PCs == /\ SignupPCs \subseteq PC /\ InvitePCs \subseteq PC /\ AcceptPCs \subseteq PC
             /\ RemovePCs \subseteq PC /\ PlatformPCs \subseteq PC
BY DEF PC

\* Locks.
LEMMA LockEmailKind ==
    ASSUME ReqTypes, LockTypes, NEW q \in Request, LockEmail(q)
    PROVE  TakesEmail(q) /\ ReqTypes' /\ LockTypes'
<1> DEFINE l == IF pc[q] = "signupLock" THEN "signupCheck"
                ELSE IF pc[q] = "inviteEmail" THEN "inviteClose" ELSE "acceptAct"
<1>1. l \in PC
    BY DEF PC, SignupPCs, InvitePCs, AcceptPCs
<1>2. Goto(q, l) /\ UNCHANGED <<actor, target, ten, addr, grant, want>>
    BY Zenon DEF LockEmail
<1>3. Others(q) /\ SameArgs(q) /\ pc'[q] = l /\ ReqTypes'
  <2> HIDE DEF l
  <2>1. QED
    BY <1>1, <1>2, GotoKind
<1>4. /\ emailLock[addr[q]] \in {None, q} /\ emailLock' = [emailLock EXCEPT ![addr[q]] = q]
      /\ UNCHANGED <<tenantLock, rowLock>> /\ pc[q] \in {"signupLock", "inviteEmail", "acceptEmail"}
    BY Zenon DEF LockEmail, Free
<1>5. LockTypes'
    BY <1>4 DEF LockTypes
<1>6. \/ pc[q] = "signupLock" /\ pc'[q] = "signupCheck"
      \/ pc[q] = "inviteEmail" /\ pc'[q] = "inviteClose"
      \/ pc[q] = "acceptEmail" /\ pc'[q] = "acceptAct"
    BY <1>3, <1>4
<1>7. QED
    BY <1>3, <1>4, <1>5, <1>6, Zenon DEF TakesEmail

LEMMA LockTenantKind ==
    ASSUME ReqTypes, LockTypes, NEW q \in Request, LockTenant(q)
    PROVE  TakesTenant(q) /\ ReqTypes' /\ LockTypes'
<1> DEFINE l == IF pc[q] = "inviteTenant" THEN "inviteEmail" ELSE "acceptEmail"
<1>1. l \in PC
    BY DEF PC, InvitePCs, AcceptPCs
<1>2. Goto(q, l) /\ UNCHANGED <<actor, target, ten, addr, grant, want>>
    BY Zenon DEF LockTenant
<1>3. Others(q) /\ SameArgs(q) /\ pc'[q] = l /\ ReqTypes'
  <2> HIDE DEF l
  <2>1. QED
    BY <1>1, <1>2, GotoKind
<1>4. /\ tenantLock[ten[q]] \in {None, q} /\ tenantLock' = [tenantLock EXCEPT ![ten[q]] = q]
      /\ UNCHANGED <<emailLock, rowLock>> /\ pc[q] \in {"inviteTenant", "acceptTenant"}
    BY Zenon DEF LockTenant, Free
<1>5. LockTypes'
    BY <1>4 DEF LockTypes
<1>6. \/ pc[q] = "inviteTenant" /\ pc'[q] = "inviteEmail"
      \/ pc[q] = "acceptTenant" /\ pc'[q] = "acceptEmail"
    BY <1>3, <1>4
<1>7. QED
    BY <1>3, <1>4, <1>5, <1>6, Zenon DEF TakesTenant

LEMMA RemoveLockKind ==
    ASSUME ReqTypes, LockTypes, NEW q \in Request, RemoveLock(q)
    PROVE  (Moves(q) \/ TakesRow(q)) /\ ReqTypes' /\ LockTypes'
<1>1. CASE want[q] = {}
  <2>1. /\ pc[q] = "removeLock" /\ Goto(q, "removeCheck") /\ UNCHANGED lockVars
        /\ UNCHANGED <<actor, target, ten, addr, grant, want>>
    BY <1>1, Zenon DEF RemoveLock, lockVars
  <2>2. Others(q) /\ SameArgs(q) /\ pc'[q] = "removeCheck" /\ ReqTypes'
    BY <2>1, GotoKind, PCs DEF RemovePCs
  <2>3. QED
    BY <2>1, <2>2, Zenon DEF Moves, LockTypes, lockVars
<1>2. CASE want[q] # {}
  <2> DEFINE a == First(q)
  <2>1. /\ pc[q] = "removeLock" /\ pc' = pc /\ rowLock[a] \in {None, q}
        /\ rowLock' = [rowLock EXCEPT ![a] = q] \/ rowLock' = rowLock
        /\ want' = [want EXCEPT ![q] = want[q] \ {a}]
        /\ UNCHANGED <<emailLock, tenantLock>>
        /\ UNCHANGED <<actor, target, ten, addr, grant>>
    BY <1>2, Zenon DEF RemoveLock, Free
  <2>2. a \in want[q] /\ \A b \in want[q] : a <= b
    BY <1>2, FirstIsSmallest
  <2> HIDE DEF a
  <2>3. want' \in [Request -> SUBSET User] /\ want'[q] = want[q] \ {a}
        /\ \A p \in Request : p # q => want'[p] = want[p]
    BY <2>1 DEF ReqTypes
  <2>4. ReqTypes'
    BY <2>1, <2>3, Zenon DEF ReqTypes
  <2>5. LockTypes'
    BY <2>1 DEF LockTypes
  <2>6. Others(q) /\ SameArgs(q)
    BY <2>1, <2>3, Zenon DEF Others, SameArgs
  <2>7. TakesRow(q)
    BY <2>1, <2>2, <2>3, <2>6, Zenon DEF TakesRow
  <2>8. QED
    BY <2>4, <2>5, <2>7
<1>3. QED
    BY <1>1, <1>2

LEMMA RemoveStartKind ==
    ASSUME UserTypes, ReqTypes, LockTypes, NEW q \in Request, RemoveStart(q)
    PROVE  Moves(q) /\ ReqTypes' /\ LockTypes'
<1> DEFINE w == {a \in {actor[q], target[q]} : Seated(a, ten[q])}
<1>1. /\ pc[q] = "removeStart" /\ pc' = [pc EXCEPT ![q] = "removeLock"]
      /\ want' = [want EXCEPT ![q] = w] /\ UNCHANGED lockVars
      /\ UNCHANGED <<actor, target, ten, addr, grant>>
    BY Zenon DEF RemoveStart, Goto, lockVars
<1>2. w \in SUBSET User
    BY DEF Seated, Live, UserTypes
<1> HIDE DEF w
<1>3. want' \in [Request -> SUBSET User] /\ \A p \in Request : p # q => want'[p] = want[p]
    BY <1>1, <1>2 DEF ReqTypes
<1>4. /\ pc' \in [Request -> PC] /\ pc'[q] = "removeLock"
      /\ \A p \in Request : p # q => pc'[p] = pc[p]
    BY <1>1, PCs DEF ReqTypes, RemovePCs
<1>5. ReqTypes' /\ LockTypes'
    BY <1>1, <1>3, <1>4, Zenon DEF ReqTypes, LockTypes, lockVars
<1>6. Others(q) /\ SameArgs(q)
    BY <1>1, <1>3, <1>4, Zenon DEF Others, SameArgs
<1>7. QED
    BY <1>1, <1>4, <1>5, <1>6, Zenon DEF Moves

\* The start of a request, with its arguments.
LEMMA StartKind ==
    ASSUME UserTypes, InviteTypes, InvitesOK, ReqTypes, LockTypes, NEW q \in Request, Start(q)
    PROVE  /\ Enters(q) /\ ArgsOK(q)' /\ ReqTypes' /\ LockTypes'
           /\ UNCHANGED <<userVars, tenants, invite, inviteTo, expired, session, hadAdmin, disturbed>>
<1> DEFINE Same == UNCHANGED <<userVars, tenants, invite, inviteTo, expired, session, hadAdmin, disturbed>>
<1>1. ASSUME NEW e \in Email, StartSignup(q, e)
      PROVE  Enters(q) /\ ArgsOK(q)' /\ ReqTypes' /\ LockTypes' /\ Same
  <2>1. /\ pc[q] = "idle" /\ pc' = [pc EXCEPT ![q] = "signupLock"] /\ addr' = [addr EXCEPT ![q] = e]
        /\ UNCHANGED <<actor, target, ten, grant, want>> /\ UNCHANGED lockVars /\ Same
    BY <1>1, Zenon DEF StartSignup, Goto
  <2>2. /\ pc' \in [Request -> PC] /\ pc'[q] = "signupLock"
        /\ \A p \in Request : p # q => pc'[p] = pc[p]
    BY <2>1, PCs DEF ReqTypes, SignupPCs
  <2>3. /\ addr' \in [Request -> Email \cup {None}] /\ addr'[q] = e
        /\ \A p \in Request : p # q => addr'[p] = addr[p]
    BY <2>1 DEF ReqTypes
  <2>4. ReqTypes' /\ LockTypes'
    BY <2>1, <2>2, <2>3, Zenon DEF ReqTypes, LockTypes, lockVars
  <2>5. Enters(q)
    BY <2>1, <2>2, <2>3, Zenon DEF Enters, Others, SameArgs
  <2>6. ArgsOK(q)'
    BY <2>2, <2>3 DEF ArgsOK, SignupPCs, InvitePCs, AcceptPCs, RemovePCs
  <2>7. QED
    BY <2>1, <2>4, <2>5, <2>6
<1>2. ASSUME NEW a \in User, NEW l \in PlatformPCs, NEW b \in Account \cup {None}, NEW t \in Tenant \cup {None},
             NEW r \in SeatRole \cup {None}, StartPlatform(q, a, l, b, t, r),
             l = "register" => t \in Tenant, l # "register" => b \in Account,
             l = "assign" => r \in SeatRole /\ (t = None => r = "member")
      PROVE  Enters(q) /\ ArgsOK(q)' /\ ReqTypes' /\ LockTypes' /\ Same
  <2>1. /\ pc[q] = "idle" /\ pc' = [pc EXCEPT ![q] = l] /\ actor' = [actor EXCEPT ![q] = a]
        /\ target' = [target EXCEPT ![q] = b] /\ ten' = [ten EXCEPT ![q] = t]
        /\ grant' = [grant EXCEPT ![q] = r]
        /\ UNCHANGED <<addr, want>> /\ UNCHANGED lockVars /\ Same
    BY <1>2, Zenon DEF StartPlatform, Authenticate, Goto
  <2>2. /\ pc' \in [Request -> PC] /\ pc'[q] = l
        /\ \A p \in Request : p # q => pc'[p] = pc[p]
    BY <2>1, PCs DEF ReqTypes
  <2>3. /\ actor' \in [Request -> User \cup {None}] /\ target' \in [Request -> Account \cup {None}]
        /\ ten' \in [Request -> Tenant \cup {None}] /\ grant' \in [Request -> SeatRole \cup {None}]
        /\ target'[q] = b /\ ten'[q] = t /\ grant'[q] = r
        /\ \A p \in Request : p # q => /\ actor'[p] = actor[p] /\ target'[p] = target[p]
                                        /\ ten'[p] = ten[p] /\ grant'[p] = grant[p]
    BY <2>1 DEF ReqTypes
  <2>4. ReqTypes' /\ LockTypes'
    BY <2>1, <2>2, <2>3, Zenon DEF ReqTypes, LockTypes, lockVars
  <2>5. Enters(q)
    <3>1. pc'[q] \in {"signupLock", "register", "assign", "delete", "removeStart", "inviteCheck", "acceptTenant"}
        BY <2>2 DEF PlatformPCs
    <3>2. QED
        BY <2>1, <2>2, <2>3, <3>1, Zenon DEF Enters, Others, SameArgs
  <2>6. ArgsOK(q)'
    BY <1>2, <2>2, <2>3 DEF ArgsOK, SignupPCs, InvitePCs, AcceptPCs, RemovePCs, PlatformPCs
  <2>7. QED
    BY <2>1, <2>4, <2>5, <2>6
<1>3. ASSUME NEW a \in User, NEW b \in Account, StartRemove(q, a, b)
      PROVE  Enters(q) /\ ArgsOK(q)' /\ ReqTypes' /\ LockTypes' /\ Same
  <2>1. /\ pc[q] = "idle" /\ pc' = [pc EXCEPT ![q] = "removeStart"] /\ actor' = [actor EXCEPT ![q] = a]
        /\ target' = [target EXCEPT ![q] = b] /\ ten' = [ten EXCEPT ![q] = tenantOf[a]]
        /\ a # b /\ tenantOf[a] # None
        /\ UNCHANGED <<addr, grant, want>> /\ UNCHANGED lockVars /\ Same
    BY <1>3, Zenon DEF StartRemove, Authenticate, Goto
  <2>0. tenantOf[a] \in Tenant
    BY <2>1 DEF UserTypes
  <2>2. /\ pc' \in [Request -> PC] /\ pc'[q] = "removeStart"
        /\ \A p \in Request : p # q => pc'[p] = pc[p]
    BY <2>1, PCs DEF ReqTypes, RemovePCs
  <2>3. /\ actor' \in [Request -> User \cup {None}] /\ target' \in [Request -> Account \cup {None}]
        /\ ten' \in [Request -> Tenant \cup {None}]
        /\ actor'[q] = a /\ target'[q] = b /\ ten'[q] \in Tenant
        /\ \A p \in Request : p # q => /\ actor'[p] = actor[p] /\ target'[p] = target[p]
                                        /\ ten'[p] = ten[p]
    BY <2>1, <2>0 DEF ReqTypes
  <2>4. ReqTypes' /\ LockTypes'
    BY <2>1, <2>2, <2>3, Zenon DEF ReqTypes, LockTypes, lockVars
  <2>5. Enters(q)
    BY <2>1, <2>2, <2>3, Zenon DEF Enters, Others, SameArgs
  <2>6. ArgsOK(q)'
    BY <1>3, <2>1, <2>2, <2>3 DEF ArgsOK, SignupPCs, InvitePCs, AcceptPCs, RemovePCs
  <2>7. QED
    BY <2>1, <2>4, <2>5, <2>6
<1>4. ASSUME NEW a \in User, NEW e \in Email, NEW r \in SeatRole, StartInvite(q, a, e, r)
      PROVE  Enters(q) /\ ArgsOK(q)' /\ ReqTypes' /\ LockTypes' /\ Same
  <2>1. /\ pc[q] = "idle" /\ pc' = [pc EXCEPT ![q] = "inviteCheck"] /\ actor' = [actor EXCEPT ![q] = a]
        /\ ten' = [ten EXCEPT ![q] = tenantOf[a]] /\ addr' = [addr EXCEPT ![q] = e]
        /\ grant' = [grant EXCEPT ![q] = r] /\ tenantOf[a] # None
        /\ UNCHANGED <<target, want>> /\ UNCHANGED lockVars /\ Same
    BY <1>4, Zenon DEF StartInvite, Authenticate, Goto
  <2>0. tenantOf[a] \in Tenant
    BY <2>1 DEF UserTypes
  <2>2. /\ pc' \in [Request -> PC] /\ pc'[q] = "inviteCheck"
        /\ \A p \in Request : p # q => pc'[p] = pc[p]
    BY <2>1, PCs DEF ReqTypes, InvitePCs
  <2>3. /\ actor' \in [Request -> User \cup {None}] /\ ten' \in [Request -> Tenant \cup {None}]
        /\ addr' \in [Request -> Email \cup {None}] /\ grant' \in [Request -> SeatRole \cup {None}]
        /\ addr'[q] = e /\ grant'[q] = r /\ ten'[q] \in Tenant
        /\ \A p \in Request : p # q => /\ actor'[p] = actor[p] /\ ten'[p] = ten[p]
                                        /\ addr'[p] = addr[p] /\ grant'[p] = grant[p]
    BY <2>1, <2>0 DEF ReqTypes
  <2>4. ReqTypes' /\ LockTypes'
    BY <2>1, <2>2, <2>3, Zenon DEF ReqTypes, LockTypes, lockVars
  <2>5. Enters(q)
    BY <2>1, <2>2, <2>3, Zenon DEF Enters, Others, SameArgs
  <2>6. ArgsOK(q)'
    BY <1>4, <2>2, <2>3 DEF ArgsOK, SignupPCs, InvitePCs, AcceptPCs, RemovePCs
  <2>7. QED
    BY <2>1, <2>4, <2>5, <2>6
<1>5. ASSUME NEW i \in Invitation, StartAccept(q, i)
      PROVE  Enters(q) /\ ArgsOK(q)' /\ ReqTypes' /\ LockTypes' /\ Same
  <2>1. /\ pc[q] = "idle" /\ pc' = [pc EXCEPT ![q] = "acceptTenant"]
        /\ ten' = [ten EXCEPT ![q] = inviteTo[i].tenant] /\ addr' = [addr EXCEPT ![q] = inviteTo[i].email]
        /\ invite[i] = "pending"
        /\ UNCHANGED <<actor, target, grant, want>> /\ UNCHANGED lockVars /\ Same
    BY <1>5, Zenon DEF StartAccept, Available, Unaccepted, Goto
  <2>0. inviteTo[i].tenant \in Tenant /\ inviteTo[i].email \in Email
    BY <2>1 DEF InvitesOK
  <2>2. /\ pc' \in [Request -> PC] /\ pc'[q] = "acceptTenant"
        /\ \A p \in Request : p # q => pc'[p] = pc[p]
    BY <2>1, PCs DEF ReqTypes, AcceptPCs
  <2>3. /\ ten' \in [Request -> Tenant \cup {None}]
        /\ addr' \in [Request -> Email \cup {None}]
        /\ addr'[q] = inviteTo[i].email /\ ten'[q] = inviteTo[i].tenant
        /\ \A p \in Request : p # q => ten'[p] = ten[p] /\ addr'[p] = addr[p]
    BY <2>1, <2>0 DEF ReqTypes
  <2>4. ReqTypes' /\ LockTypes'
    BY <2>1, <2>2, <2>3, Zenon DEF ReqTypes, LockTypes, lockVars
  <2>5. Enters(q)
    BY <2>1, <2>2, <2>3, Zenon DEF Enters, Others, SameArgs
  <2>6. ArgsOK(q)'
    BY <1>5, <2>1, <2>2, <2>3, <2>0 DEF ArgsOK, SignupPCs, InvitePCs, AcceptPCs, RemovePCs
  <2>7. QED
    BY <2>1, <2>4, <2>5, <2>6
<1>6. {"register", "assign", "delete"} = PlatformPCs /\ "member" \in SeatRole
    BY DEF PlatformPCs, SeatRole
<1> HIDE DEF Same
<1>7. QED
    BY <1>1, <1>2, <1>3, <1>4, <1>5, <1>6 DEF Start, Same

\* Every step of a request is of one of these kinds.
LEMMA StepKind ==
    ASSUME UserTypes, ReqTypes, LockTypes, NEW q \in Request, Step(q)
    PROVE  /\ Moves(q) \/ Answers(q) \/ TakesEmail(q) \/ TakesTenant(q) \/ TakesRow(q)
           /\ ReqTypes' /\ LockTypes'
<1> DEFINE Goal == /\ Moves(q) \/ Answers(q) \/ TakesEmail(q) \/ TakesTenant(q) \/ TakesRow(q)
                   /\ ReqTypes' /\ LockTypes'
<1>1. CASE Answer(q)
    BY <1>1, AnswerKind
<1>2. ASSUME NEW l \in PC, Goto(q, l), UNCHANGED <<lockVars, actor, target, ten, addr, grant, want>>,
             \/ pc[q] = "signupCheck" /\ l = "signupInsert"
             \/ pc[q] = "inviteCheck" /\ l = "inviteTenant"
             \/ pc[q] = "inviteClose" /\ l = "inviteInsert"
             \/ pc[q] = "removeCheck" /\ l = "removeAct"
      PROVE  Goal
  <2>1. Others(q) /\ SameArgs(q) /\ pc'[q] = l /\ ReqTypes'
    BY <1>2, GotoKind
  <2>2. LockTypes' /\ UNCHANGED lockVars
    BY <1>2, Zenon DEF LockTypes, lockVars
  <2>3. Moves(q)
    BY <1>2, <2>1, <2>2, Zenon DEF Moves
  <2>4. QED
    BY <2>1, <2>2, <2>3
<1> HIDE DEF Goal
<1>3. {"signupInsert", "inviteTenant", "inviteInsert", "removeAct"} \subseteq PC
    BY PCs DEF SignupPCs, InvitePCs, RemovePCs
<1>4. CASE SignupCheck(q)
    BY <1>1, <1>2, <1>3, <1>4 DEF SignupCheck, Goal
<1>5. CASE InviteCheck(q)
    BY <1>1, <1>2, <1>3, <1>5 DEF InviteCheck, Goal
<1>6. CASE InviteClose(q)
  <2>1. \/ Answer(q)
        \/ /\ pc[q] = "inviteClose" /\ Goto(q, "inviteInsert")
           /\ UNCHANGED <<lockVars, actor, target, ten, addr, grant, want>>
    BY <1>6, Zenon DEF InviteClose
  <2>2. QED
    BY <1>1, <1>2, <1>3, <2>1 DEF Goal
<1>7. CASE RemoveCheck(q)
    BY <1>1, <1>2, <1>3, <1>7 DEF RemoveCheck, Goal
<1>8. CASE LockEmail(q) \/ LockTenant(q) \/ RemoveLock(q) \/ RemoveStart(q)
    BY <1>8, LockEmailKind, LockTenantKind, RemoveLockKind, RemoveStartKind DEF Goal
<1>9. ASSUME ~(SignupCheck(q) \/ InviteCheck(q) \/ InviteClose(q) \/ RemoveCheck(q)),
             ~(LockEmail(q) \/ LockTenant(q) \/ RemoveLock(q) \/ RemoveStart(q))
      PROVE  Answer(q)
    BY <1>9, Zenon DEF Step, SignupInsert, SignupFails, RegisterTenant, SetAccountAccess, DeleteAccount,
            RemoveMember, InviteInsert, AcceptInvitation, DeadlockDetected
<1>10. Goal
    BY <1>1, <1>4, <1>5, <1>6, <1>7, <1>8, <1>9 DEF Goal
<1>11. QED
    BY <1>10 DEF Goal

\* An address has one holder, who is where the functions hold it.
LEMMA EmailLockStep ==
    ASSUME ReqTypes, LockTypes, EmailLockOK, NEW q \in Request, ArgsOK(q), Acts(q)
    PROVE  EmailLockOK'
<1> DEFINE Kept == \A p \in Request : p # q => pc'[p] = pc[p] /\ addr'[p] = addr[p]
<1>0. None \notin Request
    OBVIOUS
<1>1. Kept
    BY Zenon DEF Acts, Enters, Moves, Answers, TakesEmail, TakesTenant, TakesRow, Others, SameArgs
<1>2. ASSUME emailLock' = emailLock, pc'[q] \in EmailHeld <=> pc[q] \in EmailHeld,
             pc[q] \in EmailHeld => addr'[q] = addr[q]
      PROVE  EmailLockOK'
    BY <1>1, <1>2 DEF EmailLockOK
<1>3. CASE Enters(q)
    BY <1>2, <1>3 DEF Enters, lockVars, EmailHeld
<1>4. CASE Moves(q)
    BY <1>2, <1>4 DEF Moves, lockVars, EmailHeld, SameArgs
<1>5. CASE TakesTenant(q)
    BY <1>2, <1>5 DEF TakesTenant, EmailHeld, SameArgs
<1>6. CASE TakesRow(q)
  <2>1. emailLock' = emailLock /\ addr'[q] = addr[q] /\ pc'[q] = "removeLock" /\ pc[q] = "removeLock"
    BY <1>6, Zenon DEF TakesRow, SameArgs
  <2>2. QED
    BY <1>2, <2>1
<1>7. CASE Answers(q)
  <2>1. /\ \A e \in Email : emailLock'[e] = IF emailLock[e] = q THEN None ELSE emailLock[e]
        /\ pc'[q] \notin EmailHeld
    BY <1>7 DEF Answers, EmailHeld
  <2>2. ASSUME NEW p \in Request, pc'[p] \in EmailHeld PROVE addr'[p] \in Email /\ emailLock'[addr'[p]] = p
    <3>1. p # q /\ addr[p] \in Email /\ emailLock[addr[p]] = p /\ addr'[p] = addr[p]
        BY <1>1, <2>1, <2>2 DEF EmailLockOK
    <3>2. QED
        BY <2>1, <3>1
  <2>3. ASSUME NEW e \in Email, NEW p \in Request, emailLock'[e] = p PROVE pc'[p] \in EmailHeld /\ addr'[p] = e
    <3>1. p # q /\ emailLock[e] = p
        BY <1>0, <2>1, <2>3
    <3>2. QED
        BY <1>1, <3>1 DEF EmailLockOK
  <2>4. QED
    BY <2>2, <2>3 DEF EmailLockOK
<1>8. CASE TakesEmail(q)
  <2>1. addr[q] \in Email /\ addr'[q] = addr[q] /\ pc'[q] \in EmailHeld /\ pc[q] \notin EmailHeld
    BY <1>8 DEF TakesEmail, SameArgs, ArgsOK, SignupPCs, InvitePCs, AcceptPCs, EmailHeld
  <2>2. emailLock' = [emailLock EXCEPT ![addr[q]] = q] /\ emailLock[addr[q]] \in {None, q}
    BY <1>8, Zenon DEF TakesEmail
  <2>3. emailLock'[addr[q]] = q /\ \A e \in Email : e # addr[q] => emailLock'[e] = emailLock[e]
    BY <2>1, <2>2 DEF LockTypes
  <2>4. ASSUME NEW p \in Request, pc'[p] \in EmailHeld PROVE addr'[p] \in Email /\ emailLock'[addr'[p]] = p
    <3>1. CASE p = q
        BY <2>1, <2>3, <3>1
    <3>2. CASE p # q
      <4>1. addr[p] \in Email /\ emailLock[addr[p]] = p /\ addr'[p] = addr[p]
        BY <1>1, <2>4, <3>2 DEF EmailLockOK
      <4>2. addr[p] # addr[q]
        BY <1>0, <2>2, <3>2, <4>1
      <4>3. QED
        BY <2>3, <4>1, <4>2
    <3>3. QED
        BY <3>1, <3>2
  <2>5. ASSUME NEW e \in Email, NEW p \in Request, emailLock'[e] = p PROVE pc'[p] \in EmailHeld /\ addr'[p] = e
    <3>1. CASE e = addr[q]
        BY <2>1, <2>3, <2>5, <3>1
    <3>2. CASE e # addr[q]
      <4>1. emailLock[e] = p
        BY <2>3, <2>5, <3>2
      <4>2. pc[p] \in EmailHeld /\ addr[p] = e
        BY <4>1 DEF EmailLockOK
      <4>3. p # q
        BY <2>1, <4>2
      <4>4. QED
        BY <1>1, <4>2, <4>3
    <3>3. QED
        BY <3>1, <3>2
  <2>6. QED
    BY <2>4, <2>5 DEF EmailLockOK
<1>9. QED
    BY <1>3, <1>4, <1>5, <1>6, <1>7, <1>8 DEF Acts

\* Who holds a company is where the functions hold it.
LEMMA TenantLockStep ==
    ASSUME ReqTypes, LockTypes, TenantLockOK, NEW q \in Request, ArgsOK(q), Acts(q)
    PROVE  TenantLockOK'
<1>0. None \notin Request
    OBVIOUS
<1>1. \A p \in Request : p # q => pc'[p] = pc[p]
    BY Zenon DEF Acts, Enters, Moves, Answers, TakesEmail, TakesTenant, TakesRow, Others
<1>2. ASSUME tenantLock' = tenantLock, pc[q] \in TenantHeld => pc'[q] \in TenantHeld PROVE TenantLockOK'
    BY <1>1, <1>2 DEF TenantLockOK
<1>3. CASE Enters(q)
    BY <1>2, <1>3 DEF Enters, lockVars, TenantHeld
<1>4. CASE Moves(q)
    BY <1>2, <1>4 DEF Moves, lockVars, TenantHeld
<1>5. CASE TakesEmail(q)
    BY <1>2, <1>5 DEF TakesEmail, TenantHeld
<1>6. CASE TakesRow(q)
  <2>1. tenantLock' = tenantLock /\ pc'[q] = pc[q]
    BY <1>6, Zenon DEF TakesRow
  <2>2. QED
    BY <1>2, <2>1
<1>7. CASE Answers(q)
  <2>1. \A t \in Tenant : tenantLock'[t] = IF tenantLock[t] = q THEN None ELSE tenantLock[t]
    BY <1>7 DEF Answers
  <2>2. QED
    BY <1>0, <1>1, <2>1 DEF TenantLockOK
<1>8. CASE TakesTenant(q)
  <2>1. tenantLock' = [tenantLock EXCEPT ![ten[q]] = q] /\ pc'[q] \in TenantHeld
    BY <1>8 DEF TakesTenant, TenantHeld
  <2>2. \A t \in Tenant : tenantLock'[t] = q \/ tenantLock'[t] = tenantLock[t]
    BY <2>1 DEF LockTypes
  <2>3. QED
    BY <1>1, <2>1, <2>2 DEF TenantLockOK
<1>9. QED
    BY <1>3, <1>4, <1>5, <1>6, <1>7, <1>8 DEF Acts

\* Who holds a row has no smaller one still to lock.
LEMMA RowLockStep ==
    ASSUME ReqTypes, LockTypes, RowLockOK, NEW q \in Request, Acts(q)
    PROVE  RowLockOK'
<1>0. None \notin Request
    OBVIOUS
<1>1. \A p \in Request : p # q => pc'[p] = pc[p] /\ want'[p] = want[p]
    BY Zenon DEF Acts, Enters, Moves, Answers, TakesEmail, TakesTenant, TakesRow, Others
<1>2. ASSUME rowLock' = rowLock, pc[q] \notin RowHeld \/ pc'[q] \in {"removeCheck", "removeAct"}
      PROVE  RowLockOK'
  <2> SUFFICES ASSUME NEW a \in User, NEW p \in Request, rowLock'[a] = p
               PROVE  pc'[p] \in RowHeld /\ (pc'[p] = "removeLock" => \A b \in want'[p] : a < b)
    BY DEF RowLockOK
  <2>1. pc[p] \in RowHeld /\ (pc[p] = "removeLock" => \A b \in want[p] : a < b)
    BY <1>2 DEF RowLockOK
  <2>2. CASE p # q
    BY <1>1, <2>1, <2>2
  <2>3. CASE p = q
    BY <1>2, <2>1, <2>3 DEF RowHeld
  <2>4. QED
    BY <2>2, <2>3
<1>3. CASE Enters(q)
    BY <1>2, <1>3 DEF Enters, lockVars, RowHeld
<1>4. CASE Moves(q)
    BY <1>2, <1>4 DEF Moves, lockVars, RowHeld
<1>5. CASE TakesEmail(q) \/ TakesTenant(q)
    BY <1>2, <1>5 DEF TakesEmail, TakesTenant, RowHeld
<1>6. CASE Answers(q)
  <2>1. \A a \in User : rowLock'[a] = IF rowLock[a] = q THEN None ELSE rowLock[a]
    BY <1>6 DEF Answers
  <2>2. QED
    BY <1>0, <1>1, <2>1 DEF RowLockOK
<1>7. CASE TakesRow(q)
  <2>1. PICK a \in want[q] :
          /\ \A b \in want[q] : a <= b
          /\ rowLock' = [rowLock EXCEPT ![a] = q] \/ rowLock' = rowLock
          /\ want'[q] = want[q] \ {a}
    BY <1>7, Zenon DEF TakesRow
  <2>2. pc'[q] = "removeLock" /\ pc[q] = "removeLock"
    BY <1>7, Zenon DEF TakesRow
  <2>3. want[q] \subseteq User /\ User \subseteq Nat
    BY UserIds DEF ReqTypes
  <2>4. ASSUME NEW b \in want'[q] PROVE a < b
    <3>1. b \in want[q] /\ b # a
        BY <2>1
    <3>2. a \in Nat /\ b \in Nat /\ a <= b
        BY <2>1, <2>3, <3>1
    <3>3. QED
        BY <3>1, <3>2
  <2> SUFFICES ASSUME NEW c \in User, NEW p \in Request, rowLock'[c] = p
               PROVE  pc'[p] \in RowHeld /\ (pc'[p] = "removeLock" => \A b \in want'[p] : c < b)
    BY DEF RowLockOK
  <2>5. rowLock[c] = p \/ (c = a /\ p = q)
    BY <2>1 DEF LockTypes
  <2>6. CASE c = a /\ p = q
    BY <2>2, <2>4, <2>6 DEF RowHeld
  <2>7. CASE rowLock[c] = p /\ p # q
    BY <1>1, <2>7 DEF RowLockOK
  <2>8. CASE rowLock[c] = p /\ p = q
    <3>1. \A b \in want[q] : c < b
        BY <2>2, <2>8 DEF RowLockOK
    <3>2. QED
        BY <2>1, <2>2, <2>8, <3>1 DEF RowHeld
  <2>9. QED
    BY <2>5, <2>6, <2>7, <2>8
<1>8. QED
    BY <1>3, <1>4, <1>5, <1>6, <1>7 DEF Acts

-----------------------------------------------------------------------------
(***************************************************************************)
(* What a step does to accounts and invitations.                           *)
(***************************************************************************)

\* Accounts and invitations stay as they are.
Quiet == UNCHANGED <<users, email, tenantOf, role, invite, inviteTo, expired, hadAdmin, disturbed>>

\* The steps of requests that change them.
Changes(q) ==
    \/ \E a \in Account : SignupInsert(q, a)
    \/ SetAccountAccess(q) \/ DeleteAccount(q) \/ RemoveMember(q)
    \/ InviteClose(q) \/ \E i \in Invitation : InviteInsert(q, i)

\* The steps that no request takes.
Aside == \/ \E i \in Invitation : InvitationExpires(i)
         \/ \E e \in Email \cup {None} : CreateAdmin(e)

LEMMA StepData ==
    ASSUME NEW q \in Request, Step(q)
    PROVE  Changes(q) \/ Quiet
BY Zenon DEF Step, Changes, Quiet, LockEmail, LockTenant, SignupCheck, SignupFails, RegisterTenant,
             RemoveStart, RemoveLock, RemoveCheck, InviteCheck, AcceptInvitation, DeadlockDetected, userVars

\* A step is one of a request, or leaves the requests and their locks alone.
LEMMA NextKind ==
    ASSUME UserTypes, InviteTypes, InvitesOK, ReqTypes, LockTypes, Next
    PROVE  \/ \E q \in Request : Start(q) /\ Enters(q) /\ Quiet
           \/ \E q \in Request : Step(q) /\ Acts(q) /\ (Changes(q) \/ Quiet)
           \/ UNCHANGED <<lockVars, reqVars>> /\ (Aside \/ Quiet)
<1>1. ASSUME NEW q \in Request, Start(q) PROVE Start(q) /\ Enters(q) /\ Quiet
  <2>1. Enters(q) /\ UNCHANGED <<userVars, tenants, invite, inviteTo, expired, session, hadAdmin, disturbed>>
    BY <1>1, StartKind
  <2>2. QED
    BY <1>1, <2>1, Zenon DEF Quiet, userVars
<1>2. ASSUME NEW q \in Request, Step(q) PROVE Step(q) /\ Acts(q) /\ (Changes(q) \/ Quiet)
    BY <1>2, StepKind, StepData DEF Acts
<1>3. ASSUME NEW a \in User, Login(a) \/ EndSession(a) PROVE UNCHANGED <<lockVars, reqVars>> /\ Quiet
    BY <1>3, Zenon DEF Login, EndSession, Quiet, userVars
<1>4. CASE Aside
    BY <1>4, Zenon DEF Aside, InvitationExpires, CreateAdmin
<1>5. QED
    BY <1>1, <1>2, <1>3, <1>4, Zenon DEF Next, Aside

AllArgs == \A q \in Request : ArgsOK(q)

\* The inductive part every proof below rests on.
BaseInv == /\ UserTypes /\ SeatsOK /\ InviteTypes /\ LockTypes /\ OtherTypes
           /\ ReqTypes /\ AllArgs /\ InvitesOK /\ LocksOK

\* An invitation that was sent stays sent and says what it said.
Sent == \A i \in Invitation : invite[i] # "new" => invite'[i] # "new" /\ inviteTo'[i] = inviteTo[i]

\* A new row.
LEMMA InsertTypes ==
    ASSUME UserTypes, SeatsOK, NEW a \in User, NEW e \in Email \cup {None}, NEW t \in Tenant \cup {None},
           NEW r \in SeatRole \cup {"platform_admin"}, Insert(a, e, t, r),
           r = "platform_admin" => t = None, r = "tenant_admin" => t # None, hadAdmin \subseteq Tenant
    PROVE  UserTypes' /\ SeatsOK' /\ hadAdmin' \subseteq Tenant
<1>1. /\ users' = users \cup {a} /\ email' = [email EXCEPT ![a] = e]
      /\ tenantOf' = [tenantOf EXCEPT ![a] = t] /\ role' = [role EXCEPT ![a] = r]
      /\ hadAdmin' = IF r = "tenant_admin" THEN hadAdmin \cup {t} ELSE hadAdmin
    BY Zenon DEF Insert
<1>2. r \in {"member", "tenant_admin", "platform_admin"}
    BY DEF SeatRole
<1>3. UserTypes'
    BY <1>1, <1>2 DEF UserTypes
<1>4. /\ role'[a] = r /\ tenantOf'[a] = t
      /\ \A b \in User : b # a => role'[b] = role[b] /\ tenantOf'[b] = tenantOf[b]
    BY <1>1 DEF UserTypes
<1>5. SeatsOK'
    BY <1>1, <1>4 DEF SeatsOK, UserTypes
<1>6. hadAdmin' \subseteq Tenant
    BY <1>1
<1>7. QED
    BY <1>3, <1>5, <1>6

\* A changed seat of a row that is not the platform's.
LEMMA SeatTypes ==
    ASSUME UserTypes, SeatsOK, NEW b \in User, NEW t \in Tenant \cup {None}, NEW r \in SeatRole,
           users' \subseteq users, email' \in [User -> Email \cup {None}],
           tenantOf' = [tenantOf EXCEPT ![b] = t], role' = [role EXCEPT ![b] = r],
           t = None => r = "member"
    PROVE  UserTypes' /\ SeatsOK'
<1>1. r \in {"member", "tenant_admin", "platform_admin"} /\ r # "platform_admin"
    BY DEF SeatRole
<1>2. UserTypes'
    BY <1>1 DEF UserTypes
<1>3. /\ role'[b] = r /\ tenantOf'[b] = t
      /\ \A c \in User : c # b => role'[c] = role[c] /\ tenantOf'[c] = tenantOf[c]
    BY DEF UserTypes
<1>4. SeatsOK'
    BY <1>1, <1>3 DEF SeatsOK, UserTypes
<1>5. QED
    BY <1>2, <1>4

LEMMA DisturbsType ==
    ASSUME UserTypes, SeatsOK, NEW b \in User, b \in users, NEW t \in Tenant \cup {None}, NEW r \in SeatRole,
           t = None => r = "member", disturbed \subseteq Tenant
    PROVE  Disturbs(b, t, r) \subseteq Tenant
<1>1. role[b] = "tenant_admin" => tenantOf[b] \in Tenant
    BY DEF UserTypes, SeatsOK
<1>2. r = "tenant_admin" => t \in Tenant
    OBVIOUS
<1>3. QED
    BY <1>1, <1>2 DEF Disturbs

\* What the request of a change is about.
LEMMA ChangeTypes ==
    ASSUME BaseInv, NEW q \in Request, Changes(q)
    PROVE  UserTypes' /\ SeatsOK' /\ InviteTypes' /\ hadAdmin' \subseteq Tenant /\ disturbed' \subseteq Tenant
           /\ InvitesOK' /\ Sent
<1> DEFINE Goal == UserTypes' /\ SeatsOK' /\ InviteTypes' /\ hadAdmin' \subseteq Tenant /\ disturbed' \subseteq Tenant
                   /\ InvitesOK' /\ Sent
<1>0. /\ UserTypes /\ SeatsOK /\ InviteTypes /\ ReqTypes /\ ArgsOK(q) /\ InvitesOK
      /\ hadAdmin \subseteq Tenant /\ disturbed \subseteq Tenant
    BY Zenon DEF BaseInv, OtherTypes, AllArgs
<1>1. ASSUME UNCHANGED <<invite, inviteTo, expired>> PROVE InviteTypes' /\ InvitesOK' /\ Sent
    BY <1>0, <1>1 DEF InviteTypes, InvitesOK, Sent
<1>2. ASSUME UNCHANGED <<users, email, tenantOf, role, hadAdmin, disturbed>>
      PROVE  UserTypes' /\ SeatsOK' /\ hadAdmin' \subseteq Tenant /\ disturbed' \subseteq Tenant
    BY <1>0, <1>2 DEF UserTypes, SeatsOK
<1>3. ASSUME NEW a \in Account, SignupInsert(q, a) PROVE Goal
  <2>1. /\ pc[q] = "signupInsert" /\ Insert(a, addr[q], None, "member")
        /\ UNCHANGED <<invite, inviteTo, expired>> /\ disturbed' = disturbed
    BY <1>3, Zenon DEF SignupInsert
  <2>2. addr[q] \in Email /\ a \in User /\ "member" \in SeatRole
    BY <1>0, <2>1, UserIds DEF ArgsOK, SignupPCs, SeatRole
  <2>3. UserTypes' /\ SeatsOK' /\ hadAdmin' \subseteq Tenant
    BY <1>0, <2>1, <2>2, InsertTypes
  <2>4. QED
    BY <1>0, <1>1, <2>1, <2>3
<1>5. ASSUME SetAccountAccess(q) PROVE Goal
  <2> DEFINE b == target[q]
  <2>1. /\ pc[q] = "assign" /\ UNCHANGED <<users, email, invite, inviteTo, expired>>
        /\ \/ UNCHANGED <<tenantOf, role, hadAdmin, disturbed>>
           \/ /\ Changeable(b) /\ tenantOf' = [tenantOf EXCEPT ![b] = ten[q]]
              /\ role' = [role EXCEPT ![b] = grant[q]]
              /\ hadAdmin' = IF grant[q] = "tenant_admin" THEN hadAdmin \cup {ten[q]} ELSE hadAdmin
              /\ disturbed' = Disturbs(b, ten[q], grant[q])
    BY <1>5, Zenon DEF SetAccountAccess
  <2>2. b \in User /\ ten[q] \in Tenant \cup {None} /\ grant[q] \in SeatRole /\ (ten[q] = None => grant[q] = "member")
    BY <1>0, <2>1, UserIds DEF ArgsOK, ReqTypes
  <2> HIDE DEF b
  <2>3. CASE UNCHANGED <<tenantOf, role, hadAdmin, disturbed>>
    BY <1>1, <1>2, <2>1, <2>3
  <2>4. CASE /\ Changeable(b) /\ tenantOf' = [tenantOf EXCEPT ![b] = ten[q]]
             /\ role' = [role EXCEPT ![b] = grant[q]]
             /\ hadAdmin' = IF grant[q] = "tenant_admin" THEN hadAdmin \cup {ten[q]} ELSE hadAdmin
             /\ disturbed' = Disturbs(b, ten[q], grant[q])
    <3>1. b \in users
        BY <2>4 DEF Changeable, Live
    <3>2. users' \subseteq users /\ email' \in [User -> Email \cup {None}]
        BY <1>0, <2>1 DEF UserTypes
    <3>3. UserTypes' /\ SeatsOK'
        BY <1>0, <2>2, <2>4, <3>2, SeatTypes
    <3>4. Disturbs(b, ten[q], grant[q]) \subseteq Tenant
        BY <1>0, <2>2, <3>1, DisturbsType
    <3>5. hadAdmin' \subseteq Tenant
        BY <1>0, <2>2, <2>4
    <3>6. QED
        BY <1>1, <2>1, <2>4, <3>3, <3>4, <3>5
  <2>5. QED
    BY <2>1, <2>3, <2>4
<1>6. ASSUME DeleteAccount(q) PROVE Goal
  <2> DEFINE b == target[q]
  <2>1. /\ pc[q] = "delete" /\ UNCHANGED <<hadAdmin, invite, inviteTo, expired>>
        /\ \/ UNCHANGED <<users, email, tenantOf, role, disturbed>>
           \/ /\ Changeable(b) /\ users' = users \ {b} /\ email' = [email EXCEPT ![b] = None]
              /\ tenantOf' = [tenantOf EXCEPT ![b] = None]
              /\ role' = [role EXCEPT ![b] = "member"]
              /\ disturbed' = Disturbs(b, None, "member")
    BY <1>6, Zenon DEF DeleteAccount
  <2>2. b \in User /\ "member" \in SeatRole
    BY <1>0, <2>1, UserIds DEF ArgsOK, SeatRole
  <2> HIDE DEF b
  <2>3. CASE UNCHANGED <<users, email, tenantOf, role, disturbed>>
    BY <1>1, <1>2, <2>1, <2>3
  <2>4. CASE /\ Changeable(b) /\ users' = users \ {b} /\ email' = [email EXCEPT ![b] = None]
             /\ tenantOf' = [tenantOf EXCEPT ![b] = None]
             /\ role' = [role EXCEPT ![b] = "member"]
             /\ disturbed' = Disturbs(b, None, "member")
    <3>1. b \in users
        BY <2>4 DEF Changeable, Live
    <3>2. users' \subseteq users /\ email' \in [User -> Email \cup {None}]
        BY <1>0, <2>4 DEF UserTypes
    <3>3. UserTypes' /\ SeatsOK'
        BY <1>0, <2>2, <2>4, <3>2, SeatTypes
    <3>4. Disturbs(b, None, "member") \subseteq Tenant
        BY <1>0, <2>2, <3>1, DisturbsType
    <3>5. QED
        BY <1>0, <1>1, <2>1, <2>4, <3>3, <3>4
  <2>5. QED
    BY <2>1, <2>3, <2>4
<1>7. ASSUME RemoveMember(q) PROVE Goal
  <2> DEFINE b == target[q]
  <2>1. /\ pc[q] = "removeAct" /\ UNCHANGED <<users, email, hadAdmin, disturbed, invite, inviteTo, expired>>
        /\ \/ UNCHANGED <<tenantOf, role>>
           \/ tenantOf' = [tenantOf EXCEPT ![b] = None] /\ role' = [role EXCEPT ![b] = "member"]
    BY <1>7, Zenon DEF RemoveMember
  <2>2. b \in User /\ "member" \in SeatRole
    BY <1>0, <2>1, UserIds DEF ArgsOK, RemovePCs, SeatRole
  <2> HIDE DEF b
  <2>3. CASE UNCHANGED <<tenantOf, role>>
    BY <1>1, <1>2, <2>1, <2>3
  <2>4. CASE tenantOf' = [tenantOf EXCEPT ![b] = None] /\ role' = [role EXCEPT ![b] = "member"]
    <3>1. users' \subseteq users /\ email' \in [User -> Email \cup {None}]
        BY <1>0, <2>1 DEF UserTypes
    <3>2. UserTypes' /\ SeatsOK'
        BY <1>0, <2>2, <2>4, <3>1, SeatTypes
    <3>3. QED
        BY <1>0, <1>1, <2>1, <3>2
  <2>5. QED
    BY <2>1, <2>3, <2>4
<1>8. ASSUME InviteClose(q) PROVE Goal
  <2>1. /\ UNCHANGED <<users, email, tenantOf, role, hadAdmin, disturbed>> /\ UNCHANGED <<inviteTo, expired>>
        /\ \/ invite' = invite
           \/ \E S \in SUBSET {i \in Invitation : Unaccepted(i)} :
                 invite' = [i \in Invitation |-> IF i \in S THEN "accepted" ELSE invite[i]]
    <3> DEFINE S == {i \in Invitation : Unaccepted(i) /\ i \in expired /\ inviteTo[i].email = addr[q]}
    <3>1. /\ UNCHANGED <<users, email, tenantOf, role, hadAdmin, disturbed>> /\ UNCHANGED <<inviteTo, expired>>
          /\ invite' = invite \/ invite' = [i \in Invitation |-> IF i \in S THEN "accepted" ELSE invite[i]]
        BY <1>8, Zenon DEF InviteClose, userVars
    <3>2. S \in SUBSET {i \in Invitation : Unaccepted(i)}
        OBVIOUS
    <3> HIDE DEF S
    <3>3. QED
        BY <3>1, <3>2
  <2>2. CASE invite' = invite
    BY <1>1, <1>2, <2>1, <2>2
  <2>3. CASE invite' # invite
    <3>1. PICK S \in SUBSET {i \in Invitation : Unaccepted(i)} :
             invite' = [i \in Invitation |-> IF i \in S THEN "accepted" ELSE invite[i]]
        BY <2>1, <2>3
    <3>2. \A i \in Invitation : invite'[i] = invite[i] \/ (invite'[i] = "accepted" /\ invite[i] = "pending")
        BY <3>1 DEF Unaccepted
    <3>3. InviteTypes'
        BY <1>0, <2>1, <3>1 DEF InviteTypes
    <3>4. InvitesOK' /\ Sent
        BY <1>0, <2>1, <3>2 DEF InvitesOK, Sent
    <3>5. QED
        BY <1>2, <2>1, <3>3, <3>4
  <2>4. QED
    BY <2>2, <2>3
<1>9. ASSUME NEW i \in Invitation, InviteInsert(q, i) PROVE Goal
  <2> DEFINE v == [tenant |-> ten[q], email |-> addr[q], role |-> grant[q]]
  <2>1. /\ pc[q] = "inviteInsert" /\ invite[i] = "new" /\ invite' = [invite EXCEPT ![i] = "pending"]
        /\ inviteTo' = [inviteTo EXCEPT ![i] = v]
        /\ UNCHANGED <<users, email, tenantOf, role, hadAdmin, disturbed>> /\ UNCHANGED <<expired>>
    BY <1>9, Zenon DEF InviteInsert, userVars
  <2>2. addr[q] \in Email /\ ten[q] \in Tenant /\ grant[q] \in SeatRole
    BY <1>0, <2>1 DEF ArgsOK, InvitePCs
  <2>3. v \in InviteRecord /\ v.tenant \in Tenant /\ v.email \in Email /\ v.role \in SeatRole
    BY <2>2 DEF InviteRecord
  <2> HIDE DEF v
  <2>4. InviteTypes'
    BY <1>0, <2>1, <2>3 DEF InviteTypes
  <2>5. /\ inviteTo'[i] = v
        /\ \A j \in Invitation : j # i => inviteTo'[j] = inviteTo[j] /\ invite'[j] = invite[j]
    BY <1>0, <2>1 DEF InviteTypes
  <2>6. InvitesOK' /\ Sent
    BY <1>0, <2>1, <2>3, <2>5 DEF InvitesOK, Sent
  <2>7. QED
    BY <1>2, <2>1, <2>4, <2>6
<1> HIDE DEF Goal
<1>10. Goal
    BY <1>3, <1>5, <1>6, <1>7, <1>8, <1>9 DEF Changes
<1>11. QED
    BY <1>10 DEF Goal

\* The rest of the steps.
LEMMA DataTypes ==
    ASSUME BaseInv, Next
    PROVE  UserTypes' /\ SeatsOK' /\ InviteTypes' /\ hadAdmin' \subseteq Tenant /\ disturbed' \subseteq Tenant
           /\ InvitesOK' /\ Sent
<1>0. /\ UserTypes /\ SeatsOK /\ InviteTypes /\ ReqTypes /\ LockTypes /\ InvitesOK
      /\ hadAdmin \subseteq Tenant /\ disturbed \subseteq Tenant
    BY Zenon DEF BaseInv, OtherTypes
<1> DEFINE Goal == UserTypes' /\ SeatsOK' /\ InviteTypes' /\ hadAdmin' \subseteq Tenant /\ disturbed' \subseteq Tenant
                   /\ InvitesOK' /\ Sent
<1>1. ASSUME Quiet PROVE Goal
    BY <1>0, <1>1 DEF Quiet, UserTypes, SeatsOK, InviteTypes, InvitesOK, Sent
<1>2. ASSUME NEW q \in Request, Changes(q) PROVE Goal
    BY <1>2, ChangeTypes
<1>3. ASSUME NEW i \in Invitation, InvitationExpires(i) PROVE Goal
  <2>1. /\ expired' = expired \cup {i} /\ UNCHANGED <<users, email, tenantOf, role, hadAdmin, disturbed>>
        /\ UNCHANGED <<invite, inviteTo>>
    BY <1>3, Zenon DEF InvitationExpires, userVars
  <2>2. QED
    BY <1>0, <2>1 DEF UserTypes, SeatsOK, InviteTypes, InvitesOK, Sent
<1>4. ASSUME NEW e \in Email \cup {None}, CreateAdmin(e) PROVE Goal
  <2>1. /\ Insert(Root, e, None, "platform_admin") /\ UNCHANGED <<invite, inviteTo, expired>>
        /\ disturbed' = disturbed
    BY <1>4, Zenon DEF CreateAdmin
  <2>2. Root \in User /\ "platform_admin" # "tenant_admin"
    BY DEF User
  <2>3. UserTypes' /\ SeatsOK' /\ hadAdmin' \subseteq Tenant
    BY <1>0, <2>1, <2>2, InsertTypes
  <2>4. InviteTypes' /\ InvitesOK' /\ Sent
    BY <1>0, <2>1 DEF InviteTypes, InvitesOK, Sent
  <2>5. QED
    BY <1>0, <2>1, <2>3, <2>4
<1> HIDE DEF Goal
<1>5. Goal
    BY <1>0, <1>1, <1>2, <1>3, <1>4, NextKind DEF Aside
<1>6. QED
    BY <1>5 DEF Goal

\* Companies and sessions.
LEMMA OtherStep ==
    ASSUME BaseInv, Next
    PROVE  tenants' \subseteq Tenant /\ session' \subseteq User
<1>0. tenants \subseteq Tenant /\ session \subseteq User /\ AllArgs
    BY Zenon DEF BaseInv, OtherTypes
<1>1. ASSUME NEW q \in Request, RegisterTenant(q) PROVE tenants' \subseteq Tenant /\ session' \subseteq User
  <2>1. pc[q] = "register" /\ tenants' \in {tenants, tenants \cup {ten[q]}} /\ session' = session
    BY <1>1, Zenon DEF RegisterTenant
  <2>2. ten[q] \in Tenant
    BY <1>0, <2>1 DEF AllArgs, ArgsOK
  <2>3. QED
    BY <1>0, <2>1, <2>2
<1>2. ASSUME tenants' = tenants, session' \subseteq session \/ \E a \in User : session' = session \cup {a}
      PROVE  tenants' \subseteq Tenant /\ session' \subseteq User
    BY <1>0, <1>2
<1>3. ASSUME NEW a \in User, Login(a) \/ EndSession(a)
      PROVE  tenants' = tenants /\ (session' \subseteq session \/ \E b \in User : session' = session \cup {b})
    BY <1>3, Zenon DEF Login, EndSession
<1>4. ASSUME NEW q \in Request, Start(q) PROVE tenants' = tenants /\ session' = session
    BY <1>4, Zenon DEF Start, StartSignup, StartPlatform, StartRemove, StartInvite, StartAccept
<1>5. ASSUME NEW q \in Request, NEW a \in Account, SignupInsert(q, a)
      PROVE  tenants' = tenants /\ (session' \subseteq session \/ \E b \in User : session' = session \cup {b})
    BY <1>5, UserIds, Zenon DEF SignupInsert
<1>6. ASSUME NEW q \in Request, DeleteAccount(q) PROVE tenants' = tenants /\ session' \subseteq session
    BY <1>6, Zenon DEF DeleteAccount
<1>7. ASSUME NEW q \in Request, Step(q), ~(\E a \in Account : SignupInsert(q, a)), ~DeleteAccount(q), ~RegisterTenant(q)
      PROVE  tenants' = tenants /\ session' = session
    BY <1>7, Zenon DEF Step, LockEmail, LockTenant, SignupCheck, SignupFails, SetAccountAccess, RemoveStart, RemoveLock,
                RemoveCheck, RemoveMember, InviteCheck, InviteClose, InviteInsert, AcceptInvitation,
                DeadlockDetected
<1>8. CASE Aside
  <2>1. tenants' = tenants /\ session' = session
    BY <1>8, Zenon DEF Aside, InvitationExpires, CreateAdmin
  <2>2. QED
    BY <1>0, <2>1
<1>9. ASSUME NEW q \in Request, Start(q) \/ Step(q) PROVE tenants' \subseteq Tenant /\ session' \subseteq User
    BY <1>0, <1>1, <1>2, <1>4, <1>5, <1>6, <1>7, <1>9
<1>10. QED
    BY <1>0, <1>2, <1>3, <1>8, <1>9 DEF Next, Aside

\* A request keeps what it was given.
LEMMA ArgsStep ==
    ASSUME BaseInv, Next
    PROVE  ReqTypes' /\ LockTypes' /\ AllArgs' /\ LocksOK'
<1>0. /\ UserTypes /\ InviteTypes /\ ReqTypes /\ LockTypes /\ InvitesOK /\ LocksOK
      /\ \A q \in Request : ArgsOK(q)
    BY Zenon DEF BaseInv, AllArgs
<1>1. Sent
    BY DataTypes
<1>2. ASSUME NEW p \in Request, pc'[p] = pc[p], SameArgs(p) PROVE ArgsOK(p)'
  <2>1. /\ actor'[p] = actor[p] /\ target'[p] = target[p] /\ ten'[p] = ten[p]
        /\ addr'[p] = addr[p] /\ grant'[p] = grant[p]
    BY <1>2, Zenon DEF SameArgs
  <2>2. QED
    BY <1>0, <1>2, <2>1 DEF ArgsOK
<1>3. ASSUME NEW q \in Request, Acts(q), ArgsOK(q)' PROVE AllArgs'
  <2>1. Others(q)
    BY <1>3, Zenon DEF Acts, Enters, Moves, Answers, TakesEmail, TakesTenant, TakesRow
  <2>2. \A p \in Request : p # q => pc'[p] = pc[p] /\ SameArgs(p)
    BY <2>1, Zenon DEF Others
  <2>3. \A p \in Request : ArgsOK(p)'
    BY <1>2, <1>3, <2>2
  <2>4. QED
    BY <2>3, Zenon DEF AllArgs
<1>4. ASSUME NEW q \in Request, Acts(q) PROVE LocksOK'
    BY <1>0, <1>4, EmailLockStep, TenantLockStep, RowLockStep DEF LocksOK
<1>5. ASSUME NEW q \in Request, Start(q) PROVE ReqTypes' /\ LockTypes' /\ AllArgs' /\ LocksOK'
    BY <1>0, <1>3, <1>4, <1>5, StartKind DEF Acts
<1>6. ASSUME NEW q \in Request, Step(q) PROVE ReqTypes' /\ LockTypes' /\ AllArgs' /\ LocksOK'
  <2>1. /\ Moves(q) \/ Answers(q) \/ TakesEmail(q) \/ TakesTenant(q) \/ TakesRow(q)
        /\ ReqTypes' /\ LockTypes'
    BY <1>0, <1>6, StepKind
  <2>2. Acts(q)
    BY <2>1, Zenon DEF Acts
  <2>3. CASE Answers(q)
    <3>1. pc'[q] = "idle"
        BY <2>3, Zenon DEF Answers
    <3>2. ArgsOK(q)'
        BY <3>1 DEF ArgsOK, SignupPCs, InvitePCs, AcceptPCs, RemovePCs
    <3>3. QED
        BY <1>3, <1>4, <2>1, <2>2, <3>2
  <2>4. CASE Moves(q) \/ TakesEmail(q) \/ TakesTenant(q) \/ TakesRow(q)
    <3>1. /\ actor'[q] = actor[q] /\ target'[q] = target[q] /\ ten'[q] = ten[q]
          /\ addr'[q] = addr[q] /\ grant'[q] = grant[q]
        BY <2>4, Zenon DEF Moves, TakesEmail, TakesTenant, TakesRow, SameArgs
    <3>2. \E S \in {SignupPCs, InvitePCs, AcceptPCs, RemovePCs} : pc[q] \in S /\ pc'[q] \in S
      <4>1. CASE Moves(q)
        BY <4>1 DEF Moves, SignupPCs, InvitePCs, RemovePCs
      <4>2. CASE TakesEmail(q)
        BY <4>2 DEF TakesEmail, SignupPCs, InvitePCs, AcceptPCs
      <4>3. CASE TakesTenant(q)
        BY <4>3 DEF TakesTenant, InvitePCs, AcceptPCs
      <4>4. CASE TakesRow(q)
        <5>1. pc[q] = "removeLock" /\ pc'[q] = "removeLock"
            BY <4>4, Zenon DEF TakesRow
        <5>2. QED
            BY <5>1 DEF RemovePCs
      <4>5. QED
        BY <2>4, <4>1, <4>2, <4>3, <4>4
    <3>4. ArgsOK(q)
        BY <1>0
    <3>5. ArgsOK(q)'
        BY <3>1, <3>2, <3>4 DEF ArgsOK, SignupPCs, InvitePCs, AcceptPCs, RemovePCs
    <3>6. QED
        BY <1>3, <1>4, <2>1, <2>2, <3>5
  <2>5. QED
    BY <2>1, <2>3, <2>4
<1>7. ASSUME UNCHANGED <<lockVars, reqVars>> PROVE ReqTypes' /\ LockTypes' /\ AllArgs' /\ LocksOK'
  <2>1. /\ UNCHANGED <<emailLock, tenantLock, rowLock>>
        /\ UNCHANGED <<pc, actor, target, ten, addr, grant, want>>
    BY <1>7, Zenon DEF lockVars, reqVars
  <2>2. ReqTypes' /\ LockTypes'
    BY <1>0, <2>1, Zenon DEF ReqTypes, LockTypes
  <2>3. \A p \in Request : ArgsOK(p)'
    BY <1>2, <2>1 DEF SameArgs
  <2>4. LocksOK'
    BY <1>0, <2>1 DEF LocksOK, EmailLockOK, TenantLockOK, RowLockOK
  <2>5. QED
    BY <2>2, <2>3, <2>4, Zenon DEF AllArgs
<1>8. QED
    BY <1>0, <1>5, <1>6, <1>7, NextKind

LEMMA BaseInit ==
    ASSUME Init
    PROVE  BaseInv
<1>1. UserTypes /\ SeatsOK
    BY DEF Init, UserTypes, SeatsOK
<1>2. NoInvite \in InviteRecord
    BY DEF NoInvite, InviteRecord
<1>3. InviteTypes
    BY <1>2 DEF Init, InviteTypes
<1>4. LockTypes /\ OtherTypes
    BY DEF Init, LockTypes, OtherTypes
<1>5. ReqTypes
    BY DEF Init, ReqTypes, PC
<1>6. AllArgs
    BY DEF Init, AllArgs, ArgsOK, SignupPCs, InvitePCs, AcceptPCs, RemovePCs
<1>7. InvitesOK
    BY DEF Init, InvitesOK
<1>8. LocksOK
    BY DEF Init, LocksOK, EmailLockOK, TenantLockOK, RowLockOK, EmailHeld
<1>9. QED
    BY <1>1, <1>3, <1>4, <1>5, <1>6, <1>7, <1>8 DEF BaseInv

LEMMA BaseStep ==
    ASSUME BaseInv, [Next]_vars
    PROVE  BaseInv'
<1>1. CASE Next
    BY <1>1, DataTypes, OtherStep, ArgsStep, Zenon DEF BaseInv, OtherTypes
<1>2. CASE UNCHANGED vars
  <2>1. UserTypes' /\ SeatsOK'
    BY <1>2 DEF vars, BaseInv, UserTypes, SeatsOK
  <2>2. InviteTypes' /\ InvitesOK'
    BY <1>2 DEF vars, BaseInv, InviteTypes, InvitesOK
  <2>3. LockTypes' /\ OtherTypes'
    BY <1>2 DEF vars, BaseInv, LockTypes, OtherTypes
  <2>4. ReqTypes'
    BY <1>2, Zenon DEF vars, BaseInv, ReqTypes
  <2>5. AllArgs'
    BY <1>2 DEF vars, BaseInv, AllArgs, ArgsOK
  <2>6. LocksOK'
    BY <1>2 DEF vars, BaseInv, LocksOK, EmailLockOK, TenantLockOK, RowLockOK
  <2>7. QED
    BY <2>1, <2>2, <2>3, <2>4, <2>5, <2>6 DEF BaseInv
<1>3. QED
    BY <1>1, <1>2

LEMMA BaseAlways == Spec => []BaseInv
<1>1. Init => BaseInv
    BY BaseInit
<1>2. BaseInv /\ [Next]_vars => BaseInv'
    BY BaseStep
<1>3. QED
    BY <1>1, <1>2, PTL DEF Spec

\* Every reachable state has the types of the tables, and the rows satisfy the
\* constraint users_role_tenant_scope whatever the requests do to each other: no
\* function leaves an administrator without a company.
THEOREM AccountsTypeCorrect == Spec => []TypeOK
<1>1. BaseInv => TypeOK
    BY TypeParts, Zenon DEF BaseInv
<1>2. QED
    BY <1>1, BaseAlways, PTL

-----------------------------------------------------------------------------
(***************************************************************************)
(* No circle: who has an address waits for nothing, who has a company only *)
(* for an address, and who has rows only for a row with a larger id.       *)
(***************************************************************************)

LEMMA NoCircle ==
    ASSUME BaseInv, Stuck, \A q \in Request : pc[q] # "removeAct"
    PROVE  FALSE
<1>0. ReqTypes /\ LockTypes /\ AllArgs /\ EmailLockOK /\ TenantLockOK /\ RowLockOK
    BY Zenon DEF BaseInv, LocksOK
<1>1. \A p \in Request : pc[p] # "idle" => Waits(p)
    BY DEF Stuck
<1>2. PICK q0 \in Request : pc[q0] # "idle"
    BY DEF Stuck
<1>3. ASSUME NEW q \in Request, pc[q] \in EmailHeld \cup {"removeCheck"} PROVE FALSE
  <2>1. pc[q] # "idle"
    BY <1>3 DEF EmailHeld
  <2>2. Waits(q)
    BY <1>1, <2>1
  <2>3. QED
    BY <1>3, <2>2 DEF Waits, EmailHeld
<1>4. ASSUME NEW q \in Request, pc[q] \in {"signupLock", "inviteEmail", "acceptEmail"} PROVE FALSE
  <2>1. Waits(q) /\ addr[q] \in Email
    BY <1>0, <1>1, <1>4 DEF AllArgs, ArgsOK, SignupPCs, InvitePCs, AcceptPCs
  <2>2. emailLock[addr[q]] \notin {None, q}
    BY <1>4, <2>1 DEF Waits, Free
  <2>3. PICK p \in Request : emailLock[addr[q]] = p
    BY <1>0, <2>1, <2>2 DEF LockTypes
  <2>4. pc[p] \in EmailHeld
    BY <1>0, <2>1, <2>3 DEF EmailLockOK
  <2>5. QED
    BY <1>3, <2>4
<1>5. ASSUME NEW q \in Request, pc[q] \in {"inviteTenant", "acceptTenant"} PROVE FALSE
  <2>1. Waits(q) /\ ten[q] \in Tenant
    BY <1>0, <1>1, <1>5 DEF AllArgs, ArgsOK, InvitePCs, AcceptPCs
  <2>2. tenantLock[ten[q]] \notin {None, q}
    BY <1>5, <2>1 DEF Waits, Free
  <2>3. PICK p \in Request : tenantLock[ten[q]] = p
    BY <1>0, <2>1, <2>2 DEF LockTypes
  <2>4. pc[p] \in TenantHeld
    BY <1>0, <2>1, <2>3 DEF TenantLockOK
  <2>5. pc[p] \in EmailHeld \cup {"inviteEmail", "acceptEmail"}
    BY <2>4 DEF TenantHeld, EmailHeld
  <2>6. QED
    BY <1>3, <1>4, <2>5
<1> DEFINE Locking(q) == pc[q] = "removeLock" /\ want[q] # {}
           W == {a \in User : \E q \in Request : Locking(q) /\ First(q) = a}
<1>6. ASSUME NEW q \in Request, NEW a \in User, rowLock[a] = q
      PROVE  Locking(q) /\ First(q) \in W /\ a < First(q)
  <2>1. pc[q] \in RowHeld /\ (pc[q] = "removeLock" => \A b \in want[q] : a < b)
    BY <1>0, <1>6 DEF RowLockOK
  <2>2. pc[q] = "removeLock"
    BY <1>3, <2>1 DEF RowHeld
  <2>3. want[q] # {}
    BY <1>1, <2>2 DEF Waits
  <2>4. First(q) \in want[q]
    BY <1>0, <2>3, FirstIsSmallest
  <2>5. want[q] \subseteq User
    BY <1>0 DEF ReqTypes
  <2>6. a < First(q)
    BY <2>1, <2>2, <2>4
  <2>7. QED
    BY <2>2, <2>3, <2>4, <2>5, <2>6
<1>7. W # {}
  <2>1. Waits(q0)
    BY <1>1, <1>2
  <2>2. pc[q0] \in {"removeLock", "assign", "delete"}
    BY <1>4, <1>5, <2>1 DEF Waits
  <2>3. PICK a \in User : rowLock[a] \notin {None, q0}
    <3>1. CASE pc[q0] = "removeLock"
      <4>1. want[q0] # {} /\ ~Free(rowLock, First(q0), q0)
        BY <2>1, <3>1 DEF Waits
      <4>2. First(q0) \in User
        BY <1>0, <4>1, FirstIsSmallest DEF ReqTypes
      <4>3. QED
        BY <4>1, <4>2 DEF Free
    <3>2. CASE pc[q0] \in {"assign", "delete"}
      <4>1. ~Free(rowLock, target[q0], q0)
        BY <2>1, <3>2 DEF Waits
      <4>2. target[q0] \in User
        BY <1>0, <3>2, UserIds DEF AllArgs, ArgsOK
      <4>3. QED
        BY <4>1, <4>2 DEF Free
    <3>3. QED
        BY <2>2, <3>1, <3>2
  <2>4. PICK p \in Request : rowLock[a] = p
    BY <1>0, <2>3 DEF LockTypes
  <2> HIDE DEF W
  <2>5. QED
    BY <1>6, <2>4
<1>8. W \subseteq 0 .. MaxId
    BY UserIds
<1>9. PICK x \in W : \A y \in W : y <= x
  <2> HIDE DEF W
  <2>1. QED
    BY <1>7, <1>8, LargestId
<1>10. PICK q \in Request : Locking(q) /\ First(q) = x
    BY <1>9
<1>11. rowLock[x] \notin {None, q} /\ x \in User
    BY <1>1, <1>9, <1>10 DEF Waits, Free
<1>12. PICK p \in Request : rowLock[x] = p
    BY <1>0, <1>11 DEF LockTypes
<1> HIDE DEF W
<1>13. First(p) \in W /\ x < First(p)
    BY <1>6, <1>11, <1>12
<1>14. First(p) <= x
    BY <1>9, <1>13
<1>15. W \subseteq Nat
    BY <1>8
<1>16. x \in Nat /\ First(p) \in Nat
    BY <1>9, <1>13, <1>15
<1>17. QED
    BY <1>13, <1>14, <1>16

\* Requests wait for each other in a circle only when one of them is at the update
\* of tenant_remove_member: the advisory locks are taken company first and the rows
\* in the order of their ids, so some request can go on.
THEOREM NoCircleOfWaits == Spec => []SomeoneProceeds
<1>1. BaseInv => SomeoneProceeds
    BY NoCircle DEF SomeoneProceeds
<1>2. QED
    BY <1>1, BaseAlways, PTL

-----------------------------------------------------------------------------
(***************************************************************************)
(* The address: what SignupCheck and InviteClose find stays so until their *)
(* inserts, because nobody else holds the address.                         *)
(***************************************************************************)

Seat(a) == Live(a) /\ role[a] # "platform_admin"

\* What AddressTakenOnce says, and each address is promised once.
PromisedOnce ==
    \A i, j \in Invitation :
        Unaccepted(i) /\ Unaccepted(j) /\ inviteTo[i].email = inviteTo[j].email => i = j

\* What a request at its insert has found out, and still holds.
FoundBy(q) ==
    /\ pc[q] \in {"signupInsert", "inviteInsert"} => \A a \in User : Seat(a) => email[a] # addr[q]
    /\ pc[q] = "signupInsert" => \A i \in Invitation : Available(i) => inviteTo[i].email # addr[q]
    /\ pc[q] = "inviteInsert" => \A i \in Invitation : Unaccepted(i) => inviteTo[i].email # addr[q]

AddressInv == AddressTakenOnce /\ PromisedOnce /\ \A q \in Request : FoundBy(q)

\* Two requests do not hold the same address.
LEMMA OneHolder ==
    ASSUME BaseInv, NEW p \in Request, NEW q \in Request,
           pc[p] \in EmailHeld, pc[q] \in EmailHeld, addr[p] = addr[q]
    PROVE  p = q
BY DEF BaseInv, LocksOK, EmailLockOK

\* A step that adds no account with a seat and no invitation.
NothingNew ==
    /\ \A a \in User : Seat(a)' => Seat(a) /\ email'[a] = email[a]
    /\ \A i \in Invitation : Unaccepted(i)' => Unaccepted(i)
    /\ inviteTo' = inviteTo
    /\ expired \subseteq expired'

LEMMA NothingNewKeeps ==
    ASSUME AddressInv, NothingNew
    PROVE  AddressTakenOnce' /\ PromisedOnce'
BY DEF AddressInv, NothingNew, AddressTakenOnce, PromisedOnce, Seat, Available

\* Neither does it to what a request has found out.
LEMMA NothingNewFound ==
    ASSUME AddressInv, NothingNew, NEW p \in Request, pc'[p] = pc[p], addr'[p] = addr[p]
    PROVE  FoundBy(p)'
BY DEF AddressInv, NothingNew, FoundBy, Available

\* Which steps add nothing.
LEMMA QuietIsNothingNew ==
    ASSUME Quiet
    PROVE  NothingNew
BY DEF Quiet, NothingNew, Seat, Live, Unaccepted

LEMMA ChangesNothingNew ==
    ASSUME BaseInv, NEW q \in Request, Changes(q), ~(\E a \in Account : SignupInsert(q, a)),
           ~(\E i \in Invitation : InviteInsert(q, i))
    PROVE  NothingNew
<1>0. UserTypes /\ InviteTypes /\ ReqTypes
    BY Zenon DEF BaseInv
<1>1. ASSUME UNCHANGED <<invite, inviteTo, expired>>,
             \A a \in User : Seat(a)' => Seat(a) /\ email'[a] = email[a]
      PROVE  NothingNew
    BY <1>1 DEF NothingNew, Unaccepted
<1>2. ASSUME NEW b, Changeable(b), users' \subseteq users, UNCHANGED <<invite, inviteTo, expired>>,
             \A a \in User : a # b => role'[a] = role[a] /\ email'[a] = email[a],
             b \in users' => email'[b] = email[b]
      PROVE  NothingNew
  <2>1. ASSUME NEW a \in User, Seat(a)' PROVE Seat(a) /\ email'[a] = email[a]
    <3>1. CASE a = b
        BY <1>2, <2>1, <3>1 DEF Seat, Live, Changeable
    <3>2. CASE a # b
        BY <1>2, <2>1, <3>2 DEF Seat, Live
    <3>3. QED
        BY <3>1, <3>2
  <2>2. QED
    BY <1>1, <1>2, <2>1
<1>3. CASE SetAccountAccess(q)
  <2> DEFINE b == target[q]
  <2>1. /\ UNCHANGED <<users, email, invite, inviteTo, expired>>
        /\ role' = role \/ (Changeable(b) /\ role' = [role EXCEPT ![b] = grant[q]])
    BY <1>3, Zenon DEF SetAccountAccess
  <2> HIDE DEF b
  <2>2. CASE role' = role
    BY <1>1, <2>1, <2>2 DEF Seat, Live
  <2>3. CASE Changeable(b) /\ role' = [role EXCEPT ![b] = grant[q]]
    <3>1. \A a \in User : a # b => role'[a] = role[a] /\ email'[a] = email[a]
        BY <1>0, <2>1, <2>3 DEF UserTypes
    <3>2. QED
        BY <1>2, <2>1, <2>3, <3>1
  <2>4. QED
    BY <2>1, <2>2, <2>3
<1>4. CASE DeleteAccount(q)
  <2> DEFINE b == target[q]
  <2>1. /\ UNCHANGED <<invite, inviteTo, expired>>
        /\ \/ UNCHANGED <<users, email, role>>
           \/ /\ Changeable(b) /\ users' = users \ {b} /\ role' = [role EXCEPT ![b] = "member"]
              /\ email' = [email EXCEPT ![b] = None]
    BY <1>4, Zenon DEF DeleteAccount
  <2> HIDE DEF b
  <2>2. CASE UNCHANGED <<users, email, role>>
    BY <1>1, <2>1, <2>2 DEF Seat, Live
  <2>3. CASE /\ Changeable(b) /\ users' = users \ {b} /\ role' = [role EXCEPT ![b] = "member"]
             /\ email' = [email EXCEPT ![b] = None]
    <3>1. \A a \in User : a # b => role'[a] = role[a] /\ email'[a] = email[a]
        BY <1>0, <2>3 DEF UserTypes
    <3>2. users' \subseteq users /\ b \notin users'
        BY <2>3
    <3>3. QED
        BY <1>2, <2>1, <2>3, <3>1, <3>2
  <2>4. QED
    BY <2>1, <2>2, <2>3
<1>5. CASE RemoveMember(q)
  <2> DEFINE b == target[q]
  <2>1. /\ UNCHANGED <<users, email, invite, inviteTo, expired>>
        /\ role' = role \/ (Changeable(b) /\ role' = [role EXCEPT ![b] = "member"])
    BY <1>5, Zenon DEF RemoveMember
  <2> HIDE DEF b
  <2>2. CASE role' = role
    BY <1>1, <2>1, <2>2 DEF Seat, Live
  <2>3. CASE Changeable(b) /\ role' = [role EXCEPT ![b] = "member"]
    <3>1. \A a \in User : a # b => role'[a] = role[a] /\ email'[a] = email[a]
        BY <1>0, <2>1, <2>3 DEF UserTypes
    <3>2. QED
        BY <1>2, <2>1, <2>3, <3>1
  <2>4. QED
    BY <2>1, <2>2, <2>3
<1>6. CASE InviteClose(q)
  <2> DEFINE S == {i \in Invitation : Unaccepted(i) /\ i \in expired /\ inviteTo[i].email = addr[q]}
  <2>1. /\ UNCHANGED <<users, email, role, inviteTo, expired>>
        /\ invite' = invite \/ invite' = [i \in Invitation |-> IF i \in S THEN "accepted" ELSE invite[i]]
    BY <1>6, Zenon DEF InviteClose, userVars
  <2> HIDE DEF S
  <2>2. \A i \in Invitation : Unaccepted(i)' => Unaccepted(i)
    BY <2>1 DEF Unaccepted
  <2>3. QED
    BY <2>1, <2>2 DEF NothingNew, Seat, Live
<1>7. QED
    BY <1>3, <1>4, <1>5, <1>6, Zenon DEF Changes

LEMMA AsideNothingNew ==
    ASSUME BaseInv, Aside
    PROVE  NothingNew
<1>1. ASSUME NEW i \in Invitation, InvitationExpires(i) PROVE NothingNew
  <2>1. UNCHANGED <<users, email, role, invite, inviteTo>> /\ expired' = expired \cup {i}
    BY <1>1, Zenon DEF InvitationExpires, userVars
  <2>2. QED
    BY <2>1 DEF NothingNew, Seat, Live, Unaccepted
<1>2. ASSUME NEW e \in Email \cup {None}, CreateAdmin(e) PROVE NothingNew
  <2>1. /\ users' = users \cup {Root} /\ email' = [email EXCEPT ![Root] = e]
        /\ role' = [role EXCEPT ![Root] = "platform_admin"] /\ UNCHANGED <<invite, inviteTo, expired>>
    BY <1>2, Zenon DEF CreateAdmin, Insert
  <2>2. /\ role'[Root] = "platform_admin"
        /\ \A a \in User : a # Root => role'[a] = role[a] /\ email'[a] = email[a]
    BY <2>1 DEF BaseInv, UserTypes, User
  <2>3. QED
    BY <2>1, <2>2 DEF NothingNew, Seat, Live, Unaccepted
<1>3. QED
    BY <1>1, <1>2, Zenon DEF Aside

\* A new account with a seat, under the lock of its address: nobody else has found
\* out anything about the address.
LEMMA NewSeat ==
    ASSUME BaseInv, AddressInv, NEW q \in Request, NEW a \in User, NEW r, pc[q] \in EmailHeld,
           Others(q), a \notin users, r # "platform_admin",
           users' = users \cup {a}, email' = [email EXCEPT ![a] = addr[q]], role' = [role EXCEPT ![a] = r],
           inviteTo' = inviteTo, expired' = expired,
           \A i \in Invitation : Unaccepted(i)' => Unaccepted(i),
           \A i \in Invitation : Available(i)' => inviteTo[i].email # addr[q]
    PROVE  AddressTakenOnce' /\ PromisedOnce' /\ \A p \in Request : p # q => FoundBy(p)'
<1>1. /\ email'[a] = addr[q]
      /\ \A b \in User : b # a => role'[b] = role[b] /\ email'[b] = email[b]
    BY DEF BaseInv, UserTypes
<1>2. \A b \in User : b # a => (Seat(b)' => Seat(b) /\ email'[b] = email[b])
    BY <1>1 DEF Seat, Live
<1>3. AddressTakenOnce'
  <2> SUFFICES ASSUME NEW b \in User, NEW i \in Invitation, Live(b)', role'[b] # "platform_admin", Available(i)'
               PROVE  inviteTo'[i].email # email'[b]
    BY DEF AddressTakenOnce
  <2>1. CASE b = a
    BY <1>1, <2>1
  <2>2. CASE b # a
    <3>1. Live(b) /\ role[b] # "platform_admin" /\ email'[b] = email[b]
        BY <1>1, <2>2 DEF Live
    <3>2. Available(i)
        BY DEF Available
    <3>3. QED
        BY <3>1, <3>2 DEF AddressInv, AddressTakenOnce
  <2>3. QED
    BY <2>1, <2>2
<1>4. PromisedOnce'
    BY DEF AddressInv, PromisedOnce
<1>5. ASSUME NEW p \in Request, p # q PROVE FoundBy(p)'
  <2>1. pc'[p] = pc[p] /\ addr'[p] = addr[p] /\ FoundBy(p)
    BY <1>5 DEF Others, SameArgs, AddressInv
  <2>2. ASSUME pc[p] \in {"signupInsert", "inviteInsert"}, NEW b \in User, Seat(b)'
        PROVE  email'[b] # addr[p]
    <3>1. addr[p] # addr[q]
        BY <1>5, <2>2, OneHolder DEF EmailHeld
    <3>2. CASE b = a
        BY <1>1, <3>1, <3>2
    <3>3. CASE b # a
        BY <1>2, <2>1, <2>2, <3>3 DEF FoundBy
    <3>4. QED
        BY <3>2, <3>3
  <2>3. QED
    BY <2>1, <2>2 DEF FoundBy, Available
<1>6. QED
    BY <1>3, <1>4, <1>5

\* A new invitation, under the lock of its address.
LEMMA NewInvitation ==
    ASSUME BaseInv, AddressInv, NEW q \in Request, NEW i \in Invitation, pc[q] = "inviteInsert",
           Others(q), invite[i] = "new", invite' = [invite EXCEPT ![i] = "pending"],
           NEW v, v.email = addr[q], inviteTo' = [inviteTo EXCEPT ![i] = v],
           UNCHANGED <<users, email, role, expired>>
    PROVE  AddressTakenOnce' /\ PromisedOnce' /\ \A p \in Request : p # q => FoundBy(p)'
<1>1. /\ inviteTo'[i].email = addr[q]
      /\ \A j \in Invitation : j # i => inviteTo'[j] = inviteTo[j] /\ invite'[j] = invite[j]
    BY DEF BaseInv, InviteTypes
<1>2. /\ \A j \in Invitation : Unaccepted(j) => inviteTo[j].email # addr[q]
      /\ \A a \in User : Seat(a) => email[a] # addr[q]
    BY DEF AddressInv, FoundBy
<1>3. AddressTakenOnce'
  <2> SUFFICES ASSUME NEW b \in User, NEW j \in Invitation, Live(b)', role'[b] # "platform_admin", Available(j)'
               PROVE  inviteTo'[j].email # email'[b]
    BY DEF AddressTakenOnce
  <2>1. Seat(b) /\ Live(b) /\ role[b] # "platform_admin" /\ email'[b] = email[b]
    BY DEF Seat, Live
  <2>2. CASE j = i
    BY <1>1, <1>2, <2>1, <2>2
  <2>3. CASE j # i
    <3>1. Available(j) /\ inviteTo'[j] = inviteTo[j]
        BY <1>1, <2>3 DEF Available, Unaccepted
    <3>2. QED
        BY <2>1, <3>1 DEF AddressInv, AddressTakenOnce
  <2>4. QED
    BY <2>2, <2>3
<1>4. PromisedOnce'
  <2> SUFFICES ASSUME NEW j \in Invitation, NEW k \in Invitation, Unaccepted(j)', Unaccepted(k)',
                      inviteTo'[j].email = inviteTo'[k].email
               PROVE  j = k
    BY DEF PromisedOnce
  <2>1. CASE j # i /\ k # i
    BY <1>1, <2>1 DEF AddressInv, PromisedOnce, Unaccepted
  <2>2. CASE j = i /\ k # i
    BY <1>1, <1>2, <2>2 DEF Unaccepted
  <2>3. CASE j # i /\ k = i
    BY <1>1, <1>2, <2>3 DEF Unaccepted
  <2>4. QED
    BY <2>1, <2>2, <2>3
<1>5. ASSUME NEW p \in Request, p # q PROVE FoundBy(p)'
  <2>1. pc'[p] = pc[p] /\ addr'[p] = addr[p] /\ FoundBy(p)
    BY <1>5 DEF Others, SameArgs, AddressInv
  <2>2. ASSUME pc[p] \in {"signupInsert", "inviteInsert"}, NEW j \in Invitation,
               pc[p] = "signupInsert" => Available(j)', pc[p] = "inviteInsert" => Unaccepted(j)'
        PROVE  inviteTo'[j].email # addr[p]
    <3>1. addr[p] # addr[q]
        BY <1>5, <2>2, OneHolder DEF EmailHeld
    <3>2. CASE j = i
        BY <1>1, <3>1, <3>2
    <3>3. CASE j # i
        BY <1>1, <2>1, <2>2, <3>3 DEF FoundBy, Available, Unaccepted
    <3>4. QED
        BY <3>2, <3>3
  <2>3. \A a \in User : Seat(a)' => Seat(a) /\ email'[a] = email[a]
    BY DEF Seat, Live
  <2>4. QED
    BY <2>1, <2>2, <2>3 DEF FoundBy
<1>6. QED
    BY <1>3, <1>4, <1>5

\* The request itself, when it comes to its insert.
LEMMA FoundByItself ==
    ASSUME BaseInv, NEW q \in Request, Step(q), Acts(q)
    PROVE  FoundBy(q)'
<1>1. CASE pc'[q] \notin {"signupInsert", "inviteInsert"}
    BY <1>1 DEF FoundBy
<1>2. CASE pc'[q] = "signupInsert"
  <2>1. pc[q] = "signupCheck" /\ addr'[q] = addr[q]
    <3>1. ~Enters(q) /\ ~Answers(q) /\ ~TakesEmail(q) /\ ~TakesTenant(q) /\ ~TakesRow(q)
        BY <1>2 DEF Enters, Answers, TakesEmail, TakesTenant, TakesRow
    <3>2. Moves(q)
        BY <3>1, Zenon DEF Acts
    <3>3. QED
        BY <1>2, <3>2 DEF Moves, SameArgs
  <2>2. SignupCheck(q) \/ DeadlockDetected(q)
    BY <2>1 DEF Step, LockEmail, LockTenant, SignupInsert, SignupFails, RegisterTenant, SetAccountAccess, DeleteAccount,
            RemoveStart, RemoveLock, RemoveCheck, RemoveMember, InviteCheck, InviteClose, InviteInsert, AcceptInvitation
  <2>3. ~DeadlockDetected(q)
    BY <2>1 DEF DeadlockDetected, Waits
  <2>4. ~Answer(q)
    BY <1>2 DEF Answer, BaseInv, ReqTypes
  <2>5. /\ \A i \in Invitation : Available(i) => inviteTo[i].email # addr[q]
        /\ ~Registered(addr[q])
        /\ UNCHANGED <<users, email, invite, inviteTo, expired>>
    BY <2>2, <2>3, <2>4, Zenon DEF SignupCheck, userVars
  <2>6. \A a \in User : Seat(a)' => email'[a] # addr[q]
    BY <2>5 DEF Seat, Registered, Live
  <2>7. QED
    BY <1>2, <2>1, <2>5, <2>6 DEF FoundBy, Available, Unaccepted
<1>3. CASE pc'[q] = "inviteInsert"
  <2>1. pc[q] = "inviteClose" /\ addr'[q] = addr[q]
    <3>1. ~Enters(q) /\ ~Answers(q) /\ ~TakesEmail(q) /\ ~TakesTenant(q) /\ ~TakesRow(q)
        BY <1>3 DEF Enters, Answers, TakesEmail, TakesTenant, TakesRow
    <3>2. Moves(q)
        BY <3>1, Zenon DEF Acts
    <3>3. QED
        BY <1>3, <3>2 DEF Moves, SameArgs
  <2>2. InviteClose(q) \/ DeadlockDetected(q)
    BY <2>1 DEF Step, LockEmail, LockTenant, SignupInsert, SignupFails, RegisterTenant, SetAccountAccess, DeleteAccount,
            RemoveStart, RemoveLock, RemoveCheck, RemoveMember, InviteCheck, SignupCheck, InviteInsert, AcceptInvitation
  <2>3. ~DeadlockDetected(q)
    BY <2>1 DEF DeadlockDetected, Waits
  <2>4. ~Answer(q)
    BY <1>3 DEF Answer, BaseInv, ReqTypes
  <2> DEFINE S == {i \in Invitation : Unaccepted(i) /\ i \in expired /\ inviteTo[i].email = addr[q]}
             closed == [i \in Invitation |-> IF i \in S THEN "accepted" ELSE invite[i]]
  <2>5. /\ ~Registered(addr[q])
        /\ \A i \in Invitation : closed[i] = "pending" => inviteTo[i].email # addr[q]
        /\ invite' = closed
        /\ UNCHANGED <<users, email, inviteTo>>
    BY <2>2, <2>3, <2>4, Zenon DEF InviteClose, userVars
  <2> HIDE DEF closed
  <2>6. \A a \in User : Seat(a)' => email'[a] # addr[q]
    BY <2>5 DEF Seat, Registered, Live
  <2>7. QED
    BY <1>3, <2>1, <2>5, <2>6 DEF FoundBy, Unaccepted
<1>4. QED
    BY <1>1, <1>2, <1>3

LEMMA AddressStep ==
    ASSUME BaseInv, AddressInv, Next
    PROVE  AddressInv'
<1>0. UserTypes /\ InviteTypes /\ ReqTypes /\ LockTypes /\ InvitesOK /\ AllArgs
    BY Zenon DEF BaseInv
<1>1. ASSUME NEW q \in Request, Others(q), FoundBy(q)', NothingNew PROVE AddressInv'
  <2>1. \A p \in Request : p # q => pc'[p] = pc[p] /\ addr'[p] = addr[p]
    BY <1>1, Zenon DEF Others, SameArgs
  <2>2. \A p \in Request : FoundBy(p)'
    BY <1>1, <2>1, NothingNewFound
  <2>3. QED
    BY <1>1, <2>2, NothingNewKeeps DEF AddressInv
<1>2. ASSUME NEW q \in Request, Start(q), Enters(q), Quiet PROVE AddressInv'
  <2>1. FoundBy(q)' /\ Others(q)
    BY <1>2 DEF Enters, FoundBy
  <2>2. QED
    BY <1>1, <1>2, <2>1, QuietIsNothingNew
<1>3. ASSUME UNCHANGED <<lockVars, reqVars>>, Aside \/ Quiet PROVE AddressInv'
  <2>1. NothingNew
    BY <1>3, AsideNothingNew, QuietIsNothingNew
  <2>2. pc' = pc /\ addr' = addr
    BY <1>3, Zenon DEF reqVars
  <2>3. \A p \in Request : FoundBy(p)'
    BY <2>1, <2>2, NothingNewFound
  <2>4. QED
    BY <2>1, <2>3, NothingNewKeeps DEF AddressInv
<1>4. ASSUME NEW q \in Request, Step(q), Acts(q), Changes(q) \/ Quiet PROVE AddressInv'
  <2>1. FoundBy(q)'
    BY <1>4, FoundByItself
  <2>2. Others(q)
    BY <1>4, Zenon DEF Acts, Enters, Moves, Answers, TakesEmail, TakesTenant, TakesRow
  <2> DEFINE Rest == AddressTakenOnce' /\ PromisedOnce' /\ \A p \in Request : p # q => FoundBy(p)'
  <2>3. ASSUME Rest PROVE AddressInv'
    BY <2>1, <2>3 DEF AddressInv
  <2>4. ASSUME NEW a \in Account, SignupInsert(q, a) PROVE Rest
    <3>1. /\ pc[q] = "signupInsert" /\ a \notin users /\ UNCHANGED <<invite, inviteTo, expired>>
          /\ users' = users \cup {a} /\ email' = [email EXCEPT ![a] = addr[q]]
          /\ role' = [role EXCEPT ![a] = "member"]
        BY <2>4, Zenon DEF SignupInsert, Insert, Fresh
    <3>2. \A i \in Invitation : Unaccepted(i)' => Unaccepted(i)
        BY <3>1 DEF Unaccepted
    <3>3. \A i \in Invitation : Available(i)' => inviteTo[i].email # addr[q]
        BY <3>1 DEF AddressInv, FoundBy, Available, Unaccepted
    <3>4. a \in User /\ pc[q] \in EmailHeld /\ "member" # "platform_admin"
        BY <3>1, UserIds DEF EmailHeld
    <3>5. QED
        BY <2>2, <3>1, <3>2, <3>3, <3>4, NewSeat
  <2>6. ASSUME NEW i \in Invitation, InviteInsert(q, i) PROVE Rest
    <3> DEFINE v == [tenant |-> ten[q], email |-> addr[q], role |-> grant[q]]
    <3>1. /\ pc[q] = "inviteInsert" /\ invite[i] = "new" /\ invite' = [invite EXCEPT ![i] = "pending"]
          /\ inviteTo' = [inviteTo EXCEPT ![i] = v] /\ UNCHANGED <<users, email, role, expired>>
        BY <2>6, Zenon DEF InviteInsert, userVars
    <3>2. v.email = addr[q]
        OBVIOUS
    <3> HIDE DEF v
    <3>3. QED
        BY <2>2, <3>1, <3>2, NewInvitation
  <2> HIDE DEF Rest
  <2>7. CASE NothingNew
    BY <1>1, <2>1, <2>2, <2>7
  <2>8. QED
    BY <1>4, <2>3, <2>4, <2>6, <2>7, ChangesNothingNew, QuietIsNothingNew
<1>5. QED
    BY <1>0, <1>2, <1>3, <1>4, NextKind

\* Both theorems below: the address stays as SignupCheck and InviteClose found it.
LEMMA AddressAlways == Spec => []AddressInv
<1>1. Init => AddressInv
    BY DEF Init, AddressInv, AddressTakenOnce, PromisedOnce, FoundBy, Live, Available, Unaccepted
<1>2. BaseInv /\ AddressInv /\ [Next]_vars => AddressInv'
  <2>1. ASSUME AddressInv, UNCHANGED vars PROVE AddressInv'
    BY <2>1 DEF AddressInv, AddressTakenOnce, PromisedOnce, FoundBy, Live, Seat, Available, Unaccepted, vars
  <2>2. QED
    BY <2>1, AddressStep
<1>3. QED
    BY <1>1, <1>2, BaseAlways, PTL DEF Spec

\* An address with a self-service or company account has no invitation that can
\* still be accepted, however many signups and invitations of it run at once:
\* signup_create_account and onboarding_invite_member look and write under one
\* lock of the address.
THEOREM AddressesTakenOnce == Spec => []AddressTakenOnce
<1>1. AddressInv => AddressTakenOnce
    BY DEF AddressInv
<1>2. QED
    BY <1>1, AddressAlways, PTL

\* What a signup or an invitation has read about its address is still so when it
\* inserts, with any number of requests and invitations, expired ones included: the
\* advisory lock of the address lasts from the check to the end of the transaction
\* (signup_create_account, onboarding_invite_member).
THEOREM ChecksStillHold == Spec => []CheckStillHolds
<1>1. BaseInv /\ AddressInv => CheckStillHolds
  <2> SUFFICES ASSUME BaseInv, AddressInv PROVE CheckStillHolds
    OBVIOUS
  <2>1. \A a \in users : a \in User /\ (role[a] # "platform_admin" => Seat(a))
    BY DEF BaseInv, UserTypes, Seat, Live
  <2>2. \A q \in Request : FoundBy(q)
    BY DEF AddressInv
  <2>3. QED
    BY <2>1, <2>2 DEF FoundBy, CheckStillHolds
<1>2. QED
    BY <1>1, AddressAlways, BaseAlways, PTL

-----------------------------------------------------------------------------
(***************************************************************************)
(* Companies keep an administrator: an administrator who removes somebody  *)
(* has its own row locked from the check to the update, so nobody removes  *)
(* it meanwhile.                                                           *)
(***************************************************************************)

\* Between the FOR UPDATE and the end of the check.
Reading == {"removeLock", "removeCheck"}

GuardedBy(q) ==
    /\ pc[q] \in Reading /\ IsAdmin(actor[q], ten[q]) /\ ten[q] \notin disturbed =>
         rowLock[actor[q]] = q \/ (pc[q] = "removeLock" /\ actor[q] \in want[q])
    /\ pc[q] = "removeAct" /\ ten[q] \notin disturbed =>
         rowLock[actor[q]] = q /\ IsAdmin(actor[q], ten[q])

AdminInv == CompanyKeepsAdmin /\ \A q \in Request : GuardedBy(q)

\* What a step other than the removal of a member may do to administrators.
AdminsStay ==
    /\ disturbed \subseteq disturbed'
    /\ \A x \in User, t \in Tenant : IsAdmin(x, t) /\ t \notin disturbed' => IsAdmin(x, t)'
    /\ \A t \in hadAdmin' : t \in hadAdmin \/ HasAdmin(t)'
    /\ \A p \in Request, x \in User, t \in Tenant :
          pc[p] \in Reading /\ actor[p] = x /\ ten[p] = t /\ t \notin disturbed' /\ IsAdmin(x, t)' => IsAdmin(x, t)

LEMMA AdminArgs ==
    ASSUME BaseInv, NEW p \in Request, pc[p] \in Reading \cup {"removeAct"}
    PROVE  actor[p] \in User /\ target[p] \in User /\ actor[p] # target[p] /\ ten[p] \in Tenant
BY UserIds DEF BaseInv, AllArgs, ArgsOK, Reading, RemovePCs

\* A request that stands still keeps its guard.
LEMMA GuardKept ==
    ASSUME BaseInv, NEW p \in Request, GuardedBy(p), pc'[p] = pc[p], SameArgs(p), want'[p] = want[p],
           \A x \in User : rowLock[x] = p => rowLock'[x] = p,
           disturbed \subseteq disturbed',
           \A x \in User, t \in Tenant :
              pc[p] \in Reading /\ actor[p] = x /\ ten[p] = t /\ t \notin disturbed' /\ IsAdmin(x, t)' => IsAdmin(x, t),
           \A x \in User, t \in Tenant :
              pc[p] = "removeAct" /\ actor[p] = x /\ ten[p] = t /\ t \notin disturbed' /\ IsAdmin(x, t) /\ rowLock[x] = p
              => IsAdmin(x, t)'
    PROVE  GuardedBy(p)'
<1>1. actor'[p] = actor[p] /\ ten'[p] = ten[p]
    BY DEF SameArgs
<1>2. CASE pc[p] \notin Reading \cup {"removeAct"}
    BY <1>2 DEF GuardedBy
<1>3. CASE pc[p] \in Reading \cup {"removeAct"}
  <2>1. PICK x \in User, t \in Tenant : actor[p] = x /\ ten[p] = t
    BY <1>3, AdminArgs
  <2>2. ASSUME pc[p] \in Reading, IsAdmin(x, t)', t \notin disturbed'
        PROVE  rowLock'[x] = p \/ (pc[p] = "removeLock" /\ x \in want[p])
    <3>1. IsAdmin(x, t) /\ t \notin disturbed
        BY <2>1, <2>2
    <3>2. QED
        BY <2>1, <2>2, <3>1 DEF GuardedBy
  <2>3. ASSUME pc[p] = "removeAct", t \notin disturbed' PROVE rowLock'[x] = p /\ IsAdmin(x, t)'
    <3>1. rowLock[x] = p /\ IsAdmin(x, t)
        BY <2>1, <2>3 DEF GuardedBy
    <3>2. QED
        BY <2>1, <2>3, <3>1
  <2>4. QED
    BY <1>1, <2>1, <2>2, <2>3 DEF GuardedBy, IsAdmin, Live
<1>4. QED
    BY <1>2, <1>3

LEMMA AdminsStayKeeps ==
    ASSUME BaseInv, CompanyKeepsAdmin, AdminsStay
    PROVE  CompanyKeepsAdmin'
<1> SUFFICES ASSUME NEW t \in hadAdmin', t \notin disturbed' PROVE HasAdmin(t)'
    BY DEF CompanyKeepsAdmin
<1>1. CASE HasAdmin(t)'
    BY <1>1
<1>2. CASE t \in hadAdmin
  <2>1. PICK x \in User : IsAdmin(x, t)
    BY <1>2 DEF AdminsStay, CompanyKeepsAdmin, HasAdmin
  <2>2. t \in Tenant
    BY <1>2 DEF BaseInv, OtherTypes
  <2>3. IsAdmin(x, t)'
    BY <2>1, <2>2 DEF AdminsStay
  <2>4. QED
    BY <2>3 DEF HasAdmin
<1>3. QED
    BY <1>1, <1>2 DEF AdminsStay

\* The locks of the others stay.
LEMMA RowsKept ==
    ASSUME LockTypes, NEW q \in Request, Acts(q), NEW p \in Request, p # q, NEW x \in User, rowLock[x] = p
    PROVE  rowLock'[x] = p
<1>1. CASE rowLock' = rowLock
    BY <1>1
<1>2. CASE Answers(q)
    BY <1>2 DEF Answers
<1>3. CASE TakesRow(q)
  <2>1. PICK a \in want[q] : rowLock[a] \in {None, q} /\ (rowLock' = [rowLock EXCEPT ![a] = q] \/ rowLock' = rowLock)
    BY <1>3, Zenon DEF TakesRow
  <2>2. a # x
    BY <2>1
  <2>3. QED
    BY <2>1, <2>2 DEF LockTypes
<1>4. QED
    BY <1>1, <1>2, <1>3, Zenon DEF Acts, Enters, Moves, TakesEmail, TakesTenant, lockVars

\* A step that leaves users alone.
LEMMA SameUsersStay ==
    ASSUME UNCHANGED <<users, tenantOf, role, hadAdmin, disturbed>>
    PROVE  AdminsStay
<1>1. \A x, t : IsAdmin(x, t)' <=> IsAdmin(x, t)
    BY DEF IsAdmin, Live
<1>2. QED
    BY <1>1 DEF AdminsStay

\* A new account.
LEMMA InsertStays ==
    ASSUME BaseInv, NEW a \in User, NEW e, NEW t, NEW r, Insert(a, e, t, r), a \notin users,
           disturbed' = disturbed,
           r = "platform_admin" \/ \A p \in Request : a # actor[p]
    PROVE  AdminsStay
<1>1. /\ users' = users \cup {a} /\ tenantOf' = [tenantOf EXCEPT ![a] = t] /\ role' = [role EXCEPT ![a] = r]
      /\ hadAdmin' = IF r = "tenant_admin" THEN hadAdmin \cup {t} ELSE hadAdmin
    BY Zenon DEF Insert
<1>2. /\ tenantOf'[a] = t /\ role'[a] = r
      /\ \A b \in User : b # a => tenantOf'[b] = tenantOf[b] /\ role'[b] = role[b]
    BY <1>1 DEF BaseInv, UserTypes
<1>3. \A x \in User : \A u : x # a => (IsAdmin(x, u)' <=> IsAdmin(x, u))
    BY <1>1, <1>2 DEF IsAdmin, Live
<1>4. \A u : ~IsAdmin(a, u)
    BY DEF IsAdmin, Live
<1>5. r = "tenant_admin" => IsAdmin(a, t)'
    BY <1>1, <1>2 DEF IsAdmin, Live
<1>6. r = "platform_admin" => \A u : ~IsAdmin(a, u)'
    BY <1>2 DEF IsAdmin
<1>7. \A u \in hadAdmin' : u \in hadAdmin \/ HasAdmin(u)'
    BY <1>1, <1>5 DEF HasAdmin
<1>8. ASSUME NEW p \in Request, NEW x \in User, NEW u, actor[p] = x, IsAdmin(x, u)' PROVE IsAdmin(x, u)
  <2>1. x # a
    BY <1>6, <1>8
  <2>2. QED
    BY <1>3, <1>8, <2>1
<1>9. QED
    BY <1>3, <1>4, <1>7, <1>8 DEF AdminsStay

\* The platform changes a seat or deletes an account.
LEMMA PlatformStays ==
    ASSUME BaseInv, NEW b \in User, b \in users, NEW t, NEW r,
           tenantOf' = [tenantOf EXCEPT ![b] = t], role' = [role EXCEPT ![b] = r],
           \/ users' = users
           \/ users' = users \ {b} /\ r = "member",
           disturbed' = Disturbs(b, t, r),
           hadAdmin' = IF r = "tenant_admin" THEN hadAdmin \cup {t} ELSE hadAdmin
    PROVE  AdminsStay
<1>1. /\ tenantOf'[b] = t /\ role'[b] = r
      /\ \A x \in User : x # b => tenantOf'[x] = tenantOf[x] /\ role'[x] = role[x]
    BY DEF BaseInv, UserTypes
<1>2. \A x \in User : \A u : x # b => (IsAdmin(x, u)' <=> IsAdmin(x, u))
    BY <1>1 DEF IsAdmin, Live
<1>3. r = "tenant_admin" => IsAdmin(b, t)'
    BY <1>1 DEF IsAdmin, Live
<1>4. \A u : IsAdmin(b, u)' => r = "tenant_admin" /\ u = t
    BY <1>1 DEF IsAdmin
<1>5. disturbed \subseteq disturbed'
    BY DEF Disturbs
<1>6. ASSUME NEW u, IsAdmin(b, u), u \notin disturbed' PROVE IsAdmin(b, u)'
  <2>1. role[b] = "tenant_admin" /\ tenantOf[b] = u
    BY <1>6 DEF IsAdmin
  <2>2. r = "tenant_admin" /\ t = u
    BY <1>6, <2>1 DEF Disturbs
  <2>3. QED
    BY <1>3, <2>2
<1>7. \A u \in hadAdmin' : u \in hadAdmin \/ HasAdmin(u)'
    BY <1>3 DEF HasAdmin
<1>8. ASSUME NEW p \in Request, NEW x \in User, NEW u, pc[p] \in Reading, actor[p] = x, ten[p] = u,
             u \notin disturbed', IsAdmin(x, u)'
      PROVE  IsAdmin(x, u)
  <2>1. CASE x # b
    BY <1>2, <1>8, <2>1
  <2>2. CASE x = b
    <3>1. r = "tenant_admin" /\ u = t
        BY <1>4, <1>8, <2>2
    <3>2. u \in Disturbs(b, t, r)
        BY <1>8, <2>2, <3>1 DEF Disturbs, Reading
    <3>3. QED
        BY <1>8, <3>2
  <2>3. QED
    BY <2>1, <2>2
<1>9. QED
    BY <1>2, <1>5, <1>6, <1>7, <1>8 DEF AdminsStay

\* The removal of a member: its actor stays administrator.
LEMMA MemberRemoved ==
    ASSUME BaseInv, AdminInv, NEW q \in Request, RemoveMember(q), Acts(q)
    PROVE  CompanyKeepsAdmin' /\ \A p \in Request : p # q => GuardedBy(p)'
<1>0. pc[q] = "removeAct"
    BY Zenon DEF RemoveMember
<1>1. PICK b \in User : b = target[q] /\ actor[q] \in User /\ actor[q] # b /\ ten[q] \in Tenant
    BY <1>0, AdminArgs
<1>2. /\ rowLock[b] \in {None, q} /\ UNCHANGED <<users, hadAdmin, disturbed>>
      /\ \/ UNCHANGED <<tenantOf, role>>
         \/ /\ Seated(b, ten[q]) /\ tenantOf' = [tenantOf EXCEPT ![b] = None]
            /\ role' = [role EXCEPT ![b] = "member"]
    BY <1>1 DEF RemoveMember, Free
<1>3. ten[q] \notin disturbed => IsAdmin(actor[q], ten[q])
    BY <1>0 DEF AdminInv, GuardedBy
<1>4. \A x \in User : \A t : x # b => (IsAdmin(x, t)' <=> IsAdmin(x, t))
    BY <1>2 DEF IsAdmin, Live, BaseInv, UserTypes
<1>5. \A t : IsAdmin(b, t)' => IsAdmin(b, t)
    BY <1>1, <1>2 DEF IsAdmin, Live, BaseInv, UserTypes
<1>6. \A t : IsAdmin(b, t) => t = ten[q] \/ IsAdmin(b, t)'
    BY <1>2 DEF IsAdmin, Live, Seated
<1>7. CompanyKeepsAdmin'
  <2> SUFFICES ASSUME NEW t \in hadAdmin, t \notin disturbed PROVE HasAdmin(t)'
    BY <1>2 DEF CompanyKeepsAdmin
  <2>1. PICK x \in User : IsAdmin(x, t)
    BY DEF AdminInv, CompanyKeepsAdmin, HasAdmin
  <2>2. \E y \in User : IsAdmin(y, t)'
    <3>1. CASE x # b
        BY <1>4, <2>1, <3>1
    <3>2. CASE x = b /\ t # ten[q]
        BY <1>6, <2>1, <3>2
    <3>3. CASE t = ten[q]
      <4>1. PICK y \in User : y = actor[q] /\ y # b
        BY <1>1
      <4>2. IsAdmin(y, t)
        BY <1>3, <3>3, <4>1
      <4>3. QED
        BY <1>4, <4>1, <4>2
    <3>4. QED
        BY <3>1, <3>2, <3>3
  <2>3. QED
    BY <2>2 DEF HasAdmin
<1>8. ASSUME NEW p \in Request, p # q PROVE GuardedBy(p)'
  <2>1. pc'[p] = pc[p] /\ SameArgs(p) /\ want'[p] = want[p]
    BY <1>8, Zenon DEF Acts, Enters, Moves, Answers, TakesEmail, TakesTenant, TakesRow, Others
  <2>2. \A x \in User : rowLock[x] = p => rowLock'[x] = p
    BY <1>8, RowsKept DEF BaseInv
  <2>3. \A x \in User : \A t : IsAdmin(x, t)' => IsAdmin(x, t)
    BY <1>4, <1>5
  <2>4. ASSUME NEW x \in User, NEW t, IsAdmin(x, t), rowLock[x] = p PROVE IsAdmin(x, t)'
    <3>1. x # b
        BY <1>2, <1>8, <2>4
    <3>2. QED
        BY <1>4, <2>4, <3>1
  <2>5. GuardedBy(p) /\ disturbed \subseteq disturbed'
    BY <1>2 DEF AdminInv
  <2>6. QED
    BY <2>1, <2>2, <2>3, <2>4, <2>5, GuardKept
<1>9. QED
    BY <1>7, <1>8

\* The request itself on its way to the update.
LEMMA GuardOfItself ==
    ASSUME BaseInv, AdminInv, NEW q \in Request, Step(q), Acts(q)
    PROVE  GuardedBy(q)'
<1>0. ReqTypes /\ LockTypes /\ GuardedBy(q)
    BY DEF BaseInv, AdminInv
<1>1. CASE pc'[q] \notin Reading \cup {"removeAct"}
    BY <1>1 DEF GuardedBy
<1>2. CASE pc'[q] \in Reading \cup {"removeAct"}
  <2>1. pc[q] \in {"removeStart", "removeLock", "removeCheck"} /\ SameArgs(q)
    <3>1. ~Enters(q) /\ ~Answers(q) /\ ~TakesEmail(q) /\ ~TakesTenant(q)
        BY <1>2 DEF Enters, Answers, TakesEmail, TakesTenant, Reading
    <3>2. CASE Moves(q)
        BY <1>2, <3>2 DEF Moves, Reading
    <3>3. CASE TakesRow(q)
        BY <3>3, Zenon DEF TakesRow
    <3>4. QED
        BY <3>1, <3>2, <3>3, Zenon DEF Acts
  <2>2. ~Answer(q)
    BY <1>0, <1>2 DEF Answer, ReqTypes, Reading
  <2>3. RemoveStart(q) \/ RemoveLock(q) \/ RemoveCheck(q)
    BY <2>1, <2>2 DEF Step, LockEmail, LockTenant, SignupCheck, SignupInsert, SignupFails, RegisterTenant,
            SetAccountAccess, DeleteAccount, RemoveMember, InviteCheck, InviteClose, InviteInsert, AcceptInvitation, DeadlockDetected
  <2>4. PICK x \in User, t \in Tenant : actor[q] = x /\ ten[q] = t /\ x # target[q]
    BY <2>1 DEF BaseInv, AllArgs, ArgsOK, RemovePCs
  <2>5. actor'[q] = x /\ ten'[q] = t
    BY <2>1, <2>4 DEF SameArgs
  <2>6. UNCHANGED <<users, tenantOf, role, disturbed>>
    BY <2>3, Zenon DEF RemoveStart, RemoveLock, RemoveCheck, userVars
  <2>7. IsAdmin(x, t)' <=> IsAdmin(x, t)
    BY <2>6 DEF IsAdmin, Live
  <2> DEFINE Guarded == rowLock'[x] = q \/ (pc'[q] = "removeLock" /\ x \in want'[q])
  <2>8. ASSUME pc'[q] \in Reading, IsAdmin(x, t) /\ t \notin disturbed => Guarded PROVE GuardedBy(q)'
    BY <2>5, <2>6, <2>7, <2>8 DEF GuardedBy, Reading, IsAdmin, Live
  <2>9. CASE RemoveStart(q)
    <3>1. /\ want' = [want EXCEPT ![q] = {a \in {actor[q], target[q]} : Seated(a, ten[q])}]
          /\ pc' = [pc EXCEPT ![q] = "removeLock"]
        BY <2>9, Zenon DEF RemoveStart, Goto
    <3>2. pc'[q] = "removeLock" /\ want'[q] = {a \in {actor[q], target[q]} : Seated(a, ten[q])}
        BY <1>0, <3>1 DEF ReqTypes
    <3>3. IsAdmin(x, t) => x \in want'[q]
        BY <2>4, <3>2 DEF IsAdmin, Seated
    <3>4. QED
        BY <2>8, <3>2, <3>3 DEF Reading
  <2>10. CASE RemoveLock(q) /\ want[q] = {}
    <3>1. pc[q] = "removeLock" /\ pc' = [pc EXCEPT ![q] = "removeCheck"] /\ rowLock' = rowLock
        BY <2>10, Zenon DEF RemoveLock, Goto
    <3>2. pc'[q] = "removeCheck"
        BY <1>0, <3>1 DEF ReqTypes
    <3>3. IsAdmin(x, t) /\ t \notin disturbed => rowLock[x] = q
        BY <1>0, <2>4, <2>10, <3>1 DEF GuardedBy, Reading
    <3>4. QED
        BY <2>8, <3>1, <3>2, <3>3 DEF Reading
  <2>11. CASE RemoveLock(q) /\ want[q] # {}
    <3> DEFINE a == First(q)
    <3>1. /\ pc[q] = "removeLock" /\ pc' = pc /\ want' = [want EXCEPT ![q] = want[q] \ {a}]
          /\ rowLock' = IF Live(a) THEN [rowLock EXCEPT ![a] = q] ELSE rowLock
        BY <2>11, Zenon DEF RemoveLock
    <3> HIDE DEF a
    <3>2. want'[q] = want[q] \ {a} /\ pc'[q] = "removeLock"
        BY <1>0, <3>1 DEF ReqTypes
    <3>3. ASSUME IsAdmin(x, t), t \notin disturbed PROVE Guarded
      <4>1. rowLock[x] = q \/ x \in want[q]
        BY <1>0, <2>4, <3>1, <3>3 DEF GuardedBy, Reading
      <4>2. CASE x = a
        BY <1>0, <3>1, <3>3, <4>2 DEF IsAdmin, LockTypes
      <4>3. CASE x # a
        BY <1>0, <3>1, <3>2, <4>1, <4>3 DEF LockTypes
      <4>4. QED
        BY <4>2, <4>3
    <3>4. QED
        BY <2>8, <3>2, <3>3 DEF Reading
  <2>12. CASE RemoveCheck(q)
    <3>1. /\ pc[q] = "removeCheck" /\ IsAdmin(actor[q], ten[q]) /\ pc' = [pc EXCEPT ![q] = "removeAct"]
          /\ rowLock' = rowLock
        BY <2>2, <2>12, Zenon DEF RemoveCheck, Goto, lockVars
    <3>2. pc'[q] = "removeAct" /\ IsAdmin(x, t)
        BY <1>0, <2>4, <3>1 DEF ReqTypes
    <3>3. t \notin disturbed => rowLock[x] = q
        BY <1>0, <2>4, <3>1, <3>2 DEF GuardedBy, Reading
    <3>4. QED
        BY <2>5, <2>6, <2>7, <3>1, <3>2, <3>3 DEF GuardedBy, Reading, IsAdmin, Live
  <2>13. QED
    BY <2>3, <2>9, <2>10, <2>11, <2>12
<1>3. QED
    BY <1>1, <1>2

\* Every change but the removal of a member leaves administrators, or is noted.
LEMMA ChangesStay ==
    ASSUME BaseInv, NEW q \in Request, Changes(q), ~RemoveMember(q)
    PROVE  AdminsStay
<1>0. UserTypes /\ ReqTypes /\ AllArgs
    BY Zenon DEF BaseInv
<1>1. ASSUME NEW a \in Account, SignupInsert(q, a) PROVE AdminsStay
  <2>1. /\ \E e, t, r : Insert(a, e, t, r)
        /\ a \notin users /\ disturbed' = disturbed /\ \A p \in Request : a \notin {actor[p], target[p]}
    BY <1>1, Zenon DEF SignupInsert, Fresh
  <2>2. a \in User /\ \A p \in Request : a # actor[p]
    BY <2>1, UserIds
  <2>3. QED
    BY <2>1, <2>2, InsertStays
<1>2. CASE SetAccountAccess(q)
  <2> DEFINE b == target[q]
  <2>1. /\ pc[q] = "assign" /\ users' = users
        /\ \/ UNCHANGED <<users, tenantOf, role, hadAdmin, disturbed>>
           \/ /\ Changeable(b) /\ tenantOf' = [tenantOf EXCEPT ![b] = ten[q]]
              /\ role' = [role EXCEPT ![b] = grant[q]]
              /\ hadAdmin' = IF grant[q] = "tenant_admin" THEN hadAdmin \cup {ten[q]} ELSE hadAdmin
              /\ disturbed' = Disturbs(b, ten[q], grant[q])
    BY <1>2, Zenon DEF SetAccountAccess
  <2>2. b \in User
    BY <1>0, <2>1, UserIds DEF AllArgs, ArgsOK
  <2>3. Changeable(b) => b \in users
    BY DEF Changeable, Live
  <2> HIDE DEF b
  <2>4. QED
    BY <2>1, <2>2, <2>3, SameUsersStay, PlatformStays
<1>3. CASE DeleteAccount(q)
  <2> DEFINE b == target[q]
  <2>1. /\ pc[q] = "delete" /\ hadAdmin' = hadAdmin
        /\ \/ UNCHANGED <<users, tenantOf, role, hadAdmin, disturbed>>
           \/ /\ Changeable(b) /\ users' = users \ {b} /\ tenantOf' = [tenantOf EXCEPT ![b] = None]
              /\ role' = [role EXCEPT ![b] = "member"]
              /\ disturbed' = Disturbs(b, None, "member")
    BY <1>3, Zenon DEF DeleteAccount
  <2>2. b \in User
    BY <1>0, <2>1, UserIds DEF AllArgs, ArgsOK
  <2>3. Changeable(b) => b \in users
    BY DEF Changeable, Live
  <2>4. "member" # "tenant_admin"
    OBVIOUS
  <2> HIDE DEF b
  <2>5. CASE UNCHANGED <<users, tenantOf, role, hadAdmin, disturbed>>
    BY <2>5, SameUsersStay
  <2>6. CASE /\ Changeable(b) /\ users' = users \ {b} /\ tenantOf' = [tenantOf EXCEPT ![b] = None]
             /\ role' = [role EXCEPT ![b] = "member"]
             /\ disturbed' = Disturbs(b, None, "member")
    BY <2>1, <2>2, <2>3, <2>4, <2>6, PlatformStays
  <2>7. QED
    BY <2>1, <2>5, <2>6
<1>4. ASSUME InviteClose(q) \/ \E i \in Invitation : InviteInsert(q, i) PROVE AdminsStay
  <2>1. UNCHANGED <<users, tenantOf, role, hadAdmin, disturbed>>
    BY <1>4, Zenon DEF InviteClose, InviteInsert, userVars
  <2>2. QED
    BY <2>1, SameUsersStay
<1>5. QED
    BY <1>1, <1>2, <1>3, <1>4 DEF Changes

LEMMA AsideStays ==
    ASSUME BaseInv, Aside \/ Quiet
    PROVE  AdminsStay
<1>1. CASE Quiet
    BY <1>1, SameUsersStay DEF Quiet
<1>2. ASSUME NEW i \in Invitation, InvitationExpires(i) PROVE AdminsStay
    BY <1>2, SameUsersStay DEF InvitationExpires, userVars
<1>3. ASSUME NEW e \in Email \cup {None}, CreateAdmin(e) PROVE AdminsStay
  <2>1. Insert(Root, e, None, "platform_admin") /\ Root \notin users /\ disturbed' = disturbed
    BY <1>3, Zenon DEF CreateAdmin
  <2>2. Root \in User
    BY DEF User
  <2>3. QED
    BY <2>1, <2>2, InsertStays
<1>4. QED
    BY <1>1, <1>2, <1>3 DEF Aside

LEMMA AdminStep ==
    ASSUME BaseInv, AdminInv, Next
    PROVE  AdminInv'
<1>0. UserTypes /\ InviteTypes /\ ReqTypes /\ LockTypes /\ InvitesOK
    BY Zenon DEF BaseInv
<1>1. ASSUME AdminsStay, NEW p \in Request, pc'[p] = pc[p], SameArgs(p), want'[p] = want[p],
             \A x \in User : rowLock[x] = p => rowLock'[x] = p
      PROVE  GuardedBy(p)'
    BY <1>1, GuardKept DEF AdminsStay, AdminInv
<1>2. ASSUME NEW q \in Request, Acts(q), GuardedBy(q)', AdminsStay PROVE AdminInv'
  <2>1. \A p \in Request : p # q => pc'[p] = pc[p] /\ SameArgs(p) /\ want'[p] = want[p]
    BY <1>2, Zenon DEF Acts, Enters, Moves, Answers, TakesEmail, TakesTenant, TakesRow, Others
  <2>2. \A p \in Request, x \in User : p # q /\ rowLock[x] = p => rowLock'[x] = p
    BY <1>0, <1>2, RowsKept
  <2>3. \A p \in Request : GuardedBy(p)'
    BY <1>1, <1>2, <2>1, <2>2
  <2>4. CompanyKeepsAdmin'
    BY <1>2, AdminsStayKeeps DEF AdminInv
  <2>5. QED
    BY <2>3, <2>4 DEF AdminInv
<1>3. ASSUME NEW q \in Request, Enters(q), Quiet PROVE AdminInv'
  <2>1. GuardedBy(q)'
    BY <1>3 DEF Enters, GuardedBy, Reading
  <2>2. QED
    BY <1>2, <1>3, <2>1, AsideStays DEF Acts
<1>4. ASSUME NEW q \in Request, Step(q), Acts(q), Changes(q) \/ Quiet PROVE AdminInv'
  <2>1. GuardedBy(q)'
    BY <1>4, GuardOfItself
  <2>2. CASE RemoveMember(q)
    BY <1>4, <2>1, <2>2, MemberRemoved DEF AdminInv
  <2>3. CASE ~RemoveMember(q)
    BY <1>2, <1>4, <2>1, <2>3, ChangesStay, AsideStays
  <2>4. QED
    BY <2>2, <2>3
<1>5. ASSUME UNCHANGED <<lockVars, reqVars>>, Aside \/ Quiet PROVE AdminInv'
  <2>1. AdminsStay
    BY <1>5, AsideStays
  <2>2. rowLock' = rowLock /\ UNCHANGED <<pc, actor, target, ten, addr, grant, want>>
    BY <1>5, Zenon DEF lockVars, reqVars
  <2>3. \A p \in Request : GuardedBy(p)'
    BY <1>1, <2>1, <2>2 DEF SameArgs
  <2>4. CompanyKeepsAdmin'
    BY <2>1, AdminsStayKeeps DEF AdminInv
  <2>5. QED
    BY <2>3, <2>4 DEF AdminInv
<1>6. QED
    BY <1>0, <1>3, <1>4, <1>5, NextKind

\* A company that has lost its last administrator lost one to the platform
\* administrator, or got one back from it between the FOR UPDATE and the check of
\* that one's own removal of somebody: administrators who remove each other through
\* tenant_remove_member never empty the company, however many they are.
THEOREM CompaniesKeepAdmin == Spec => []CompanyKeepsAdmin
<1>1. Init => AdminInv
    BY DEF Init, AdminInv, CompanyKeepsAdmin, GuardedBy, Reading
<1>2. BaseInv /\ AdminInv /\ [Next]_vars => AdminInv'
  <2>1. ASSUME AdminInv, UNCHANGED vars PROVE AdminInv'
    BY <2>1 DEF AdminInv, CompanyKeepsAdmin, HasAdmin, IsAdmin, Live, GuardedBy, vars
  <2>2. QED
    BY <2>1, AdminStep
<1>3. AdminInv => CompanyKeepsAdmin
    BY DEF AdminInv
<1>4. QED
    BY <1>1, <1>2, <1>3, BaseAlways, PTL DEF Spec
=============================================================================
