------------------------------ MODULE Sessions ------------------------------
(***************************************************************************)
(* Who may do what, and for how long: the session of a user's browser and  *)
(* the administrative writes it authorises.                                *)
(*                                                                         *)
(* The callback of the Azure login signs two cookies: an access token with *)
(* the user's id and role as the login read them, and a refresh token with *)
(* the id alone.  The guards of the controllers look at the token and      *)
(* never at the user's row, so a role that is taken away goes on being     *)
(* accepted until the token expires; a refreshed token names no role at    *)
(* all.  GET auth/test-login, which nothing guards, signs an Admin's token *)
(* for whoever calls it, with no id in it; a query for what belongs to a   *)
(* missing id is one for everything.                                       *)
(*                                                                         *)
(* Tokens are signed with the secret in auth.module.ts and verified with   *)
(* JWT_SECRET: this is about deployments in which the two agree, without   *)
(* which no token is accepted.  Not about tokens, and left out, are the    *)
(* routes that ask for none: GET request/status, which lists the rows of   *)
(* everybody's requests, the listings of clusters (ClusterRequests), and   *)
(* GET request/:id, which looks for the number that an id is not and finds *)
(* no request.                                                             *)
(*                                                                         *)
(* A tick of the clock is the unit the lifetimes are counted in.  A login  *)
(* takes less than a tick.                                                 *)
(***************************************************************************)
EXTENDS Integers, FiniteSets

CONSTANTS
  Users,
  AccessLife,    \* ticks an access token lives (1 h)
  RefreshLife,   \* ticks a refresh token lives (7 d)
  AzureKinds,    \* the tables of Azure policies, to which rows can be added
  AwsKinds,      \* the tables of AWS policies
  PolicyValues,
  ClientIds,     \* of cloud secrets; unique in the table
  OwnerOf,       \* OwnerOf[q]: the owner of each request there is
  Unrequested,   \* resources without a request, such as those of clusters
  MaxLogins      \* bound: logins under way at a time

ASSUME LifeAssumption == AccessLife \in Nat \ {0} /\ RefreshLife \in Nat \ {0}
ASSUME NobodyAssumption == "nobody" \notin Users

Roles == {"Admin", "IT", "Developer"}
Staff == {"Admin", "IT"}

(* Where authority comes from: a role, or the route test-login.            *)
Sources == Staff \cup {"test"}

(* How long a source may matter; a session without an id can be refreshed. *)
Horizon(s) == IF s = "test" THEN AccessLife + RefreshLife ELSE AccessLife

PolicyKinds == AzureKinds \cup AwsKinds

VARIABLES
  role,      \* User.role, "none" without a row
  lookup,    \* the role a login under way has read; "absent" if there was no row
  access,    \* the access_token cookie: its role, whether it has an id, the ticks left
  refresh,   \* the refresh_token cookie: whether it has an id, the ticks left
  age,       \* history: ticks since the user last had the source, up to its horizon
  policies,  \* the distinct rows of each table of policies
  secrets    \* CloudResourceSecret: the owner of each client id

sessionVars == <<role, lookup, access, refresh, age, policies, secrets>>

Token == [role : Roles \cup {"none"}, id : BOOLEAN, left : 0 .. AccessLife]

RefreshToken == [id : BOOLEAN, left : 0 .. RefreshLife]

NoToken == [role |-> "none", id |-> TRUE, left |-> 0]

NoRefreshToken == [id |-> TRUE, left |-> 0]

SessionTypeOK ==
  /\ role \in [Users -> Roles \cup {"none"}]
  /\ lookup \in [Users -> Roles \cup {"idle", "absent"}]
  /\ access \in [Users -> Token]
  /\ refresh \in [Users -> RefreshToken]
  /\ age \in [Users -> [Sources -> Nat]]
  /\ \A u \in Users, s \in Sources : age[u][s] <= Horizon(s)
  /\ policies \in [PolicyKinds -> SUBSET PolicyValues]
  /\ secrets \in [ClientIds -> Users \cup {"nobody"}]

(* Seeded policies, and users of any roles, none of them logged in.        *)
SessionInit ==
  /\ role \in [Users -> Roles \cup {"none"}]
  /\ lookup = [u \in Users |-> "idle"]
  /\ access = [u \in Users |-> NoToken]
  /\ refresh = [u \in Users |-> NoRefreshToken]
  /\ age = [u \in Users |-> [s \in Sources |-> IF role[u] = s THEN 0 ELSE Horizon(s)]]
  /\ \E v \in PolicyValues : policies = [k \in PolicyKinds |-> {v}]
  /\ secrets = [c \in ClientIds |-> "nobody"]

(* jwt.verify accepts u's cookie; its payload names one of the roles.      *)
SignedIn(u) == access[u].left > 0

May(u, roles) == SignedIn(u) /\ access[u].role \in roles

(* Whether a query for what belongs to the id in u's token finds w's:      *)
(* Prisma leaves a condition on an undefined id out.                       *)
Matches(u, w) == w = u \/ ~access[u].id

(* The listings of requests and of resources, and a request by its code:   *)
(* what matches, or all for the staff.  A repository is listed by its      *)
(* request.                                                                *)
Own(u) == {q \in DOMAIN OwnerOf : OwnerOf[q] = u}

RequestsShown(u) ==
  {q \in DOMAIN OwnerOf : SignedIn(u) /\ (May(u, Staff) \/ Matches(u, OwnerOf[q]))}

RepositoriesShown(u) == RequestsShown(u)

ResourcesShown(u) == RequestsShown(u) \cup {x \in Unrequested : May(u, Staff)}

FindsRequest(u, q) == SignedIn(u) /\ (May(u, Staff) \/ Matches(u, OwnerOf[q]))

(* Giving a request its feedback, a text that nothing depends on.          *)
MayComment(u) == May(u, Staff)

SetRole(u, r) ==
  /\ role' = [role EXCEPT ![u] = r]
  /\ age' = [age EXCEPT ![u] = [s \in Sources |-> IF s = r THEN 0 ELSE @[s]]]

(* The strategy's validate: the user's row by e-mail, ...                  *)
LookUp(u) ==
  /\ lookup[u] = "idle"
  /\ Cardinality({w \in Users : lookup[w] # "idle"}) < MaxLogins
  /\ lookup' = [lookup EXCEPT ![u] = IF role[u] = "none" THEN "absent" ELSE role[u]]
  /\ UNCHANGED <<role, access, refresh, age, policies, secrets>>

(* ... created as a Developer if there is none; one that has been created  *)
(* in the meantime makes the login fail on the unique e-mail.              *)
CreateAtLogin(u) ==
  /\ lookup[u] = "absent"
  /\ IF role[u] = "none"
       THEN /\ SetRole(u, "Developer")
            /\ lookup' = [lookup EXCEPT ![u] = "Developer"]
       ELSE /\ lookup' = [lookup EXCEPT ![u] = "idle"]
            /\ UNCHANGED <<role, age>>
  /\ UNCHANGED <<access, refresh, policies, secrets>>

(* azureCallback: both cookies are set, the role being what was read.      *)
AzureCallback(u) ==
  /\ lookup[u] \in Roles
  /\ access' = [access EXCEPT ![u] = [role |-> lookup[u], id |-> TRUE, left |-> AccessLife]]
  /\ refresh' = [refresh EXCEPT ![u] = [id |-> TRUE, left |-> RefreshLife]]
  /\ lookup' = [lookup EXCEPT ![u] = "idle"]
  /\ UNCHANGED <<role, age, policies, secrets>>

(* testLogin: both cookies are set, for anyone, in the database or not.    *)
TestLogin(u) ==
  /\ access' = [access EXCEPT ![u] = [role |-> "Admin", id |-> FALSE, left |-> AccessLife]]
  /\ refresh' = [refresh EXCEPT ![u] = [id |-> FALSE, left |-> RefreshLife]]
  /\ age' = [age EXCEPT ![u] = [@ EXCEPT !["test"] = 0]]
  /\ UNCHANGED <<role, lookup, policies, secrets>>

(* Mutant of Refresh: the new token takes over the role of the old one.    *)
RefreshKeepsRole(u) ==
  /\ refresh[u].left > 0
  /\ access' = [access EXCEPT ![u] =
                 [role |-> access[u].role, id |-> refresh[u].id, left |-> AccessLife]]
  /\ UNCHANGED <<role, lookup, refresh, age, policies, secrets>>

(* POST auth/refresh: a token with the id alone, or without even that,     *)
(* whatever was in the old one; the refresh token stays as it is.          *)
Refresh(u) ==
  /\ refresh[u].left > 0
  /\ access' = [access EXCEPT ![u] =
                 [role |-> "none", id |-> refresh[u].id, left |-> AccessLife]]
  /\ UNCHANGED <<role, lookup, refresh, age, policies, secrets>>

Logout(u) ==
  /\ access' = [access EXCEPT ![u] = NoToken]
  /\ refresh' = [refresh EXCEPT ![u] = NoRefreshToken]
  /\ UNCHANGED <<role, lookup, age, policies, secrets>>

(* Tokens expire, and their cookies with them, whose maxAge is the same.   *)
Tick ==
  /\ \A u \in Users : lookup[u] = "idle"
  /\ access' = [u \in Users |-> IF access[u].left > 1
                                  THEN [access[u] EXCEPT !.left = @ - 1]
                                  ELSE NoToken]
  /\ refresh' = [u \in Users |-> IF refresh[u].left > 1
                                   THEN [refresh[u] EXCEPT !.left = @ - 1]
                                   ELSE NoRefreshToken]
  /\ age' = [u \in Users |-> [s \in Sources |->
               IF role[u] = s THEN 0
               ELSE IF age[u][s] < Horizon(s) THEN age[u][s] + 1 ELSE Horizon(s)]]
  /\ UNCHANGED <<role, lookup, policies, secrets>>

(* POST user: a row for an e-mail that has none.                           *)
CreateUser(u, r) ==
  /\ role[u] = "none"
  /\ SetRole(u, r)
  /\ UNCHANGED <<lookup, access, refresh, policies, secrets>>

(* PATCH user/role, for any user, oneself included.                        *)
UpdateRole(a, u, r) ==
  /\ May(a, Staff)
  /\ role[u] # "none"
  /\ SetRole(u, r)
  /\ UNCHANGED <<lookup, access, refresh, policies, secrets>>

(* create adds a row; updateMany overwrites every row of the table.        *)
AddRow(k, v) == policies' = [policies EXCEPT ![k] = @ \cup {v}]

UpdateMany(k, v) == policies' = [policies EXCEPT ![k] = {v}]

CreateAzurePolicy(u, k, v) ==
  /\ May(u, {"Admin"})
  /\ AddRow(k, v)
  /\ UNCHANGED <<role, lookup, access, refresh, age, secrets>>

UpdateAzurePolicy(u, k, v) ==
  /\ May(u, {"Admin"})
  /\ UpdateMany(k, v)
  /\ UNCHANGED <<role, lookup, access, refresh, age, secrets>>

UpdateAwsPolicy(u, k, v) ==
  /\ May(u, {"Admin"})
  /\ UpdateMany(k, v)
  /\ UNCHANGED <<role, lookup, access, refresh, age, secrets>>

(* findFirst without an order: any row may be the one that is shown.       *)
AzurePolicyShown(k) == policies[k]
AwsPolicyShown(k)   == policies[k]

(* Of the secrets that match, one is shown.                                *)
SecretsShown(u) ==
  {c \in ClientIds : SignedIn(u) /\ secrets[c] # "nobody" /\ Matches(u, secrets[c])}

SecretsOf(u) == {c \in ClientIds : secrets[c] = u}

(* Anyone signed in registers a secret of his own, for which his token     *)
(* must have an id; the client id is unique.                               *)
CreateSecret(u, c) ==
  /\ SignedIn(u) /\ access[u].id
  /\ secrets[c] = "nobody"
  /\ secrets' = [secrets EXCEPT ![c] = u]
  /\ UNCHANGED <<role, lookup, access, refresh, age, policies>>

(* Update and delete look for a row that matches.                          *)
MayEdit(u, c) == May(u, Staff) /\ c \in SecretsShown(u)

(* The update may change the client id, to one that is free.               *)
UpdateSecret(u, c, d) ==
  /\ MayEdit(u, c)
  /\ secrets[d] = "nobody"
  /\ secrets' = [secrets EXCEPT ![c] = "nobody", ![d] = secrets[c]]
  /\ UNCHANGED <<role, lookup, access, refresh, age, policies>>

DeleteSecret(u, c) ==
  /\ MayEdit(u, c)
  /\ secrets' = [secrets EXCEPT ![c] = "nobody"]
  /\ UNCHANGED <<role, lookup, access, refresh, age, policies>>

Login(u) == LookUp(u) \/ CreateAtLogin(u) \/ AzureCallback(u)

WritePolicies(u) ==
  \/ \E k \in AzureKinds, v \in PolicyValues :
       CreateAzurePolicy(u, k, v) \/ UpdateAzurePolicy(u, k, v)
  \/ \E k \in AwsKinds, v \in PolicyValues : UpdateAwsPolicy(u, k, v)

WriteSecrets(u) ==
  \/ \E c \in ClientIds : CreateSecret(u, c) \/ DeleteSecret(u, c)
  \/ \E c, d \in ClientIds : UpdateSecret(u, c, d)

Authenticate ==
  \/ \E u \in Users : Login(u) \/ TestLogin(u) \/ Refresh(u) \/ Logout(u)
  \/ \E u \in Users, r \in Roles : CreateUser(u, r)
  \/ \E a, u \in Users, r \in Roles : UpdateRole(a, u, r)
  \/ Tick

SessionNext == Authenticate \/ \E u \in Users : WritePolicies(u) \/ WriteSecrets(u)

SessionSpec == SessionInit /\ [][SessionNext]_sessionVars

----------------------------------------------------------------------------
(* u had one of the sources less than the life of an access token ago.     *)
HadRecently(u, sources) == \E s \in sources : age[u][s] < AccessLife

(* u called test-login, and may still be in a session that goes back to it.*)
MayLackId(u) == age[u]["test"] < Horizon("test")

(* Authority ends with the access token it was signed into, however often  *)
(* the session was refreshed since.  What the policy endpoints show, a     *)
(* user's role, and a secret somebody registered change only if somebody   *)
(* had the role it takes, or called test-login, less than the life of an   *)
(* access token ago, and a secret goes only by its owner's hand or that of *)
(* a caller of test-login; only with such a role, or after test-login,     *)
(* does one comment on what others asked for.  The routes that ask for a   *)
(* token show of it only to those, or for as long as a session without an  *)
(* id can be refreshed.                                                    *)
AuthorityIsRecent ==
  [][/\ \/ \E k \in AzureKinds : AzurePolicyShown(k)' # AzurePolicyShown(k)
        \/ \E k \in AwsKinds : AwsPolicyShown(k)' # AwsPolicyShown(k)
        => \E a \in Users : HadRecently(a, {"Admin", "test"})
     /\ \A u \in Users : role'[u] # role[u] /\ role[u] # "none" =>
          \E a \in Users : HadRecently(a, Sources)
     /\ \A u \in Users : ~(SecretsOf(u) \subseteq SecretsOf(u)') =>
          HadRecently(u, Staff) \/ \E a \in Users : HadRecently(a, {"test"})
     /\ \A u \in Users : MayComment(u) => HadRecently(u, Sources)
     /\ \A u \in Users : ~HadRecently(u, Staff) /\ ~MayLackId(u) =>
          /\ ResourcesShown(u) \cup RepositoriesShown(u) \subseteq Own(u)
          /\ \A q \in DOMAIN OwnerOf : FindsRequest(u, q) => q \in Own(u)
          /\ SecretsShown(u) \subseteq SecretsOf(u)]_sessionVars
=============================================================================
