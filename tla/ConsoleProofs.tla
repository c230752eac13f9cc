--------------------------- MODULE ConsoleProofs ---------------------------
(* Proofs about the parts of the API that answer a browser on their own:   *)
(* Sessions, ClusterRequests, RunLogs, GitlabSync with K8sDeploy,          *)
(* Dashboard and Catalogue. These have no variable in common.              *)
EXTENDS Sessions, ClusterRequests, RunLogs, K8sDeploy, Dashboard, Catalogue,
        FiniteSetTheorems, TLAPS

----------------------------------------------------------------------------
(* Sessions: its types, and that authority never outlives the access token *)
(* into which a login signed it.                                           *)

(* A horizon is a natural number, no shorter than an access token's life.  *)
LEMMA HorizonIsLong ==
  ASSUME NEW s \in Sources
  PROVE  Horizon(s) \in Nat /\ Horizon(s) >= AccessLife
BY LifeAssumption DEF Horizon

(* The types of the ages, apart from the rest of the state's.              *)
AgesOK(a) ==
  /\ a \in [Users -> [Sources -> Nat]]
  /\ \A u \in Users, s \in Sources : a[u][s] <= Horizon(s)

(* Giving a user a role leaves the types of the roles and of their ages.   *)
LEMMA SetRoleTyped ==
  ASSUME SessionTypeOK, NEW u \in Users, NEW r \in Roles, SetRole(u, r)
  PROVE  role' \in [Users -> Roles \cup {"none"}] /\ AgesOK(age')
<1>1. AgesOK(age)
  BY DEF SessionTypeOK, AgesOK
<1>2. \A s \in Sources : Horizon(s) \in Nat
  BY HorizonIsLong
<1>3. age' = [age EXCEPT ![u] = [s \in Sources |-> IF s = r THEN 0 ELSE age[u][s]]]
  BY DEF SetRole
<1>4. \A w \in Users, s \in Sources :
        age'[w][s] = IF w = u /\ s = r THEN 0 ELSE age[w][s]
  BY <1>1, <1>3 DEF AgesOK
<1>5. age' \in [Users -> [Sources -> Nat]]
  BY <1>1, <1>3 DEF AgesOK
<1>6. AgesOK(age')
  BY <1>1, <1>2, <1>4, <1>5 DEF AgesOK
<1> QED
  BY <1>6 DEF SetRole, SessionTypeOK

(* The types of a session, for any users, lifetimes, policies and secrets. *)
THEOREM SessionTypeCorrect == SessionSpec => []SessionTypeOK
<1> USE LifeAssumption
<1> DEFINE Typed ==
      /\ role \in [Users -> Roles \cup {"none"}]
      /\ lookup \in [Users -> Roles \cup {"idle", "absent"}]
      /\ access \in [Users -> Token]
      /\ refresh \in [Users -> RefreshToken]
      /\ AgesOK(age)
      /\ policies \in [PolicyKinds -> SUBSET PolicyValues]
      /\ secrets \in [ClientIds -> Users \cup {"nobody"}]
<1>1. SessionInit => Typed
  <2> SUFFICES ASSUME SessionInit PROVE Typed
    OBVIOUS
  <2>1. AgesOK(age)
    BY HorizonIsLong DEF SessionInit, AgesOK
  <2> QED
    BY <2>1 DEF SessionInit, Token, NoToken, RefreshToken, NoRefreshToken
<1>2. Typed /\ [SessionNext]_sessionVars => Typed'
  <2> SUFFICES ASSUME Typed, [SessionNext]_sessionVars PROVE Typed'
    OBVIOUS
  <2>0. SessionTypeOK
    BY DEF SessionTypeOK, AgesOK
  <2>1. ASSUME NEW u \in Users, LookUp(u) PROVE Typed'
    BY <2>1 DEF LookUp, Roles
  <2>2. ASSUME NEW u \in Users, CreateAtLogin(u) PROVE Typed'
    <3>1. CASE role[u] = "none"
      BY <2>0, <2>2, <3>1, SetRoleTyped DEF CreateAtLogin, Roles
    <3>2. CASE role[u] # "none"
      BY <2>2, <3>2 DEF CreateAtLogin
    <3> QED
      BY <3>1, <3>2
  <2>3. ASSUME NEW u \in Users, AzureCallback(u) PROVE Typed'
    BY <2>3 DEF AzureCallback, Token, RefreshToken
  <2>4. ASSUME NEW u \in Users, TestLogin(u) PROVE Typed'
    <3>1. AgesOK(age')
      <4>1. \A w \in Users, s \in Sources :
              age'[w][s] = IF w = u /\ s = "test" THEN 0 ELSE age[w][s]
        BY <2>4 DEF TestLogin, AgesOK
      <4>2. \A s \in Sources : Horizon(s) \in Nat
        BY HorizonIsLong
      <4>3. age' \in [Users -> [Sources -> Nat]]
        BY <2>4 DEF TestLogin, AgesOK
      <4>4. \A w \in Users, s \in Sources : age'[w][s] <= Horizon(s)
        BY <4>1, <4>2 DEF AgesOK
      <4> QED
        BY <4>3, <4>4 DEF AgesOK
    <3>2. access' \in [Users -> Token] /\ refresh' \in [Users -> RefreshToken]
      BY <2>4 DEF TestLogin, Token, RefreshToken, Roles
    <3> QED
      BY <2>4, <3>1, <3>2 DEF TestLogin
  <2>5. ASSUME NEW u \in Users, Refresh(u) PROVE Typed'
    BY <2>5 DEF Refresh, Token, RefreshToken
  <2>6. ASSUME NEW u \in Users, Logout(u) PROVE Typed'
    BY <2>6 DEF Logout, Token, RefreshToken, NoToken, NoRefreshToken
  <2>7. ASSUME Tick PROVE Typed'
    <3>1. access' \in [Users -> Token]
      <4>1. ASSUME NEW u \in Users
            PROVE  (IF access[u].left > 1 THEN [access[u] EXCEPT !.left = @ - 1] ELSE NoToken)
                     \in Token
        BY DEF Token, NoToken
      <4> QED
        BY <2>7, <4>1 DEF Tick
    <3>2. refresh' \in [Users -> RefreshToken]
      <4>1. ASSUME NEW u \in Users
            PROVE  (IF refresh[u].left > 1 THEN [refresh[u] EXCEPT !.left = @ - 1]
                    ELSE NoRefreshToken) \in RefreshToken
        BY DEF RefreshToken, NoRefreshToken
      <4> QED
        BY <2>7, <4>1 DEF Tick
    <3>3. AgesOK(age')
      <4> DEFINE A(u, s) == IF role[u] = s THEN 0
                            ELSE IF age[u][s] < Horizon(s) THEN age[u][s] + 1 ELSE Horizon(s)
      <4>1. \A s \in Sources : Horizon(s) \in Nat
        BY HorizonIsLong
      <4>2. \A u \in Users, s \in Sources : A(u, s) \in Nat /\ A(u, s) <= Horizon(s)
        BY <4>1 DEF AgesOK
      <4>3. age' = [u \in Users |-> [s \in Sources |-> A(u, s)]]
        BY <2>7 DEF Tick
      <4> HIDE DEF A
      <4>4. \A u \in Users, s \in Sources : age'[u][s] = A(u, s)
        BY <4>3
      <4>5. age' \in [Users -> [Sources -> Nat]]
        BY <4>2, <4>3
      <4> QED
        BY <4>2, <4>4, <4>5 DEF AgesOK
    <3> QED
      BY <2>7, <3>1, <3>2, <3>3 DEF Tick
  <2>8. ASSUME NEW u \in Users, NEW r \in Roles, CreateUser(u, r) PROVE Typed'
    BY <2>0, <2>8, SetRoleTyped DEF CreateUser
  <2>9. ASSUME NEW a \in Users, NEW u \in Users, NEW r \in Roles, UpdateRole(a, u, r)
        PROVE  Typed'
    BY <2>0, <2>9, SetRoleTyped DEF UpdateRole
  <2>10. ASSUME NEW u \in Users, WritePolicies(u) PROVE Typed'
    <3>1. ASSUME NEW k \in PolicyKinds, NEW v \in PolicyValues, AddRow(k, v) \/ UpdateMany(k, v)
          PROVE  policies' \in [PolicyKinds -> SUBSET PolicyValues]
      <4>1. CASE AddRow(k, v)
        BY <3>1, <4>1 DEF AddRow
      <4>2. CASE UpdateMany(k, v)
        BY <3>1, <4>2 DEF UpdateMany
      <4> QED
        BY <3>1, <4>1, <4>2
    <3>2. policies' \in [PolicyKinds -> SUBSET PolicyValues]
      BY <2>10, <3>1 DEF WritePolicies, CreateAzurePolicy, UpdateAzurePolicy,
                         UpdateAwsPolicy, PolicyKinds
    <3>3. UNCHANGED <<role, lookup, access, refresh, age, secrets>>
      BY <2>10 DEF WritePolicies, CreateAzurePolicy, UpdateAzurePolicy, UpdateAwsPolicy
    <3> QED
      BY <3>2, <3>3
  <2>11. ASSUME NEW u \in Users, WriteSecrets(u) PROVE Typed'
    <3>1. UNCHANGED <<role, lookup, access, refresh, age, policies>>
      BY <2>11 DEF WriteSecrets, CreateSecret, UpdateSecret, DeleteSecret
    <3>2. secrets' \in [ClientIds -> Users \cup {"nobody"}]
      BY <2>11 DEF WriteSecrets, CreateSecret, UpdateSecret, DeleteSecret
    <3> QED
      BY <3>1, <3>2
  <2>12. CASE UNCHANGED sessionVars
    BY <2>12 DEF sessionVars
  <2> QED
    BY <2>1, <2>2, <2>3, <2>4, <2>5, <2>6, <2>7, <2>8, <2>9, <2>10, <2>11, <2>12
    DEF SessionNext, Authenticate, Login
<1>3. Typed => SessionTypeOK
  BY DEF SessionTypeOK, AgesOK
<1> HIDE DEF Typed
<1> QED
  BY <1>1, <1>2, <1>3, PTL DEF SessionSpec

----------------------------------------------------------------------------
(* What a user's row, a login under way and an access token say of a role  *)
(* of the staff: the row, that he has it now; the login, that he had it    *)
(* since the last tick; the token, that he had it, or called test-login,   *)
(* when it was signed.                                                     *)
HasIt(u, r) == role[u] = r => age[u][r] = 0

HasReadIt(u, r) == lookup[u] = r => age[u][r] = 0

HadItWhenSigned(u, r) ==
  access[u].role = r /\ access[u].left > 0 =>
    age[u][IF access[u].id THEN r ELSE "test"] + access[u].left <= AccessLife

(* A token without an id goes back to a call of test-login, by way of a    *)
(* refresh token that is as old as the call.                               *)
IdLostAtTest(u) ==
  /\ refresh[u].left > 0 /\ ~refresh[u].id =>
       age[u]["test"] + refresh[u].left <= RefreshLife
  /\ access[u].left > 0 /\ ~access[u].id =>
       age[u]["test"] + access[u].left <= AccessLife + RefreshLife

Authority ==
  \A u \in Users :
    /\ \A r \in Staff : HasIt(u, r) /\ HasReadIt(u, r) /\ HadItWhenSigned(u, r)
    /\ IdLostAtTest(u)

(* The numbers of a session, for the arithmetic of the steps.              *)
LEMMA SessionNumbers ==
  ASSUME SessionTypeOK, NEW u \in Users
  PROVE  /\ \A s \in Sources : age[u][s] \in Nat /\ age[u][s] <= Horizon(s)
         /\ access[u].left \in 0 .. AccessLife /\ access[u].id \in BOOLEAN
         /\ refresh[u].left \in 0 .. RefreshLife /\ refresh[u].id \in BOOLEAN
BY DEF SessionTypeOK, Token, RefreshToken

(* A step that changes a role leaves or resets the age of each role.       *)
LEMMA RoleStepKeepsAuthority ==
  ASSUME SessionTypeOK, Authority,
         NEW w \in Users, NEW q \in Roles, SetRole(w, q),
         UNCHANGED <<access, refresh>>,
         \A u \in Users : lookup'[u] \in {lookup[u], "idle", "Developer"}
  PROVE  Authority'
<1> SUFFICES ASSUME NEW u \in Users
             PROVE  /\ \A r \in Staff :
                         (HasIt(u, r) /\ HasReadIt(u, r) /\ HadItWhenSigned(u, r))'
                    /\ IdLostAtTest(u)'
  BY DEF Authority
<1>1. \A s \in Sources : age'[u][s] = IF u = w /\ s = q THEN 0 ELSE age[u][s]
  BY DEF SetRole, SessionTypeOK
<1>2. role'[u] = IF u = w THEN q ELSE role[u]
  BY DEF SetRole, SessionTypeOK
<1>3. IdLostAtTest(u)'
  <2>1. age'[u]["test"] = age[u]["test"]
    BY <1>1 DEF Sources, Roles
  <2> QED
    BY <2>1 DEF Authority, IdLostAtTest
<1>4. ASSUME NEW r \in Staff
      PROVE  (HasIt(u, r) /\ HasReadIt(u, r) /\ HadItWhenSigned(u, r))'
  <2>1. HasIt(u, r) /\ HasReadIt(u, r) /\ HadItWhenSigned(u, r) /\ r \in Sources
    BY DEF Authority, Sources
  <2>2. HasIt(u, r)'
    BY <1>1, <1>2, <2>1 DEF HasIt
  <2>3. HasReadIt(u, r)'
    BY <1>1, <2>1 DEF HasReadIt, Staff
  <2>4. HadItWhenSigned(u, r)'
    <3> DEFINE s == IF access[u].id THEN r ELSE "test"
    <3>1. s \in Sources
      BY <2>1 DEF Sources
    <3>2. age[u][s] \in Nat /\ access[u].left \in 0 .. AccessLife
      BY <3>1, SessionNumbers
    <3>3. age'[u][s] = 0 \/ age'[u][s] = age[u][s]
      BY <1>1, <3>1
    <3>4. access[u].role = r /\ access[u].left > 0 => age[u][s] + access[u].left <= AccessLife
      BY <2>1 DEF HadItWhenSigned
    <3>5. access[u].role = r /\ access[u].left > 0 => age'[u][s] + access[u].left <= AccessLife
      BY <3>2, <3>3, <3>4, LifeAssumption
    <3> QED
      BY <3>5 DEF HadItWhenSigned
  <2> QED
    BY <2>2, <2>3, <2>4
<1> QED
  BY <1>3, <1>4

(* A tick takes from a token what it adds to the age of its source.        *)
LEMMA TickKeepsAuthority ==
  ASSUME SessionTypeOK, Authority, Tick
  PROVE  Authority'
<1> SUFFICES ASSUME NEW u \in Users
             PROVE  /\ \A r \in Staff :
                         (HasIt(u, r) /\ HasReadIt(u, r) /\ HadItWhenSigned(u, r))'
                    /\ IdLostAtTest(u)'
  BY DEF Authority
<1>1. \A s \in Sources :
        age'[u][s] = IF role[u] = s THEN 0
                     ELSE IF age[u][s] < Horizon(s) THEN age[u][s] + 1 ELSE Horizon(s)
  BY DEF Tick
<1>2. \A s \in Sources : age'[u][s] \in Nat /\ age'[u][s] <= age[u][s] + 1
  <2>1. \A s \in Sources : age[u][s] \in Nat /\ age[u][s] <= Horizon(s) /\ Horizon(s) \in Nat
    BY SessionNumbers, HorizonIsLong
  <2> QED
    BY <1>1, <2>1
<1>3. /\ access[u].left \in 0 .. AccessLife
      /\ refresh[u].left \in 0 .. RefreshLife
      /\ \A s \in Sources : age[u][s] \in Nat
  BY SessionNumbers
<1>4. \/ access'[u].left = 0
      \/ /\ access[u].left > 1
         /\ access'[u].left = access[u].left - 1
         /\ access'[u].role = access[u].role /\ access'[u].id = access[u].id
  BY DEF Tick, NoToken, SessionTypeOK, Token
<1>5. \/ refresh'[u].left = 0
      \/ /\ refresh[u].left > 1
         /\ refresh'[u].left = refresh[u].left - 1 /\ refresh'[u].id = refresh[u].id
  BY DEF Tick, NoRefreshToken, SessionTypeOK, RefreshToken
<1>6. IdLostAtTest(u)'
  <2>1. IdLostAtTest(u) /\ "test" \in Sources
    BY DEF Authority, Sources
  <2>2. age'[u]["test"] \in Nat /\ age'[u]["test"] <= age[u]["test"] + 1 /\ age[u]["test"] \in Nat
    BY <1>2, <1>3, <2>1
  <2>3. refresh'[u].left > 0 /\ ~refresh'[u].id => age'[u]["test"] + refresh'[u].left <= RefreshLife
    BY <1>3, <1>5, <2>1, <2>2, LifeAssumption DEF IdLostAtTest
  <2>4. access'[u].left > 0 /\ ~access'[u].id =>
          age'[u]["test"] + access'[u].left <= AccessLife + RefreshLife
    BY <1>3, <1>4, <2>1, <2>2, LifeAssumption DEF IdLostAtTest
  <2> QED
    BY <2>3, <2>4 DEF IdLostAtTest
<1>7. ASSUME NEW r \in Staff
      PROVE  (HasIt(u, r) /\ HasReadIt(u, r) /\ HadItWhenSigned(u, r))'
  <2>1. r \in Sources
    BY DEF Sources
  <2>2. HasIt(u, r)'
    BY <1>1, <2>1 DEF HasIt, Tick
  <2>3. HasReadIt(u, r)'
    BY DEF HasReadIt, Tick, Staff
  <2>4. HadItWhenSigned(u, r)'
    <3>1. CASE access'[u].left = 0
      BY <3>1 DEF HadItWhenSigned
    <3>2. CASE access'[u].left # 0
      <4> DEFINE s == IF access[u].id THEN r ELSE "test"
      <4>1. s \in Sources
        BY <2>1 DEF Sources
      <4>2. age'[u][s] \in Nat /\ age[u][s] \in Nat /\ age'[u][s] <= age[u][s] + 1
        BY <1>2, <1>3, <4>1
      <4>3. access[u].role = r /\ access[u].left > 0 => age[u][s] + access[u].left <= AccessLife
        BY DEF Authority, HadItWhenSigned
      <4> HIDE DEF s
      <4>4. access[u].role = r => age'[u][s] + access'[u].left <= AccessLife
        BY <1>3, <1>4, <3>2, <4>2, <4>3, LifeAssumption
      <4>5. access'[u].role = access[u].role /\ access'[u].id = access[u].id
        BY <1>4, <3>2
      <4> QED
        BY <4>4, <4>5 DEF HadItWhenSigned, s
    <3> QED
      BY <3>1, <3>2
  <2> QED
    BY <2>2, <2>3, <2>4
<1> QED
  BY <1>6, <1>7

(* Every step keeps what rows, logins and tokens say true.                 *)
LEMMA AuthorityInductive ==
  ASSUME SessionTypeOK, Authority, [SessionNext]_sessionVars
  PROVE  Authority'
<1> USE LifeAssumption
<1>0. ASSUME NEW w \in Users, NEW u \in Users, u # w,
             \/ LookUp(w) \/ AzureCallback(w) \/ TestLogin(w) \/ Refresh(w) \/ Logout(w)
      PROVE  /\ \A r \in Staff : (HasIt(u, r) /\ HasReadIt(u, r) /\ HadItWhenSigned(u, r))'
             /\ IdLostAtTest(u)'
  <2>1. /\ role'[u] = role[u] /\ lookup'[u] = lookup[u] /\ age'[u] = age[u]
        /\ access'[u] = access[u] /\ refresh'[u] = refresh[u]
    BY <1>0 DEF LookUp, AzureCallback, TestLogin, Refresh, Logout, SessionTypeOK
  <2> QED
    BY <2>1 DEF Authority, HasIt, HasReadIt, HadItWhenSigned, IdLostAtTest
<1>1. ASSUME NEW w \in Users, LookUp(w) PROVE Authority'
  BY <1>1 DEF LookUp, Authority, HasIt, HasReadIt, HadItWhenSigned, IdLostAtTest,
              SessionTypeOK, Staff
<1>2. ASSUME NEW w \in Users, CreateAtLogin(w) PROVE Authority'
  <2>1. /\ UNCHANGED <<access, refresh>>
        /\ \A u \in Users : lookup'[u] \in {lookup[u], "idle", "Developer"}
    BY <1>2 DEF CreateAtLogin, SessionTypeOK
  <2>2. CASE role[w] = "none"
    BY <1>2, <2>1, <2>2, RoleStepKeepsAuthority DEF CreateAtLogin, Roles
  <2>3. CASE role[w] # "none"
    BY <1>2, <2>1, <2>3
    DEF CreateAtLogin, Authority, HasIt, HasReadIt, HadItWhenSigned, IdLostAtTest, Staff
  <2> QED
    BY <2>2, <2>3
<1>3. ASSUME NEW w \in Users, AzureCallback(w) PROVE Authority'
  <2>1. UNCHANGED <<role, age>> /\ lookup'[w] = "idle"
    BY <1>3 DEF AzureCallback, SessionTypeOK
  <2>2. /\ access'[w] = [role |-> lookup[w], id |-> TRUE, left |-> AccessLife]
        /\ refresh'[w] = [id |-> TRUE, left |-> RefreshLife]
    BY <1>3 DEF AzureCallback, SessionTypeOK
  <2>3. ASSUME NEW r \in Staff
        PROVE  (HasIt(w, r) /\ HasReadIt(w, r) /\ HadItWhenSigned(w, r))'
    BY <2>1, <2>2 DEF Authority, HasIt, HasReadIt, HadItWhenSigned, Staff
  <2>4. IdLostAtTest(w)'
    BY <2>2 DEF IdLostAtTest
  <2> QED
    BY <1>0, <1>3, <2>3, <2>4 DEF Authority
<1>4. ASSUME NEW w \in Users, TestLogin(w) PROVE Authority'
  <2>1. UNCHANGED <<role, lookup>>
    BY <1>4 DEF TestLogin
  <2>2. /\ access'[w] = [role |-> "Admin", id |-> FALSE, left |-> AccessLife]
        /\ refresh'[w] = [id |-> FALSE, left |-> RefreshLife]
    BY <1>4 DEF TestLogin, SessionTypeOK
  <2>3. age'[w]["test"] = 0 /\ \A r \in Staff : age'[w][r] = age[w][r]
    BY <1>4 DEF TestLogin, SessionTypeOK, Sources, Staff
  <2>4. ASSUME NEW r \in Staff
        PROVE  (HasIt(w, r) /\ HasReadIt(w, r) /\ HadItWhenSigned(w, r))'
    BY <2>1, <2>2, <2>3 DEF Authority, HasIt, HasReadIt, HadItWhenSigned
  <2>5. IdLostAtTest(w)'
    BY <2>2, <2>3 DEF IdLostAtTest
  <2> QED
    BY <1>0, <1>4, <2>4, <2>5 DEF Authority
<1>5. ASSUME NEW w \in Users, Refresh(w) PROVE Authority'
  <2>1. UNCHANGED <<role, lookup, refresh, age>> /\ refresh[w].left > 0
    BY <1>5 DEF Refresh
  <2>2. access'[w] = [role |-> "none", id |-> refresh[w].id, left |-> AccessLife]
    BY <1>5 DEF Refresh, SessionTypeOK
  <2>3. ASSUME NEW r \in Staff
        PROVE  (HasIt(w, r) /\ HasReadIt(w, r) /\ HadItWhenSigned(w, r))'
    BY <2>1, <2>2 DEF Authority, HasIt, HasReadIt, HadItWhenSigned, Staff
  <2>4. IdLostAtTest(w)'
    <3>1. "test" \in Sources
      BY DEF Sources
    <3>2. age[w]["test"] \in Nat /\ refresh[w].left \in 0 .. RefreshLife
      BY <3>1, SessionNumbers
    <3>3. IdLostAtTest(w)
      BY DEF Authority
    <3> QED
      BY <2>1, <2>2, <3>2, <3>3 DEF IdLostAtTest
  <2> QED
    BY <1>0, <1>5, <2>3, <2>4 DEF Authority
<1>6. ASSUME NEW w \in Users, Logout(w) PROVE Authority'
  <2>1. UNCHANGED <<role, lookup, age>> /\ access'[w].left = 0 /\ refresh'[w].left = 0
    BY <1>6 DEF Logout, NoToken, NoRefreshToken, SessionTypeOK
  <2>2. /\ \A r \in Staff : (HasIt(w, r) /\ HasReadIt(w, r) /\ HadItWhenSigned(w, r))'
        /\ IdLostAtTest(w)'
    BY <2>1 DEF Authority, HasIt, HasReadIt, HadItWhenSigned, IdLostAtTest
  <2> QED
    BY <1>0, <1>6, <2>2 DEF Authority
<1>7. ASSUME Tick PROVE Authority'
  BY <1>7, TickKeepsAuthority
<1>8. ASSUME NEW w \in Users, NEW q \in Roles, CreateUser(w, q) PROVE Authority'
  BY <1>8, RoleStepKeepsAuthority DEF CreateUser
<1>9. ASSUME NEW a \in Users, NEW w \in Users, NEW q \in Roles, UpdateRole(a, w, q)
      PROVE  Authority'
  BY <1>9, RoleStepKeepsAuthority DEF UpdateRole
<1>10. ASSUME UNCHANGED <<role, lookup, access, refresh, age>> PROVE Authority'
  BY <1>10 DEF Authority, HasIt, HasReadIt, HadItWhenSigned, IdLostAtTest
<1>11. ASSUME NEW w \in Users, WritePolicies(w) \/ WriteSecrets(w) PROVE Authority'
  BY <1>10, <1>11 DEF WritePolicies, CreateAzurePolicy, UpdateAzurePolicy, UpdateAwsPolicy,
                      WriteSecrets, CreateSecret, UpdateSecret, DeleteSecret
<1>12. CASE UNCHANGED sessionVars
  BY <1>10, <1>12 DEF sessionVars
<1> QED
  BY <1>1, <1>2, <1>3, <1>4, <1>5, <1>6, <1>7, <1>8, <1>9, <1>11, <1>12
  DEF SessionNext, Authenticate, Login

(* A token that a guard accepts was signed less than its life ago, for one *)
(* who had the role it names, or who called test-login.                    *)
LEMMA AcceptedHadRecently ==
  ASSUME SessionTypeOK, Authority,
         NEW u \in Users, NEW roles \in SUBSET Staff, May(u, roles)
  PROVE  /\ HadRecently(u, roles \cup {"test"})
         /\ access[u].id => HadRecently(u, roles)
<1>1. PICK r \in roles : access[u].role = r /\ access[u].left > 0
  BY DEF May, SignedIn
<1> DEFINE s == IF access[u].id THEN r ELSE "test"
<1>2. s \in Sources
  BY DEF Sources
<1>3. age[u][s] \in Nat /\ access[u].left \in 0 .. AccessLife
  BY <1>2, SessionNumbers
<1>4. age[u][s] + access[u].left <= AccessLife
  BY <1>1 DEF Authority, HadItWhenSigned
<1>5. age[u][s] < AccessLife
  BY <1>1, <1>3, <1>4, LifeAssumption
<1> QED
  BY <1>5 DEF HadRecently

(* An accepted token without an id goes back to test-login.                *)
LEMMA WithoutIdCalledTest ==
  ASSUME SessionTypeOK, Authority, NEW u \in Users, SignedIn(u), ~access[u].id
  PROVE  MayLackId(u)
<1>1. age[u]["test"] \in Nat /\ access[u].left \in 0 .. AccessLife
  BY SessionNumbers DEF Sources
<1>2. access[u].left > 0 /\ age[u]["test"] + access[u].left <= AccessLife + RefreshLife
  BY DEF Authority, IdLostAtTest, SignedIn
<1> QED
  BY <1>1, <1>2, LifeAssumption DEF MayLackId, Horizon

(* A secret is lost to its owner by a write of the staff, and to another   *)
(* than the writer only if the writer's token has no id.                   *)
LEMMA SecretsAreGuarded ==
  ASSUME SessionTypeOK, NEW w \in Users, WriteSecrets(w),
         NEW u \in Users, ~(SecretsOf(u) \subseteq SecretsOf(u)')
  PROVE  May(w, Staff) /\ (w = u \/ ~access[w].id)
<1>1. PICK c \in ClientIds : secrets[c] = u /\ secrets'[c] # u
  BY DEF SecretsOf
<1>2. u # "nobody"
  BY NobodyAssumption
<1>3. ASSUME NEW d \in ClientIds, CreateSecret(w, d) PROVE FALSE
  BY <1>1, <1>2, <1>3 DEF CreateSecret, SessionTypeOK
<1>4. ASSUME NEW d \in ClientIds, DeleteSecret(w, d)
      PROVE  May(w, Staff) /\ (w = u \/ ~access[w].id)
  BY <1>1, <1>4 DEF DeleteSecret, MayEdit, SecretsShown, Matches, SessionTypeOK
<1>5. ASSUME NEW d \in ClientIds, NEW e \in ClientIds, UpdateSecret(w, d, e)
      PROVE  May(w, Staff) /\ (w = u \/ ~access[w].id)
  <2>1. c = d
    BY <1>1, <1>2, <1>5 DEF UpdateSecret, SessionTypeOK
  <2> QED
    BY <1>1, <1>5, <2>1 DEF UpdateSecret, MayEdit, SecretsShown, Matches
<1> QED
  BY <1>3, <1>4, <1>5 DEF WriteSecrets

(* What the policies show, roles and secrets change by those actions only  *)
(* that ask for a role first.                                              *)
LEMMA WritesAreGuarded ==
  ASSUME SessionTypeOK, [SessionNext]_sessionVars
  PROVE  /\ policies' # policies => \E a \in Users : May(a, {"Admin"})
         /\ \A u \in Users : role'[u] # role[u] /\ role[u] # "none" =>
              \E a \in Users : May(a, Staff)
         /\ \A u \in Users : ~(SecretsOf(u) \subseteq SecretsOf(u)') =>
              \E a \in Users : May(a, Staff) /\ (a = u \/ ~access[a].id)
<1> DEFINE Guarded ==
      /\ policies' # policies => \E a \in Users : May(a, {"Admin"})
      /\ \A u \in Users : role'[u] # role[u] /\ role[u] # "none" =>
           \E a \in Users : May(a, Staff)
      /\ \A u \in Users : ~(SecretsOf(u) \subseteq SecretsOf(u)') =>
           \E a \in Users : May(a, Staff) /\ (a = u \/ ~access[a].id)
<1>1. ASSUME NEW w \in Users, Login(w) \/ TestLogin(w) \/ Refresh(w) \/ Logout(w)
      PROVE  Guarded
  BY <1>1 DEF Login, LookUp, CreateAtLogin, AzureCallback, TestLogin, Refresh, Logout,
              SetRole, SecretsOf, SessionTypeOK
<1>2. ASSUME NEW w \in Users, NEW q \in Roles, CreateUser(w, q) PROVE Guarded
  BY <1>2 DEF CreateUser, SetRole, SecretsOf, SessionTypeOK
<1>3. ASSUME NEW a \in Users, NEW w \in Users, NEW q \in Roles, UpdateRole(a, w, q)
      PROVE  Guarded
  BY <1>3 DEF UpdateRole, SecretsOf
<1>4. ASSUME NEW w \in Users, WritePolicies(w) PROVE Guarded
  BY <1>4 DEF WritePolicies, CreateAzurePolicy, UpdateAzurePolicy, UpdateAwsPolicy, SecretsOf
<1>5. ASSUME NEW w \in Users, WriteSecrets(w) PROVE Guarded
  <2>1. UNCHANGED <<policies, role>>
    BY <1>5 DEF WriteSecrets, CreateSecret, UpdateSecret, DeleteSecret
  <2> QED
    BY <1>5, <2>1, SecretsAreGuarded
<1>6. ASSUME Tick \/ UNCHANGED sessionVars PROVE Guarded
  BY <1>6 DEF Tick, sessionVars, SecretsOf
<1> QED
  BY <1>1, <1>2, <1>3, <1>4, <1>5, <1>6 DEF SessionNext, Authenticate

(* However often a session is refreshed and whatever becomes of the user's *)
(* row, what he may do ends with the access token his login was given; and *)
(* what a session without an id shows, with its refresh token's last.      *)
THEOREM AuthorityExpires == SessionSpec => AuthorityIsRecent
<1> DEFINE
  Policies ==
    \/ \E k \in AzureKinds : AzurePolicyShown(k)' # AzurePolicyShown(k)
    \/ \E k \in AwsKinds : AwsPolicyShown(k)' # AwsPolicyShown(k)
    => \E a \in Users : HadRecently(a, {"Admin", "test"})
  RolesChange ==
    \A u \in Users : role'[u] # role[u] /\ role[u] # "none" =>
      \E a \in Users : HadRecently(a, Sources)
  SecretsGo ==
    \A u \in Users : ~(SecretsOf(u) \subseteq SecretsOf(u)') =>
      HadRecently(u, Staff) \/ \E a \in Users : HadRecently(a, {"test"})
  Comments == \A u \in Users : MayComment(u) => HadRecently(u, Sources)
  Shows(u) ==
    /\ ResourcesShown(u) \cup RepositoriesShown(u) \subseteq Own(u)
    /\ \A q \in DOMAIN OwnerOf : FindsRequest(u, q) => q \in Own(u)
    /\ SecretsShown(u) \subseteq SecretsOf(u)
<1>1. SessionInit => Authority
  BY LifeAssumption
  DEF SessionInit, Authority, HasIt, HasReadIt, HadItWhenSigned, IdLostAtTest, NoToken,
      NoRefreshToken, Staff, Sources
<1>2. SessionTypeOK /\ Authority /\ [SessionNext]_sessionVars => Authority'
  BY AuthorityInductive
<1>3. ASSUME SessionTypeOK, Authority, [SessionNext]_sessionVars
      PROVE  /\ Policies /\ RolesChange /\ SecretsGo /\ Comments
             /\ \A u \in Users : ~HadRecently(u, Staff) /\ ~MayLackId(u) => Shows(u)
  <2>1. \A u \in Users : May(u, Staff) => HadRecently(u, Sources)
    BY <1>3, AcceptedHadRecently DEF Sources
  <2>2. \A u \in Users : May(u, {"Admin"}) => HadRecently(u, {"Admin", "test"})
    <3>1. {"Admin"} \in SUBSET Staff /\ {"Admin"} \cup {"test"} = {"Admin", "test"}
      BY DEF Staff
    <3> QED
      BY <1>3, <3>1, AcceptedHadRecently
  <2>3. \A u \in Users : May(u, Staff) => HadRecently(u, Staff) \/ ~access[u].id
    BY <1>3, AcceptedHadRecently
  <2>4. \A u \in Users : May(u, Staff) /\ ~access[u].id => HadRecently(u, {"test"})
    <3> SUFFICES ASSUME NEW u \in Users, May(u, Staff), ~access[u].id
                 PROVE  HadRecently(u, {"test"})
      OBVIOUS
    <3>1. access[u].role \in Staff /\ access[u].left > 0
      BY DEF May, SignedIn
    <3>2. age[u]["test"] + access[u].left <= AccessLife
      BY <1>3, <3>1 DEF Authority, HadItWhenSigned
    <3>3. age[u]["test"] \in Nat /\ access[u].left \in 0 .. AccessLife
      BY <1>3, SessionNumbers DEF Sources
    <3> QED
      BY <3>1, <3>2, <3>3, LifeAssumption DEF HadRecently
  <2>5. Policies
    BY <1>3, <2>2, WritesAreGuarded DEF AzurePolicyShown, AwsPolicyShown
  <2>6. RolesChange
    BY <1>3, <2>1, WritesAreGuarded
  <2>7. SecretsGo
    BY <1>3, <2>3, <2>4, WritesAreGuarded
  <2>8. Comments
    BY <2>1 DEF MayComment
  <2>9. ASSUME NEW u \in Users, ~HadRecently(u, Staff), ~MayLackId(u)
        PROVE  Shows(u)
    <3>1. SignedIn(u) => access[u].id /\ ~May(u, Staff)
      BY <1>3, <2>3, <2>9, WithoutIdCalledTest
    <3>2. May(u, Staff) => SignedIn(u)
      BY DEF May
    <3> QED
      BY <3>1, <3>2 DEF ResourcesShown, RepositoriesShown, RequestsShown, FindsRequest,
                        SecretsShown, SecretsOf, Own, Matches
  <2> QED
    BY <2>5, <2>6, <2>7, <2>8, <2>9
<1> QED
  BY <1>1, <1>2, <1>3, SessionTypeCorrect, PTL DEF SessionSpec, AuthorityIsRecent

----------------------------------------------------------------------------
(* ClusterRequests.                                                        *)

(* A call that has begun moves from step to step and keeps what it was     *)
(* begun with.                                                             *)
LEMMA CallStep ==
  ASSUME ClusterTypeOK, NEW h \in Patches, NEW s \in PatchSteps,
         patch' = [patch EXCEPT ![h].step = s]
  PROVE  /\ patch' \in [Patches -> Patch]
         /\ patch'[h].step = s
         /\ \A g \in Patches \ {h} : patch'[g] = patch[g]
         /\ \A g \in Patches : /\ patch'[g].id = patch[g].id
                               /\ patch'[g].listing = patch[g].listing
                               /\ patch'[g].status = patch[g].status
                               /\ patch'[g].after = patch[g].after
<1>1. patch[h] \in Patch
  BY DEF ClusterTypeOK
<1>2. [patch[h] EXCEPT !.step = s] \in Patch
  BY <1>1 DEF Patch
<1>3. patch' = [patch EXCEPT ![h] = [patch[h] EXCEPT !.step = s]]
  BY DEF ClusterTypeOK
<1>4. patch'[h] = [patch[h] EXCEPT !.step = s]
  BY <1>3 DEF ClusterTypeOK
<1>5. /\ patch'[h].step = s /\ patch'[h].id = patch[h].id
      /\ patch'[h].listing = patch[h].listing
      /\ patch'[h].status = patch[h].status /\ patch'[h].after = patch[h].after
  BY <1>1, <1>4 DEF Patch
<1>6. \A g \in Patches \ {h} : patch'[g] = patch[g]
  BY <1>3 DEF ClusterTypeOK
<1> QED
  BY <1>2, <1>3, <1>5, <1>6 DEF ClusterTypeOK

(* The actions of a call, and where they may lead.                         *)
LEMMA CallSteps ==
  ASSUME NEW h \in Patches, UpdateClusterRequestStatus(h)
  PROVE  \E s \in PatchSteps : patch' = [patch EXCEPT ![h].step = s]
<1>1. CASE Find(h)
  BY <1>1 DEF Find, PatchSteps
<1>2. CASE WriteStatus(h)
  BY <1>2 DEF WriteStatus, PatchSteps
<1>3. CASE Trigger(h)
  BY <1>3 DEF Trigger, PatchSteps
<1>4. CASE FailPatch(h)
  BY <1>4 DEF FailPatch, PatchSteps
<1>5. ASSUME NEW hasRole \in BOOLEAN, DispatchCluster(h, hasRole)
      PROVE  \E s \in PatchSteps : patch' = [patch EXCEPT ![h].step = s]
  BY <1>5 DEF DispatchCluster, PatchSteps
<1> QED
  BY <1>1, <1>2, <1>3, <1>4, <1>5 DEF UpdateClusterRequestStatus

(* A creation that has begun keeps its cloud, and nothing is done to a     *)
(* cluster that is made.                                                   *)
LEMMA CreationStep ==
  ASSUME ClusterTypeOK, NEW c \in Clusters, CreateCluster(c)
  PROVE  /\ cluster' \in [Clusters -> Creation]
         /\ \A k \in Clusters \ {c} : cluster'[k] = cluster[k]
         /\ cluster'[c].status = cluster[c].status
         /\ cluster'[c].cloud \in ClusterClouds
         /\ cluster[c].step # "made"
<1>1. PICK s \in CreationSteps, p \in ClusterClouds :
        cluster' = [cluster EXCEPT ![c].step = s, ![c].cloud = p]
  BY DEF CreateCluster, CreationSteps
<1>2. cluster[c] \in Creation
  BY DEF ClusterTypeOK
<1>3. /\ [cluster[c] EXCEPT !.step = s, !.cloud = p] \in Creation
      /\ [cluster[c] EXCEPT !.step = s, !.cloud = p].status = cluster[c].status
      /\ [cluster[c] EXCEPT !.step = s, !.cloud = p].cloud = p
  BY <1>2 DEF Creation
<1>4. cluster' = [cluster EXCEPT ![c] = [cluster[c] EXCEPT !.step = s, !.cloud = p]]
  BY <1>1, <1>2 DEF ClusterTypeOK
<1>5. cluster[c].step # "made"
  BY DEF CreateCluster
<1> QED
  BY <1>3, <1>4, <1>5 DEF ClusterTypeOK

(* What the status of a cluster is written into.                           *)
LEMMA StatusStep ==
  ASSUME ClusterTypeOK, NEW c \in Clusters, NEW s \in ClusterStatuses,
         cluster' = [cluster EXCEPT ![c].status = s]
  PROVE  /\ cluster' \in [Clusters -> Creation]
         /\ \A k \in Clusters \ {c} : cluster'[k] = cluster[k]
         /\ cluster'[c].status = s
         /\ cluster'[c].step = cluster[c].step
         /\ cluster'[c].cloud = cluster[c].cloud
<1>1. cluster[c] \in Creation
  BY DEF ClusterTypeOK
<1>2. /\ [cluster[c] EXCEPT !.status = s] \in Creation
      /\ [cluster[c] EXCEPT !.status = s].status = s
      /\ [cluster[c] EXCEPT !.status = s].step = cluster[c].step
      /\ [cluster[c] EXCEPT !.status = s].cloud = cluster[c].cloud
  BY <1>1 DEF Creation
<1>3. cluster' = [cluster EXCEPT ![c] = [cluster[c] EXCEPT !.status = s]]
  BY DEF ClusterTypeOK
<1> QED
  BY <1>2, <1>3 DEF ClusterTypeOK

(* A call that has begun names a row, and the cluster it is of is made and *)
(* in a cloud.                                                             *)
NamesRow(h) ==
  patch[h].step # "idle" =>
    /\ patch[h].id \in Ids
    /\ cluster[Of(h)].step = "made"
    /\ cluster[Of(h)].cloud \in ClusterClouds

ClusterTyped ==
  /\ ClusterTypeOK
  /\ \A c \in Clusters : cluster[c].step # "idle" => cluster[c].cloud \in ClusterClouds
  /\ \A h \in Patches : NamesRow(h)

(* Whatever a listing shows is of a cluster that is made.                  *)
LEMMA ShownIsMade ==
  ASSUME NEW listing \in Listings, NEW id \in Shown(listing)
  PROVE  /\ id \in Ids
         /\ cluster[id.of].step = "made"
         /\ listing = "pending" => cluster[id.of].status = "Pending"
         /\ listing = "resources" => IsResource(id)
         /\ listing # "resources" => ~IsResource(id)
<1> USE DEF WithStatus, Ids, IsResource
<1>1. CASE listing = "pending"
  BY <1>1 DEF Shown, PendingListing
<1>2. CASE listing = "byStatus"
  BY <1>2 DEF Shown, StatusListing
<1>3. CASE listing = "resources"
  BY <1>3 DEF Shown, ApprovedListing, OwnListing, OwnApprovedListing, OwnStatusListing
<1> QED
  BY <1>1, <1>2, <1>3 DEF Listings

LEMMA PickStep ==
  ASSUME ClusterTyped, NEW h \in Patches, NEW listing \in Listings,
         NEW id \in Ids, NEW s \in ClusterStatuses, Pick(h, listing, id, s)
  PROVE  /\ patch' \in [Patches -> Patch]
         /\ \A g \in Patches \ {h} : patch'[g] = patch[g]
         /\ patch'[h].step = "listed" /\ patch'[h].id = id
         /\ patch'[h].listing = listing /\ patch'[h].status = s
         /\ patch'[h].after = {g \in Patches : patch[g].id = id /\ Dispatched(g)}
<1> DEFINE earlier == {g \in Patches : patch[g].id = id /\ Dispatched(g)}
           picked(after) == [step |-> "listed", id |-> id, listing |-> listing,
                             status |-> s, after |-> after]
<1>1. \A after \in SUBSET Patches : picked(after) \in Patch
  BY DEF Patch, PatchSteps
<1>2. patch' = [patch EXCEPT ![h] = picked(earlier)] /\ earlier \in SUBSET Patches
  BY DEF Pick
<1> HIDE DEF earlier
<1>3. /\ picked(earlier).step = "listed" /\ picked(earlier).id = id
      /\ picked(earlier).listing = listing /\ picked(earlier).status = s
      /\ picked(earlier).after = earlier
  OBVIOUS
<1> HIDE DEF picked
<1>4. /\ patch' \in [Patches -> Patch]
      /\ \A g \in Patches \ {h} : patch'[g] = patch[g]
      /\ patch'[h] = picked(earlier)
  BY <1>1, <1>2 DEF ClusterTyped, ClusterTypeOK
<1> QED
  BY <1>3, <1>4 DEF earlier

(* The types of clusters and of the calls that decide about them.          *)
LEMMA ClusterTypedInductive ==
  ASSUME ClusterTyped, [ClusterNext]_clusterVars
  PROVE  ClusterTyped'
<1> USE DEF ClusterTyped
<1>1. ASSUME NEW c \in Clusters, CreateCluster(c) PROVE ClusterTyped'
  <2>1. UNCHANGED <<patch, emitted, started, reset>>
    BY <1>1 DEF CreateCluster
  <2>2. ClusterTypeOK'
    BY <1>1, <2>1, CreationStep DEF ClusterTypeOK
  <2>3. ASSUME NEW k \in Clusters, cluster'[k].step # "idle"
        PROVE  cluster'[k].cloud \in ClusterClouds
    BY <1>1, <2>3, CreationStep
  <2>4. ASSUME NEW h \in Patches PROVE NamesRow(h)'
    BY <1>1, <2>1, CreationStep DEF NamesRow, Of, Ids
  <2> QED
    BY <2>2, <2>3, <2>4
<1>2. ASSUME NEW h \in Patches, NEW listing \in Listings,
             NEW id \in Ids, NEW s \in ClusterStatuses, Pick(h, listing, id, s)
      PROVE  ClusterTyped'
  <2>1. UNCHANGED <<cluster, emitted, started, reset>> /\ id \in Shown(listing)
    BY <1>2 DEF Pick
  <2>2. ClusterTypeOK'
    BY <1>2, <2>1, PickStep DEF ClusterTypeOK
  <2>3. ASSUME NEW g \in Patches PROVE NamesRow(g)'
    <3>1. CASE g = h
      <4>1. cluster[id.of].step = "made" /\ id.of \in Clusters
        BY <2>1, ShownIsMade DEF Ids
      <4>2. patch'[h].id = id
        BY <1>2, PickStep
      <4>3. cluster[id.of] \in Creation /\ cluster[id.of].cloud \in ClusterClouds
        BY <4>1 DEF ClusterTypeOK
      <4> QED
        BY <2>1, <3>1, <4>1, <4>2, <4>3 DEF NamesRow, Of
    <3>2. CASE g # h
      <4>1. patch'[g] = patch[g] /\ UNCHANGED cluster
        BY <1>2, <2>1, <3>2, PickStep
      <4> QED
        BY <4>1 DEF NamesRow, Of
    <3> QED
      BY <3>1, <3>2
  <2> QED
    BY <2>1, <2>2, <2>3
<1>3. ASSUME NEW h \in Patches, UpdateClusterRequestStatus(h) PROVE ClusterTyped'
  <2>1. PICK s \in PatchSteps : patch' = [patch EXCEPT ![h].step = s]
    BY <1>3, CallSteps
  <2>2. /\ patch' \in [Patches -> Patch]
        /\ \A g \in Patches \ {h} : patch'[g] = patch[g]
        /\ \A g \in Patches : patch'[g].id = patch[g].id
    BY <2>1, CallStep
  <2>3. patch[h].step # "idle"
    BY <1>3 DEF UpdateClusterRequestStatus, Find, WriteStatus, Trigger, FailPatch,
                DispatchCluster
  <2>4. Of(h) \in Clusters /\ patch[h].status \in ClusterStatuses
    BY <2>3 DEF NamesRow, Of, Ids, ClusterTypeOK, Patch
  <2>5. /\ cluster' \in [Clusters -> Creation]
        /\ \A c \in Clusters : cluster'[c].step = cluster[c].step
                            /\ cluster'[c].cloud = cluster[c].cloud
    <3>1. CASE WriteStatus(h)
      BY <2>4, <3>1, StatusStep DEF WriteStatus
    <3>2. CASE ~WriteStatus(h)
      BY <1>3, <3>2 DEF UpdateClusterRequestStatus, Find, Trigger, FailPatch,
                        DispatchCluster, ClusterTypeOK
    <3> QED
      BY <3>1, <3>2
  <2>6. emitted' \in [Clusters -> Nat]
    BY <1>3, <2>4 DEF UpdateClusterRequestStatus, Find, WriteStatus, Trigger, FailPatch,
                DispatchCluster, ClusterTypeOK
  <2>7. started' \in [ClusterClouds -> Nat]
    <3>1. CASE Trigger(h)
      <4>1. PICK run \in BOOLEAN :
              started' = [started EXCEPT ![cluster[Of(h)].cloud] = IF run THEN @ + 1 ELSE @]
        BY <3>1 DEF Trigger
      <4>2. \A p \in ClusterClouds : started[p] \in Nat /\ started[p] + 1 \in Nat
        BY DEF ClusterTypeOK
      <4>3. CASE run
        BY <4>1, <4>2, <4>3 DEF ClusterTypeOK
      <4>4. CASE ~run
        BY <4>1, <4>2, <4>4 DEF ClusterTypeOK
      <4> QED
        BY <4>3, <4>4
    <3>2. CASE ~Trigger(h)
      BY <1>3, <3>2 DEF UpdateClusterRequestStatus, Find, WriteStatus, FailPatch,
                        DispatchCluster, ClusterTypeOK
    <3> QED
      BY <3>1, <3>2
  <2>8. reset' \subseteq Clusters
    BY <1>3, <2>4 DEF UpdateClusterRequestStatus, Find, WriteStatus, Trigger, FailPatch,
                DispatchCluster, ClusterTypeOK
  <2>9. ASSUME NEW g \in Patches PROVE NamesRow(g)'
    BY <2>2, <2>3, <2>5 DEF NamesRow, Of, Ids
  <2> QED
    BY <2>2, <2>5, <2>6, <2>7, <2>8, <2>9 DEF ClusterTypeOK
<1>4. CASE UNCHANGED clusterVars
  BY <1>4 DEF clusterVars, ClusterTypeOK, NamesRow, Of
<1> QED
  BY <1>1, <1>2, <1>3, <1>4 DEF ClusterNext

(* The variables of ClusterRequests always have their types.               *)
THEOREM ClusterTypeCorrect == ClusterSpec => []ClusterTypeOK
<1>1. ClusterInit => ClusterTyped
  <2>1. IdleCluster \in Creation
    BY DEF IdleCluster, Creation, CreationSteps, ClusterStatuses
  <2>2. IdlePatch \in Patch
    BY DEF IdlePatch, Patch, PatchSteps, NoId, ClusterStatuses
  <2> QED
    BY <2>1, <2>2
    DEF ClusterInit, ClusterTyped, ClusterTypeOK, NamesRow, IdlePatch, IdleCluster
<1>2. ClusterTyped /\ [ClusterNext]_clusterVars => ClusterTyped'
  BY ClusterTypedInductive
<1>3. ClusterTyped => ClusterTypeOK
  BY DEF ClusterTyped
<1> QED
  BY <1>1, <1>2, <1>3, PTL DEF ClusterSpec

----------------------------------------------------------------------------
(* What a step of a call does to the calls, whichever step it is.          *)
LEMMA CallFrame ==
  ASSUME ClusterTyped, NEW h \in Patches, UpdateClusterRequestStatus(h)
  PROVE  /\ patch[h].step \in {"listed", "found", "updated", "triggering"}
         /\ Of(h) \in Clusters
         /\ \A g \in Patches \ {h} : patch'[g] = patch[g]
         /\ \A g \in Patches : Of(g)' = Of(g)
         /\ patch'[h].id = patch[h].id /\ patch'[h].listing = patch[h].listing
         /\ patch'[h].status = patch[h].status /\ patch'[h].after = patch[h].after
         /\ \A c \in Clusters : /\ cluster'[c].step = cluster[c].step
                                /\ cluster'[c].cloud = cluster[c].cloud
<1> USE DEF ClusterTyped
<1>1. PICK s \in PatchSteps : patch' = [patch EXCEPT ![h].step = s]
  BY CallSteps
<1>2. patch[h].step \in {"listed", "found", "updated", "triggering"}
  BY DEF UpdateClusterRequestStatus, Find, WriteStatus, Trigger, FailPatch, DispatchCluster
<1>3. Of(h) \in Clusters /\ patch[h].status \in ClusterStatuses
  BY <1>2 DEF NamesRow, Of, Ids, ClusterTypeOK, Patch
<1>4. \A c \in Clusters : /\ cluster'[c].step = cluster[c].step
                         /\ cluster'[c].cloud = cluster[c].cloud
  <2>1. CASE WriteStatus(h)
    BY <1>3, <2>1, StatusStep DEF WriteStatus
  <2>2. CASE ~WriteStatus(h)
    BY <2>2 DEF UpdateClusterRequestStatus, Find, Trigger, FailPatch, DispatchCluster
  <2> QED
    BY <2>1, <2>2
<1>5. \A g \in Patches : Of(g)' = Of(g)
  BY <1>1, CallStep DEF Of
<1> QED
  BY <1>1, <1>2, <1>3, <1>4, <1>5, CallStep

(* What a step of a call leads to, and what it means for the dispatches.   *)
LEMMA CallOutcome ==
  ASSUME ClusterTyped, NEW h \in Patches, UpdateClusterRequestStatus(h)
  PROVE  /\ Find(h) => patch'[h].step = IF IsRequest(patch[h].id) THEN "found" ELSE "refused"
         /\ WriteStatus(h) =>
              /\ patch'[h].step = IF patch[h].status = "Approved" THEN "updated" ELSE "done"
              /\ cluster'[Of(h)].status = patch[h].status
              /\ \A c \in Clusters \ {Of(h)} : cluster'[c] = cluster[c]
         /\ FailPatch(h) => patch'[h].step = "failed"
         /\ \A hasRole \in BOOLEAN : DispatchCluster(h, hasRole) =>
              patch'[h].step = IF hasRole THEN "triggering" ELSE "half"
         /\ Trigger(h) => patch'[h].step \in {"done", "half"}
<1> USE DEF ClusterTyped
<1>1. patch[h].status \in ClusterStatuses /\ Of(h) \in Clusters
  BY CallFrame DEF ClusterTypeOK, Patch
<1>2. ASSUME Find(h)
      PROVE  patch'[h].step = IF IsRequest(patch[h].id) THEN "found" ELSE "refused"
  BY <1>2, CallStep DEF Find, PatchSteps
<1>3. ASSUME WriteStatus(h)
      PROVE  /\ patch'[h].step = IF patch[h].status = "Approved" THEN "updated" ELSE "done"
             /\ cluster'[Of(h)].status = patch[h].status
             /\ \A c \in Clusters \ {Of(h)} : cluster'[c] = cluster[c]
  <2>1. patch'[h].step = IF patch[h].status = "Approved" THEN "updated" ELSE "done"
    BY <1>3, CallStep DEF WriteStatus, PatchSteps
  <2>2. /\ cluster'[Of(h)].status = patch[h].status
        /\ \A c \in Clusters \ {Of(h)} : cluster'[c] = cluster[c]
    BY <1>1, <1>3, StatusStep DEF WriteStatus
  <2> QED
    BY <2>1, <2>2
<1>4. ASSUME FailPatch(h) PROVE patch'[h].step = "failed"
  BY <1>4, CallStep DEF FailPatch, PatchSteps
<1>5. ASSUME NEW hasRole \in BOOLEAN, DispatchCluster(h, hasRole)
      PROVE  patch'[h].step = IF hasRole THEN "triggering" ELSE "half"
  BY <1>5, CallStep DEF DispatchCluster, PatchSteps
<1>6. ASSUME Trigger(h) PROVE patch'[h].step \in {"done", "half"}
  BY <1>6, CallStep DEF Trigger, PatchSteps
<1> QED
  BY <1>2, <1>3, <1>4, <1>5, <1>6

----------------------------------------------------------------------------
(* A call that got past its first lookup named a request; one that goes on *)
(* approves; a cluster one has approved stays so until some call takes the *)
(* approval back; and one picked as pending after a dispatch had been      *)
(* reset by then.                                                          *)
Asked(h) ==
  /\ patch[h].step \in {"found", "updated", "triggering", "done", "half"} =>
       IsRequest(patch[h].id)
  /\ patch[h].step \in {"updated", "triggering", "half"} => patch[h].status = "Approved"
  /\ Dispatched(h) \/ patch[h].step = "updated" =>
       cluster[Of(h)].status = "Approved" \/ Of(h) \in reset
  /\ patch[h].step # "idle" =>
       /\ patch[h].listing \in Listings
       /\ patch[h].listing = "resources" => IsResource(patch[h].id)
       /\ patch[h].listing = "pending" /\ patch[h].after # {} => Of(h) \in reset

Asking == ClusterTyped /\ \A h \in Patches : Asked(h)

LEMMA AskingInductive ==
  ASSUME Asking, [ClusterNext]_clusterVars
  PROVE  Asking'
<1> USE DEF Asking
<1>1. ClusterTyped'
  BY ClusterTypedInductive
<1> SUFFICES ASSUME NEW g \in Patches PROVE Asked(g)'
  BY <1>1
<1>2. Asked(g)
  OBVIOUS
<1>3. ASSUME NEW c \in Clusters, CreateCluster(c) PROVE Asked(g)'
  <2>1. UNCHANGED <<patch, reset>>
    BY <1>3 DEF CreateCluster
  <2>2. patch[g].step # "idle" => cluster'[Of(g)].status = cluster[Of(g)].status
    BY <1>3, CreationStep DEF ClusterTyped, NamesRow, Of, Ids
  <2> QED
    BY <1>2, <2>1, <2>2 DEF Asked, Dispatched, Of
<1>4. ASSUME NEW h \in Patches, NEW listing \in Listings,
             NEW id \in Ids, NEW s \in ClusterStatuses, Pick(h, listing, id, s)
      PROVE  Asked(g)'
  <2>1. UNCHANGED <<cluster, reset>> /\ id \in Shown(listing)
    BY <1>4 DEF Pick
  <2>2. CASE g # h
    <3>1. patch'[g] = patch[g]
      BY <1>4, <2>2, PickStep
    <3> QED
      BY <1>2, <2>1, <3>1 DEF Asked, Dispatched, Of
  <2>3. CASE g = h
    <3>1. /\ patch'[h].step = "listed" /\ patch'[h].id = id /\ patch'[h].listing = listing
          /\ patch'[h].after = {k \in Patches : patch[k].id = id /\ Dispatched(k)}
      BY <1>4, PickStep
    <3>2. ASSUME listing = "pending", patch'[h].after # {} PROVE id.of \in reset
      <4>1. PICK k \in Patches : patch[k].id = id /\ Dispatched(k)
        BY <3>1, <3>2
      <4>2. cluster[id.of].status = "Pending"
        BY <2>1, <3>2, ShownIsMade
      <4> QED
        BY <4>1, <4>2 DEF Asked, Of
    <3>3. listing = "resources" => IsResource(id)
      BY <2>1, ShownIsMade
    <3> QED
      BY <2>1, <2>3, <3>1, <3>2, <3>3 DEF Asked, Dispatched, Of
  <2> QED
    BY <2>2, <2>3
<1>5. ASSUME NEW h \in Patches, UpdateClusterRequestStatus(h) PROVE Asked(g)'
  <2>1. reset \subseteq reset'
    BY <1>5 DEF UpdateClusterRequestStatus, Find, WriteStatus, Trigger, FailPatch,
                DispatchCluster
  <2>2. /\ Of(h) \in Clusters
        /\ \A k \in Patches \ {h} : patch'[k] = patch[k]
        /\ \A k \in Patches : Of(k)' = Of(k)
        /\ patch'[h].id = patch[h].id /\ patch'[h].listing = patch[h].listing
        /\ patch'[h].status = patch[h].status /\ patch'[h].after = patch[h].after
    BY <1>5, CallFrame
  <2>3. \A c \in Clusters : \/ cluster'[c].status = cluster[c].status
                           \/ cluster'[c].status = "Approved"
                           \/ c \in reset'
    <3>1. CASE WriteStatus(h)
      BY <1>5, <2>2, <3>1, CallOutcome DEF WriteStatus
    <3>2. CASE ~WriteStatus(h)
      BY <1>5, <3>2 DEF UpdateClusterRequestStatus, Find, Trigger, FailPatch, DispatchCluster
    <3> QED
      BY <3>1, <3>2
  <2>4. patch[g].step # "idle" => Of(g) \in Clusters
    BY DEF ClusterTyped, NamesRow, Of, Ids
  <2>5. CASE g # h
    BY <1>2, <2>1, <2>2, <2>3, <2>4, <2>5 DEF Asked, Dispatched
  <2>6. CASE g = h
    <3>1. CASE Find(h)
      BY <1>2, <1>5, <2>1, <2>2, <2>6, <3>1, CallOutcome DEF Asked, Dispatched, Find
    <3>2. CASE WriteStatus(h)
      <4>1. patch'[h].step = IF patch[h].status = "Approved" THEN "updated" ELSE "done"
        BY <1>5, <3>2, CallOutcome
      <4>2. cluster'[Of(h)].status = patch[h].status
        BY <1>5, <3>2, CallOutcome
      <4> QED
        BY <1>2, <2>1, <2>2, <2>6, <3>2, <4>1, <4>2 DEF Asked, Dispatched, WriteStatus
    <3>3. CASE FailPatch(h)
      BY <1>2, <1>5, <2>1, <2>2, <2>6, <3>3, CallOutcome DEF Asked, Dispatched, FailPatch
    <3>4. ASSUME NEW hasRole \in BOOLEAN, DispatchCluster(h, hasRole) PROVE Asked(g)'
      <4>1. patch'[h].step = IF hasRole THEN "triggering" ELSE "half"
        BY <1>5, <3>4, CallOutcome
      <4> QED
        BY <1>2, <2>1, <2>2, <2>3, <2>6, <3>4, <4>1 DEF Asked, Dispatched, DispatchCluster
    <3>5. CASE Trigger(h)
      <4>1. patch'[h].step \in {"done", "half"}
        BY <1>5, <3>5, CallOutcome
      <4> QED
        BY <1>2, <2>1, <2>2, <2>3, <2>6, <3>5, <4>1 DEF Asked, Dispatched, Trigger
    <3> QED
      BY <1>5, <3>1, <3>2, <3>3, <3>4, <3>5 DEF UpdateClusterRequestStatus
  <2> QED
    BY <2>5, <2>6
<1>6. CASE UNCHANGED clusterVars
  BY <1>2, <1>6 DEF clusterVars, Asked, Dispatched, Of
<1> QED
  BY <1>3, <1>4, <1>5, <1>6 DEF ClusterNext

LEMMA AskingInitially == ClusterInit => Asking
<1>1. IdleCluster \in Creation
  BY DEF IdleCluster, Creation, CreationSteps, ClusterStatuses
<1>2. IdlePatch \in Patch
  BY DEF IdlePatch, Patch, PatchSteps, NoId, ClusterStatuses
<1>3. ClusterInit => ClusterTyped
  BY <1>1, <1>2
  DEF ClusterInit, ClusterTyped, ClusterTypeOK, NamesRow, IdlePatch, IdleCluster
<1> QED
  BY <1>3 DEF ClusterInit, Asking, Asked, Dispatched, IdlePatch

(* Whatever clusters and calls there are, a second dispatch of a cluster   *)
(* that an administrator decided about after he could see the first was    *)
(* asked for.                                                              *)
THEOREM SecondDispatchesAreAsked == ClusterSpec => []RepeatedDispatchWasAsked
<1>1. Asking => RepeatedDispatchWasAsked
  <2> SUFFICES ASSUME Asking, NEW h \in Patches, Dispatched(h)
               PROVE  /\ patch[h].after # {} => patch[h].listing = "byStatus" \/ Of(h) \in reset
                      /\ ~IsResource(patch[h].id)
    BY DEF RepeatedDispatchWasAsked
  <2>1. Asked(h) /\ patch[h].step \in {"triggering", "half", "done"}
    BY DEF Asking, Dispatched
  <2> QED
    BY <2>1 DEF Asked, IsRequest, IsResource, Listings
<1> QED
  BY <1>1, AskingInitially, AskingInductive, PTL DEF ClusterSpec

----------------------------------------------------------------------------
(* The calls that have emitted a message for c; those of a cloud that have *)
(* got as far as one of some steps.                                        *)
SentFor(c) == {h \in Patches : Dispatched(h) /\ Of(h) = c}

SentTo(p, steps) ==
  {h \in Patches : /\ Dispatched(h)
                   /\ patch[h].step \in steps
                   /\ cluster[Of(h)].cloud = p}

Answered(p) == SentTo(p, {"done"})
Over(p)     == SentTo(p, {"done", "half"})

Approvals ==
  \A c \in Clusters : cluster[c].status = "Approved" =>
    emitted[c] > 0 \/ \E h \in Patches : patch[h].step = "updated" /\ Of(h) = c

Messages == \A c \in Clusters : emitted[c] = Cardinality(SentFor(c))

StartedRuns ==
  \A p \in ClusterClouds :
    Cardinality(Answered(p)) <= started[p] /\ started[p] <= Cardinality(Over(p))

Splitting == Asking /\ Approvals /\ Messages /\ StartedRuns

(* The sets that are counted grow one call at a time.                      *)
LEMMA OneMore ==
  ASSUME NEW S \in SUBSET Patches, NEW h \in Patches, h \notin S
  PROVE  /\ Cardinality(S \cup {h}) = Cardinality(S) + 1
         /\ Cardinality(S) \in Nat
<1>1. IsFiniteSet(S)
  BY PatchesAssumption, FS_Subset
<1> QED
  BY <1>1, FS_AddElement, FS_CardinalityType

(* A step that leaves every dispatch, the rows that it is about and the    *)
(* calls that are about to dispatch alone keeps the balance.               *)
LEMMA QuietStep ==
  ASSUME Splitting, ClusterTyped',
         UNCHANGED <<emitted, started>>,
         \A h \in Patches :
           /\ Dispatched(h)' = Dispatched(h)
           /\ Dispatched(h) => /\ Of(h)' = Of(h)
                              /\ patch'[h].step = patch[h].step
                              /\ cluster'[Of(h)].cloud = cluster[Of(h)].cloud
  PROVE  Messages' /\ StartedRuns'
<1>1. \A c \in Clusters : SentFor(c)' = SentFor(c)
  BY DEF SentFor
<1>2. \A p \in ClusterClouds : Answered(p)' = Answered(p) /\ Over(p)' = Over(p)
  <2> SUFFICES ASSUME NEW p \in ClusterClouds, NEW steps
               PROVE  SentTo(p, steps)' = SentTo(p, steps)
    BY DEF Answered, Over
  <2> QED
    BY DEF SentTo
<1> QED
  BY <1>1, <1>2 DEF Splitting, Messages, StartedRuns

(* The message goes out with the call that emits it, and only then.        *)
LEMMA DispatchBalances ==
  ASSUME Splitting, NEW h \in Patches, NEW hasRole \in BOOLEAN, DispatchCluster(h, hasRole)
  PROVE  Approvals' /\ Messages' /\ StartedRuns'
<1> USE DEF Splitting, Asking, ClusterTyped
<1>1. UpdateClusterRequestStatus(h)
  BY DEF UpdateClusterRequestStatus
<1>2. /\ Of(h) \in Clusters
      /\ \A g \in Patches \ {h} : patch'[g] = patch[g]
      /\ \A g \in Patches : Of(g)' = Of(g)
      /\ UNCHANGED <<cluster, started, reset>>
  BY <1>1, CallFrame DEF DispatchCluster
<1>3. patch[h].step = "updated" /\ ~Dispatched(h)
  BY DEF DispatchCluster, Dispatched
<1>4. patch'[h].step = IF hasRole THEN "triggering" ELSE "half"
  BY <1>1, CallOutcome
<1>5. Dispatched(h)' /\ \A g \in Patches \ {h} : Dispatched(g)' = Dispatched(g)
  BY <1>2, <1>4 DEF Dispatched
<1>6. /\ emitted'[Of(h)] = emitted[Of(h)] + 1
      /\ \A c \in Clusters \ {Of(h)} : emitted'[c] = emitted[c]
      /\ \A c \in Clusters : emitted[c] \in Nat
  BY <1>2 DEF DispatchCluster, ClusterTypeOK
<1>7. Approvals'
  <2> SUFFICES ASSUME NEW c \in Clusters, cluster[c].status = "Approved"
               PROVE  emitted'[c] > 0
                        \/ \E g \in Patches : patch'[g].step = "updated" /\ Of(g)' = c
    BY <1>2 DEF Approvals
  <2>1. CASE c = Of(h)
    BY <1>6, <2>1
  <2>2. CASE c # Of(h)
    BY <1>2, <1>6, <2>2 DEF Approvals
  <2> QED
    BY <2>1, <2>2
<1>8. Messages'
  <2> SUFFICES ASSUME NEW c \in Clusters PROVE emitted'[c] = Cardinality(SentFor(c)')
    BY DEF Messages
  <2>1. CASE c = Of(h)
    <3>1. SentFor(c)' = SentFor(c) \cup {h} /\ h \notin SentFor(c)
      BY <1>2, <1>3, <1>5, <2>1 DEF SentFor
    <3>2. SentFor(c) \in SUBSET Patches
      BY DEF SentFor
    <3> QED
      BY <1>6, <2>1, <3>1, <3>2, OneMore DEF Messages
  <2>2. CASE c # Of(h)
    <3>1. SentFor(c)' = SentFor(c)
      BY <1>2, <1>5, <2>2, <1>3 DEF SentFor
    <3> QED
      BY <1>6, <2>2, <3>1 DEF Messages
  <2> QED
    BY <2>1, <2>2
<1>9. StartedRuns'
  <2> SUFFICES ASSUME NEW p \in ClusterClouds
               PROVE  /\ Cardinality(Answered(p)') <= started[p]
                      /\ started[p] <= Cardinality(Over(p)')
    BY <1>2 DEF StartedRuns
  <2>1. Answered(p)' = Answered(p)
    BY <1>2, <1>3, <1>4, <1>5 DEF Answered, SentTo
  <2>2. Over(p)' = Over(p) \/ Over(p)' = Over(p) \cup {h}
    <3>1. \A g \in Patches \ {h} : g \in Over(p)' <=> g \in Over(p)
      BY <1>2, <1>5 DEF Over, SentTo
    <3>2. Over(p)' \subseteq Patches /\ Over(p) \subseteq Patches /\ h \notin Over(p)
      BY <1>3 DEF Over, SentTo
    <3>3. CASE h \in Over(p)'
      <4>1. Over(p)' = Over(p) \cup {h}
        BY <3>1, <3>2, <3>3
      <4> QED
        BY <4>1
    <3>4. CASE h \notin Over(p)'
      <4>1. \A g : g \in Over(p)' <=> g \in Over(p)
        BY <3>1, <3>2, <3>4
      <4> QED
        BY <4>1
    <3> QED
      BY <3>3, <3>4
  <2>3. Over(p) \in SUBSET Patches /\ h \notin Over(p)
    BY <1>3 DEF Over, SentTo
  <2>4. started[p] <= Cardinality(Over(p)) /\ started[p] \in Nat
    BY DEF StartedRuns, ClusterTypeOK
  <2>5. started[p] <= Cardinality(Over(p)')
    BY <2>2, <2>3, <2>4, OneMore
  <2> QED
    BY <2>1, <2>5 DEF StartedRuns
<1> QED
  BY <1>7, <1>8, <1>9

(* Airflow's answer counts the call, and the run was started before it.    *)
LEMMA TriggerBalances ==
  ASSUME Splitting, NEW h \in Patches, Trigger(h)
  PROVE  Messages' /\ StartedRuns'
<1> USE DEF Splitting, Asking, ClusterTyped
<1>1. UpdateClusterRequestStatus(h)
  BY DEF UpdateClusterRequestStatus
<1>2. /\ Of(h) \in Clusters
      /\ \A g \in Patches \ {h} : patch'[g] = patch[g]
      /\ \A g \in Patches : Of(g)' = Of(g)
      /\ patch'[h].status = patch[h].status
      /\ UNCHANGED <<cluster, emitted>>
  BY <1>1, CallFrame DEF Trigger
<1>3. patch[h].step = "triggering" /\ patch[h].status = "Approved" /\ Dispatched(h)
  BY DEF Trigger, Asked, Dispatched
<1>4. PICK run \in BOOLEAN, answer \in BOOLEAN :
        /\ answer => run
        /\ started' = [started EXCEPT ![cluster[Of(h)].cloud] = IF run THEN @ + 1 ELSE @]
        /\ patch' = [patch EXCEPT ![h].step = IF answer THEN "done" ELSE "half"]
  BY DEF Trigger
<1>5. patch'[h].step = IF answer THEN "done" ELSE "half"
  <2>1. (IF answer THEN "done" ELSE "half") \in PatchSteps
    BY DEF PatchSteps
  <2> QED
    BY <1>4, <2>1, CallStep
<1>6. \A g \in Patches : Dispatched(g)' = Dispatched(g)
  BY <1>2, <1>3, <1>5 DEF Dispatched
<1>7. Messages'
  <2>1. \A c \in Clusters : SentFor(c)' = SentFor(c)
    BY <1>2, <1>6 DEF SentFor
  <2> QED
    BY <1>2, <2>1 DEF Messages
<1>8. StartedRuns'
  <2> SUFFICES ASSUME NEW p \in ClusterClouds
               PROVE  /\ Cardinality(Answered(p)') <= started'[p]
                      /\ started'[p] <= Cardinality(Over(p)')
    BY DEF StartedRuns
  <2>1. /\ Answered(p) \in SUBSET Patches /\ Over(p) \in SUBSET Patches
        /\ h \notin Answered(p) /\ h \notin Over(p)
    BY <1>3 DEF Answered, Over, SentTo
  <2>2. /\ Cardinality(Answered(p)) <= started[p] /\ started[p] <= Cardinality(Over(p))
        /\ started[p] \in Nat
    BY DEF StartedRuns, ClusterTypeOK
  <2>3. CASE p # cluster[Of(h)].cloud
    <3>1. Answered(p)' = Answered(p) /\ Over(p)' = Over(p)
      BY <1>2, <1>6, <2>1, <2>3 DEF Answered, Over, SentTo
    <3>2. started'[p] = started[p]
      BY <1>4, <2>3 DEF ClusterTypeOK
    <3> QED
      BY <2>2, <3>1, <3>2
  <2>4. CASE p = cluster[Of(h)].cloud
    <3>1. Over(p)' = Over(p) \cup {h}
      BY <1>2, <1>3, <1>5, <1>6, <2>4 DEF Over, SentTo
    <3>2. Answered(p)' = IF answer THEN Answered(p) \cup {h} ELSE Answered(p)
      BY <1>2, <1>3, <1>5, <1>6, <2>4 DEF Answered, SentTo
    <3>3. started'[p] = IF run THEN started[p] + 1 ELSE started[p]
      BY <1>4, <2>4 DEF ClusterTypeOK
    <3>4. /\ Cardinality(Over(p)') = Cardinality(Over(p)) + 1
          /\ Cardinality(Answered(p) \cup {h}) = Cardinality(Answered(p)) + 1
          /\ Cardinality(Over(p)) \in Nat /\ Cardinality(Answered(p)) \in Nat
      BY <2>1, <3>1, OneMore
    <3> QED
      BY <1>4, <2>2, <3>2, <3>3, <3>4
  <2> QED
    BY <2>3, <2>4
<1> QED
  BY <1>7, <1>8

LEMMA SplittingInductive ==
  ASSUME Splitting, [ClusterNext]_clusterVars
  PROVE  Splitting'
<1> USE DEF Splitting
<1>1. Asking'
  BY AskingInductive
<1>2. ClusterTyped /\ ClusterTyped'
  BY <1>1 DEF Asking
<1>3. ASSUME NEW c \in Clusters, CreateCluster(c)
      PROVE  Approvals' /\ Messages' /\ StartedRuns'
  <2>1. UNCHANGED <<patch, emitted, started>>
    BY <1>3 DEF CreateCluster
  <2>2. \A k \in Clusters : cluster'[k].status = cluster[k].status
    BY <1>2, <1>3, CreationStep DEF ClusterTyped
  <2>3. \A h \in Patches : Dispatched(h) => cluster'[Of(h)] = cluster[Of(h)]
    BY <1>2, <1>3, CreationStep DEF ClusterTyped, NamesRow, Of, Ids, Dispatched
  <2>4. Approvals'
    BY <2>1, <2>2 DEF Approvals, Of
  <2> QED
    BY <1>2, <2>1, <2>3, <2>4, QuietStep DEF Dispatched, Of
<1>4. ASSUME NEW h \in Patches, NEW listing \in Listings,
             NEW id \in Ids, NEW s \in ClusterStatuses, Pick(h, listing, id, s)
      PROVE  Approvals' /\ Messages' /\ StartedRuns'
  <2>1. UNCHANGED <<cluster, emitted, started>> /\ patch[h].step = "idle"
    BY <1>4 DEF Pick
  <2>2. patch'[h].step = "listed" /\ \A g \in Patches \ {h} : patch'[g] = patch[g]
    BY <1>2, <1>4, PickStep
  <2>3. Approvals'
    BY <2>1, <2>2 DEF Approvals, Of
  <2> QED
    BY <1>2, <2>1, <2>2, <2>3, QuietStep DEF Dispatched, Of
<1>5. ASSUME NEW h \in Patches, UpdateClusterRequestStatus(h)
      PROVE  Approvals' /\ Messages' /\ StartedRuns'
  <2>1. /\ Of(h) \in Clusters
        /\ \A g \in Patches \ {h} : patch'[g] = patch[g]
        /\ \A g \in Patches : Of(g)' = Of(g)
        /\ patch'[h].status = patch[h].status
        /\ \A c \in Clusters : cluster'[c].cloud = cluster[c].cloud
        /\ \A g \in Patches : Dispatched(g) => Of(g) \in Clusters
    BY <1>2, <1>5, CallFrame DEF ClusterTyped, NamesRow, Of, Ids, Dispatched
  <2>2. ASSUME Find(h) \/ FailPatch(h) PROVE Approvals' /\ Messages' /\ StartedRuns'
    <3>1. UNCHANGED <<cluster, emitted, started>> /\ patch[h].step \in {"listed", "found"}
      BY <2>2 DEF Find, FailPatch
    <3>2. patch'[h].step \in {"found", "refused", "failed"}
      BY <1>2, <1>5, <2>2, CallOutcome
    <3>3. Approvals'
      BY <2>1, <3>1, <3>2 DEF Approvals
    <3> QED
      BY <1>2, <2>1, <3>1, <3>2, <3>3, QuietStep DEF Dispatched
  <2>3. ASSUME WriteStatus(h) PROVE Approvals' /\ Messages' /\ StartedRuns'
    <3>1. UNCHANGED <<emitted, started>> /\ patch[h].step = "found"
      BY <2>3 DEF WriteStatus
    <3>2. /\ patch'[h].step = IF patch[h].status = "Approved" THEN "updated" ELSE "done"
          /\ cluster'[Of(h)].status = patch[h].status
          /\ \A c \in Clusters \ {Of(h)} : cluster'[c] = cluster[c]
      BY <1>2, <1>5, <2>3, CallOutcome
    <3>3. Approvals'
      <4> SUFFICES ASSUME NEW c \in Clusters, cluster'[c].status = "Approved"
                   PROVE  emitted[c] > 0
                            \/ \E g \in Patches : patch'[g].step = "updated" /\ Of(g)' = c
        BY <3>1 DEF Approvals
      <4>1. CASE c = Of(h)
        BY <2>1, <3>2, <4>1
      <4>2. CASE c # Of(h)
        BY <2>1, <3>1, <3>2, <4>2 DEF Approvals
      <4> QED
        BY <4>1, <4>2
    <3> QED
      BY <1>2, <2>1, <3>1, <3>2, <3>3, QuietStep DEF Dispatched
  <2>4. ASSUME Trigger(h) PROVE Approvals' /\ Messages' /\ StartedRuns'
    <3>1. UNCHANGED <<cluster, emitted>> /\ patch[h].step = "triggering"
      BY <2>4 DEF Trigger
    <3>2. Approvals'
      BY <2>1, <3>1 DEF Approvals
    <3> QED
      BY <2>4, <3>2, TriggerBalances
  <2> QED
    BY <1>5, <2>2, <2>3, <2>4, DispatchBalances DEF UpdateClusterRequestStatus
<1>6. ASSUME UNCHANGED clusterVars PROVE Approvals' /\ Messages' /\ StartedRuns'
  BY <1>2, <1>6, QuietStep DEF clusterVars, Approvals, Of, Dispatched
<1> QED
  BY <1>1, <1>3, <1>4, <1>5, <1>6 DEF ClusterNext

(* However many calls decide about however many clusters, messages and     *)
(* runs are apart only by what failed half-way.                            *)
THEOREM SplitDispatchesAreExplained == ClusterSpec => []SplitDispatchExplained
<1>1. ClusterInit => Splitting
  <2> SUFFICES ASSUME ClusterInit PROVE Splitting
    OBVIOUS
  <2>1. \A h \in Patches : ~Dispatched(h)
    BY DEF ClusterInit, Dispatched, IdlePatch
  <2>2. /\ \A c \in Clusters : SentFor(c) = {}
        /\ \A p \in ClusterClouds : Answered(p) = {} /\ Over(p) = {}
    BY <2>1 DEF SentFor, Answered, Over, SentTo
  <2>3. Messages /\ StartedRuns
    BY <2>2, FS_EmptySet DEF ClusterInit, Messages, StartedRuns
  <2>4. Approvals
    BY DEF ClusterInit, Approvals, IdleCluster
  <2> QED
    BY <2>3, <2>4, AskingInitially DEF Splitting
<1>2. Splitting => SplitDispatchExplained
  <2> SUFFICES ASSUME Splitting PROVE SplitDispatchExplained
    OBVIOUS
  <2>1. \A c \in WithStatus("Approved") :
          emitted[c] > 0 \/ \E h \in Patches : patch[h].step = "updated" /\ Of(h) = c
    BY DEF Splitting, Approvals, WithStatus
  <2>2. \A c \in Clusters :
          emitted[c] = Cardinality({h \in Patches : Dispatched(h) /\ Of(h) = c})
    BY DEF Splitting, Messages, SentFor
  <2> QED
    BY <2>1, <2>2
    DEF SplitDispatchExplained, Splitting, StartedRuns, Answered, Over, SentTo
<1> QED
  BY <1>1, <1>2, SplittingInductive, PTL DEF ClusterSpec

----------------------------------------------------------------------------
(* RunLogs.                                                                *)

(* A task that has been tried has a try, one that may be tried again has   *)
(* one left, and the report is of a run there is.                          *)
Instance == [state : States, try : Tries]

Instances ==
  /\ latest \in 0 .. MaxRuns
  /\ instance \in [DagRuns -> [Tasks -> Instance]]
  /\ \A r \in DagRuns, t \in Tasks :
       /\ instance[r][t].state \notin {"none"} => instance[r][t].try >= 1
       /\ instance[r][t].state \in {"none", "up_for_retry"} => instance[r][t].try < MaxTries

(* A step of Airflow on one task of one run: the same try goes on, or the  *)
(* next one begins.                                                        *)
LEMMA InstanceStep ==
  ASSUME Instances, NEW r \in DagRuns, NEW t \in Tasks, NEW x \in Instance,
         instance' = [instance EXCEPT ![r][t] = x]
  PROVE  /\ instance' \in [DagRuns -> [Tasks -> Instance]]
         /\ instance'[r][t] = x
         /\ \A s \in DagRuns, u \in Tasks : s # r \/ u # t => instance'[s][u] = instance[s][u]
<1>1. instance' = [instance EXCEPT ![r] = [instance[r] EXCEPT ![t] = x]]
  BY DEF Instances
<1>2. [instance[r] EXCEPT ![t] = x] \in [Tasks -> Instance]
  BY DEF Instances
<1> QED
  BY <1>1, <1>2 DEF Instances

(* What Airflow may do to a task.                                          *)
Goes(r, t) ==
  LET old == instance[r][t]  new == instance'[r][t]
  IN \/ new = old
     \/ new.try = old.try + 1 /\ new.state = "running"
     \/ new.try = old.try /\ old.state = "running"
     \/ new.try = old.try /\ new.state = "none"

LEMMA InstancesInductive ==
  ASSUME Instances, [LogNext]_logVars
  PROVE  Instances' /\ \A r \in DagRuns, t \in Tasks : Goes(r, t)
<1> USE LogBoundsAssumption
<1>1. ASSUME NEW r \in DagRuns, NEW t \in Tasks, StartTry(r, t)
      PROVE  Instances' /\ \A s \in DagRuns, u \in Tasks : Goes(s, u)
  <2> DEFINE x == [state |-> "running", try |-> instance[r][t].try + 1]
  <2>1. instance[r][t].try \in Tries /\ instance[r][t].try < MaxTries
    BY <1>1 DEF StartTry, Instances, Instance
  <2>2. x \in Instance
    BY <2>1 DEF Instance, States, Tries
  <2>3. instance' = [instance EXCEPT ![r][t] = x] /\ latest' = latest
    BY <1>1 DEF StartTry
  <2>4. x.try >= 1 /\ x.state = "running" /\ x.try = instance[r][t].try + 1
    BY <2>1 DEF Tries
  <2> HIDE DEF x
  <2> QED
    BY <2>2, <2>3, <2>4, InstanceStep DEF Instances, Goes
<1>2. ASSUME NEW r \in DagRuns, NEW t \in Tasks, NEW s \in States, EndTry(r, t, s)
      PROVE  Instances' /\ \A q \in DagRuns, u \in Tasks : Goes(q, u)
  <2> DEFINE x == [instance[r][t] EXCEPT !.state = s]
  <2>1. instance[r][t] \in Instance
    BY DEF Instances
  <2>2. x \in Instance /\ x.state = s /\ x.try = instance[r][t].try
    BY <2>1 DEF Instance
  <2>3. instance' = [instance EXCEPT ![r][t] = x] /\ latest' = latest
    BY <1>2 DEF EndTry, Instances
  <2>4. /\ instance[r][t].state = "running" /\ instance[r][t].try >= 1
        /\ s # "none" /\ (s = "up_for_retry" => instance[r][t].try < MaxTries)
    BY <1>2 DEF EndTry, Ended, Instances
  <2> HIDE DEF x
  <2> QED
    BY <2>2, <2>3, <2>4, InstanceStep DEF Instances, Goes
<1>3. ASSUME NEW r \in DagRuns, NEW t \in Tasks, Clear(r, t)
      PROVE  Instances' /\ \A q \in DagRuns, u \in Tasks : Goes(q, u)
  <2> DEFINE x == [instance[r][t] EXCEPT !.state = "none"]
  <2>1. instance[r][t] \in Instance
    BY DEF Instances
  <2>2. x \in Instance /\ x.state = "none" /\ x.try = instance[r][t].try
    BY <2>1 DEF Instance, States
  <2>3. instance' = [instance EXCEPT ![r][t] = x] /\ latest' = latest
    BY <1>3 DEF Clear, Instances
  <2>4. instance[r][t].try < MaxTries
    BY <1>3 DEF Clear
  <2> HIDE DEF x
  <2> QED
    BY <2>2, <2>3, <2>4, InstanceStep DEF Instances, Goes
<1>4. ASSUME StartRun PROVE Instances' /\ \A q \in DagRuns, u \in Tasks : Goes(q, u)
  BY <1>4 DEF StartRun, Instances, Goes
<1>5. ASSUME Reporting \/ Showing \/ Searching \/ UNCHANGED logVars
      PROVE  Instances' /\ \A q \in DagRuns, u \in Tasks : Goes(q, u)
  <2>1. UNCHANGED <<latest, instance>>
    BY <1>5 DEF Reporting, Showing, Searching, ReadLatestRun, ReadInstance, ReadLog,
                ListTasks, ShowLog, Upload, SearchExact, ListingFails, SearchBroad,
                logVars
  <2> QED
    BY <2>1 DEF Instances, Goes
<1> QED
  BY <1>1, <1>2, <1>3, <1>4, <1>5 DEF LogNext, Airflow

(* What the report says of a task, and what the pipeline's log is of.      *)
Told == [step  : {"unread", "instance", "log"},
         state : States \cup {"null"},
         try   : Tries,
         log   : Log]

TellsTruth(t) ==
  LET told == report.tasks[t]
      now  == instance[report.run][t]
  IN told.step # "unread" =>
       /\ report.run \in DagRuns
       /\ told.state \in Ended =>
            /\ told.try <= now.try
            /\ told.try = now.try => now.state \in {told.state, "none"}
            /\ told.step = "log" => told.log \in {NoLog, [part |-> "whole", try |-> told.try]}

Showings == [step  : {"listed", "shown"},
             run   : DagRuns,
             task  : Tasks,
             state : States,
             log   : Log]

ShowsTruth ==
  pipeline.step # "idle" /\ pipeline.state = "failed" =>
    LET now == instance[pipeline.run][pipeline.task]
    IN /\ now.try >= 1
       /\ now.try = 1 => now.state \in {"failed", "none"}
       /\ pipeline.step = "shown" => pipeline.log.part # "partial"

Truth ==
  /\ Instances
  /\ report \in [run : 0 .. MaxRuns, tasks : [Tasks -> Told]]
  /\ pipeline \in {NoPipeline} \cup Showings
  /\ \A t \in Tasks : TellsTruth(t)
  /\ ShowsTruth

(* A step of the report tells of one task.                                 *)
LEMMA ReportStep ==
  ASSUME Truth, NEW t \in Tasks, NEW x \in Told, report' = [report EXCEPT !.tasks[t] = x]
  PROVE  /\ report' \in [run : 0 .. MaxRuns, tasks : [Tasks -> Told]]
         /\ report'.run = report.run
         /\ report'.tasks[t] = x
         /\ \A u \in Tasks \ {t} : report'.tasks[u] = report.tasks[u]
<1>1. [report.tasks EXCEPT ![t] = x] \in [Tasks -> Told]
  BY DEF Truth
<1>2. report' = [report EXCEPT !.tasks = [report.tasks EXCEPT ![t] = x]]
  BY DEF Truth
<1>3. report'.tasks = [report.tasks EXCEPT ![t] = x] /\ report'.run = report.run
  BY <1>2 DEF Truth
<1> QED
  BY <1>1, <1>2, <1>3 DEF Truth

(* Airflow does not make untrue what was read of it.                       *)
LEMMA TruthLasts ==
  ASSUME Truth, Instances', \A r \in DagRuns, t \in Tasks : Goes(r, t)
  PROVE  /\ UNCHANGED report => \A t \in Tasks : TellsTruth(t)'
         /\ UNCHANGED pipeline => ShowsTruth'
<1>1. \A r \in DagRuns, t \in Tasks : instance[r][t].try \in Nat /\ instance'[r][t].try \in Nat
  BY LogBoundsAssumption DEF Truth, Instances, Instance, Tries
<1>2. ASSUME UNCHANGED report, NEW t \in Tasks PROVE TellsTruth(t)'
  <2> SUFFICES ASSUME report.tasks[t].step # "unread" PROVE TellsTruth(t)'
    BY <1>2 DEF TellsTruth
  <2>1. TellsTruth(t) /\ report.run \in DagRuns /\ Goes(report.run, t)
    BY DEF Truth, TellsTruth
  <2>2. report.tasks[t].try \in Nat
    BY LogBoundsAssumption DEF Truth, Told, Tries
  <2> QED
    BY <1>1, <1>2, <2>1, <2>2 DEF TellsTruth, Goes, Ended
<1>3. ASSUME UNCHANGED pipeline PROVE ShowsTruth'
  <2> SUFFICES ASSUME pipeline.step # "idle" PROVE ShowsTruth'
    BY <1>3 DEF ShowsTruth
  <2>1. ShowsTruth /\ pipeline.run \in DagRuns /\ pipeline.task \in Tasks
    BY DEF Truth, Showings, NoPipeline
  <2>2. Goes(pipeline.run, pipeline.task)
    BY <2>1 DEF Goes
  <2> QED
    BY <1>1, <1>3, <2>1, <2>2 DEF ShowsTruth, Goes
<1> QED
  BY <1>2, <1>3

(* What a log read now is, of a try that has ended or of an earlier one.   *)
LEMMA LogOfEnded ==
  ASSUME NEW r \in DagRuns, NEW t \in Tasks, NEW n \in Tries, Instances,
         n <= instance[r][t].try, n = instance[r][t].try => instance[r][t].state # "running"
  PROVE  LogOf(r, t, n) \in {NoLog, [part |-> "whole", try |-> n]}
BY LogBoundsAssumption DEF LogOf, Instances, Instance, Tries

LEMMA LogTyped ==
  ASSUME NEW r \in DagRuns, NEW t \in Tasks, NEW n \in Tries
  PROVE  LogOf(r, t, n) \in Log /\ NoLog \in Log
BY LogBoundsAssumption DEF LogOf, Log, NoLog, Tries

LEMMA TruthInductive ==
  ASSUME Truth, [LogNext]_logVars
  PROVE  Truth'
<1>1. Instances /\ Instances' /\ \A r \in DagRuns, t \in Tasks : Goes(r, t)
  BY InstancesInductive DEF Truth
<1>2. CASE UNCHANGED <<report, pipeline>>
  BY <1>1, <1>2, TruthLasts DEF Truth
<1>3. CASE ReadLatestRun
  <2>1. report' = [report EXCEPT !.run = latest] /\ UNCHANGED pipeline /\ report.run = 0
    BY <1>3 DEF ReadLatestRun
  <2>2. report' \in [run : 0 .. MaxRuns, tasks : [Tasks -> Told]] /\ report'.tasks = report.tasks
    BY <1>1, <2>1 DEF Truth, Instances
  <2>3. \A t \in Tasks : report.tasks[t].step = "unread"
    BY <2>1 DEF Truth, TellsTruth, DagRuns
  <2>4. \A t \in Tasks : TellsTruth(t)'
    BY <2>2, <2>3 DEF TellsTruth
  <2> QED
    BY <1>1, <2>1, <2>2, <2>4, TruthLasts DEF Truth
<1>4. ASSUME NEW t \in Tasks, ReadInstance(t) PROVE Truth'
  <2> DEFINE now == instance[report.run][t]
  <2>1. UNCHANGED <<pipeline, instance>> /\ report.run \in DagRuns /\ report.run > 0
    BY <1>4, LogBoundsAssumption DEF ReadInstance, Truth, DagRuns
  <2>2. now \in Instance
    BY <1>1, <2>1 DEF Instances
  <2>3. PICK x \in Told :
          /\ report' = [report EXCEPT !.tasks[t] = x]
          /\ x.step = "instance"
          /\ \/ x.state = now.state /\ x.try = now.try
             \/ x.state = "null"
    <3>1. [step |-> "instance", state |-> now.state, try |-> now.try, log |-> NoLog] \in Told
      BY <2>1, <2>2, LogBoundsAssumption DEF Told, Log, NoLog, Tries, Instance
    <3>2. [step |-> "instance", state |-> "null", try |-> 1, log |-> NoLog] \in Told
      BY LogBoundsAssumption DEF Told, Log, NoLog, Tries
    <3> QED
      BY <1>4, <3>1, <3>2 DEF ReadInstance
  <2>4. /\ report' \in [run : 0 .. MaxRuns, tasks : [Tasks -> Told]]
        /\ report'.run = report.run /\ report'.tasks[t] = x
        /\ \A u \in Tasks \ {t} : report'.tasks[u] = report.tasks[u]
    BY <2>3, ReportStep
  <2>5. now.try \in Nat
    BY <2>2, LogBoundsAssumption DEF Instance, Tries
  <2>6. TellsTruth(t)'
    BY <2>1, <2>3, <2>4, <2>5 DEF TellsTruth, Ended
  <2>7. \A u \in Tasks \ {t} : TellsTruth(u)'
    BY <2>1, <2>4 DEF TellsTruth, Truth
  <2> QED
    BY <1>1, <2>1, <2>4, <2>6, <2>7, TruthLasts DEF Truth
<1>5. ASSUME NEW t \in Tasks, ReadLog(t) PROVE Truth'
  <2> DEFINE told == report.tasks[t]
  <2>1. UNCHANGED <<pipeline, instance>> /\ told.step = "instance" /\ told \in Told
    BY <1>5 DEF ReadLog, Truth
  <2>2. report.run \in DagRuns /\ TellsTruth(t)
    BY <2>1 DEF Truth, TellsTruth
  <2>3. PICK log \in {LogOf(report.run, t, told.try), NoLog} :
          report' = [report EXCEPT !.tasks[t].step = "log", !.tasks[t].log = log]
    BY <1>5 DEF ReadLog
  <2>4. log \in Log
    BY <2>1, <2>2, <2>3, LogTyped DEF Told
  <2> DEFINE x == [told EXCEPT !.step = "log", !.log = log]
  <2>5. /\ x \in Told /\ x.step = "log" /\ x.log = log
        /\ x.state = told.state /\ x.try = told.try
    BY <2>1, <2>4 DEF Told
  <2>6. report' = [report EXCEPT !.tasks[t] = x]
    BY <2>1, <2>3 DEF Truth, Told
  <2> HIDE DEF x
  <2>7. /\ report' \in [run : 0 .. MaxRuns, tasks : [Tasks -> Told]]
        /\ report'.run = report.run /\ report'.tasks[t] = x
        /\ \A u \in Tasks \ {t} : report'.tasks[u] = report.tasks[u]
    BY <2>5, <2>6, ReportStep
  <2>8. ASSUME told.state \in Ended
        PROVE  log \in {NoLog, [part |-> "whole", try |-> told.try]}
    <3>1. /\ told.try \in Tries /\ told.try <= instance[report.run][t].try
          /\ told.try = instance[report.run][t].try => instance[report.run][t].state # "running"
      BY <2>1, <2>2, <2>8 DEF TellsTruth, Told, Ended
    <3> QED
      BY <1>1, <2>2, <2>3, <3>1, LogOfEnded
  <2>9. TellsTruth(t)'
    BY <2>1, <2>2, <2>5, <2>7, <2>8 DEF TellsTruth
  <2>10. \A u \in Tasks \ {t} : TellsTruth(u)'
    BY <2>1, <2>7 DEF TellsTruth, Truth
  <2> QED
    BY <1>1, <2>1, <2>7, <2>9, <2>10, TruthLasts DEF Truth
<1>6. ASSUME NEW r \in DagRuns, ListTasks(r) PROVE Truth'
  <2>1. UNCHANGED <<report, instance>>
    BY <1>6 DEF ListTasks
  <2>2. PICK t \in Picked(r) :
          pipeline' = [step |-> "listed", run |-> r, task |-> t,
                       state |-> instance[r][t].state, log |-> NoLog]
    BY <1>6 DEF ListTasks
  <2>3. t \in Tasks /\ instance[r][t].state \in States /\ NoLog \in Log
    BY <1>1, <2>2, LogBoundsAssumption DEF Picked, Instances, Instance, NoLog, Log, Tries
  <2>4. instance[r][t].state = "failed" => instance[r][t].try >= 1
    BY <1>1, <2>3 DEF Instances
  <2>5. ShowsTruth'
    BY <2>1, <2>2, <2>3, <2>4 DEF ShowsTruth
  <2>6. pipeline' \in Showings
    BY <2>2, <2>3 DEF Showings
  <2> QED
    BY <1>1, <2>1, <2>5, <2>6, TruthLasts DEF Truth
<1>7. CASE ShowLog
  <2>1. UNCHANGED <<report, instance>> /\ pipeline.step = "listed"
    BY <1>7 DEF ShowLog
  <2>2. PICK log \in {LogOf(pipeline.run, pipeline.task, 1), NoLog} :
          pipeline' = [pipeline EXCEPT !.step = "shown", !.log = log]
    BY <1>7 DEF ShowLog
  <2>3. pipeline \in Showings
    BY <2>1 DEF Truth, NoPipeline
  <2>4. pipeline.run \in DagRuns /\ pipeline.task \in Tasks /\ 1 \in Tries
    BY <2>3, LogBoundsAssumption DEF Showings, Tries
  <2>5. log \in Log
    BY <2>2, <2>4, LogTyped
  <2>6. /\ pipeline' \in Showings /\ pipeline'.step = "shown" /\ pipeline'.log = log
        /\ pipeline'.run = pipeline.run /\ pipeline'.task = pipeline.task
        /\ pipeline'.state = pipeline.state
    BY <2>2, <2>3, <2>5 DEF Showings
  <2>7. pipeline.state = "failed" => log.part # "partial"
    <3> SUFFICES ASSUME pipeline.state = "failed" PROVE log.part # "partial"
      OBVIOUS
    <3>1. /\ 1 <= instance[pipeline.run][pipeline.task].try
          /\ 1 = instance[pipeline.run][pipeline.task].try =>
               instance[pipeline.run][pipeline.task].state # "running"
      BY <2>1 DEF Truth, ShowsTruth
    <3>2. log \in {NoLog, [part |-> "whole", try |-> 1]}
      BY <1>1, <2>2, <2>4, <3>1, LogOfEnded
    <3> QED
      BY <3>2 DEF NoLog
  <2>8. ShowsTruth'
    BY <2>1, <2>6, <2>7 DEF Truth, ShowsTruth
  <2> QED
    BY <1>1, <2>1, <2>6, <2>8, TruthLasts DEF Truth
<1> QED
  BY <1>2, <1>3, <1>4, <1>5, <1>6, <1>7
  DEF LogNext, Airflow, Reporting, Showing, Searching, StartRun, StartTry, EndTry, Clear,
      Upload, SearchExact, ListingFails, SearchBroad, logVars

(* For any runs, tasks and tries, and whatever happens to a task between   *)
(* two reads: what is told of an ended task is told of the try that ended. *)
THEOREM ReportsTellTheTruth == LogSpec => []ReportsAreTrue
<1>1. LogInit => Truth
  <2>1. Unread \in Told
    BY LogBoundsAssumption DEF Unread, Told, NoLog, Log, Tries, States
  <2> QED
    BY <2>1, LogBoundsAssumption
    DEF LogInit, Truth, Instances, Instance, TellsTruth, ShowsTruth, NoPipeline, Unread,
        Tries, States
<1>2. Truth => ReportsAreTrue
  <2> SUFFICES ASSUME Truth PROVE ReportsAreTrue
    OBVIOUS
  <2>1. ASSUME NEW t \in Tasks,
               report.tasks[t].step = "log", report.tasks[t].state \in Ended
        PROVE  /\ report.tasks[t].log
                    \in {NoLog, [part |-> "whole", try |-> report.tasks[t].try]}
               /\ report.tasks[t].try = instance[report.run][t].try =>
                    instance[report.run][t].state \in {report.tasks[t].state, "none"}
    BY <2>1 DEF Truth, TellsTruth
  <2>2. pipeline.step = "shown" /\ pipeline.state = "failed" => pipeline.log.part # "partial"
    BY DEF Truth, ShowsTruth
  <2> QED
    BY <2>1, <2>2 DEF ReportsAreTrue
<1> QED
  BY <1>1, <1>2, TruthInductive, PTL DEF LogSpec

----------------------------------------------------------------------------
(* What a search that found nothing of its own goes on with.               *)
Searches == [step   : {"exact", "done", "failed"}, text : Queries,
             before : SUBSET Blob, found : SUBSET Blob]

Searched ==
  /\ blobs \subseteq Blob
  /\ search \in {NoSearch} \cup Searches
  /\ search.step = "exact" => search.before = {}
  /\ SearchFindsItsRun

(* Whatever is uploaded while a search is on, and whatever a text is part  *)
(* of: the logs of the run that the text names are found, and alone.       *)
THEOREM SearchesFindTheirRun == LogSpec => []SearchFindsItsRun
<1>1. LogInit => Searched
  BY DEF LogInit, Searched, SearchFindsItsRun, NoSearch
<1>2. Searched /\ [LogNext]_logVars => Searched'
  <2> SUFFICES ASSUME Searched, [LogNext]_logVars PROVE Searched'
    OBVIOUS
  <2>1. ASSUME NEW q \in Queries, SearchExact(q) PROVE Searched'
    <3> DEFINE own == BlobsOf({RunNamed[q]})
    <3>1. UNCHANGED blobs /\ search' = [step   |-> IF own = {} THEN "exact" ELSE "done",
                                        text   |-> q, before |-> own, found |-> own]
      BY <2>1 DEF SearchExact
    <3>2. \A b \in own : b.run = RunNamed[q] /\ b.run \in DagRuns
      BY DEF BlobsOf, Searched, Blob
    <3>3. \A b \in own : b.run \in RunsIncluding[q]
      BY <3>2, NamesAssumption, LogBoundsAssumption DEF DagRuns
    <3> HIDE DEF own
    <3>4. own \in SUBSET Blob
      BY DEF own, BlobsOf, Searched
    <3>5. /\ search'.step = (IF own = {} THEN "exact" ELSE "done")
          /\ search'.text = q /\ search'.before = own /\ search'.found = own
      BY <3>1
    <3>6. search' \in Searches
      BY <3>1, <3>4 DEF Searches
    <3> QED
      BY <3>1, <3>2, <3>3, <3>5, <3>6 DEF Searched, SearchFindsItsRun
  <2>2. CASE SearchBroad
    <3>1. PICK found \in SUBSET BlobsOf(RunsIncluding[search.text]) :
            search' = [search EXCEPT !.step = "done", !.found = found]
      BY <2>2 DEF SearchBroad
    <3>2. \A b \in found : b.run \in RunsIncluding[search.text]
      BY <3>1 DEF BlobsOf
    <3>3. search \in Searches /\ search.before = {} /\ UNCHANGED blobs
      BY <2>2 DEF SearchBroad, Searched, NoSearch
    <3>4. found \in SUBSET Blob
      BY <3>1 DEF BlobsOf, Searched
    <3>5. /\ search' \in Searches /\ search'.step = "done" /\ search'.found = found
          /\ search'.before = {} /\ search'.text = search.text
      BY <3>1, <3>3, <3>4 DEF Searches
    <3> QED
      BY <3>2, <3>3, <3>5 DEF Searched, SearchFindsItsRun
  <2>3. CASE UNCHANGED search /\ blobs' \subseteq Blob
    BY <2>3 DEF Searched, SearchFindsItsRun
  <2>4. ASSUME NEW b \in Blob, Upload(b) PROVE Searched'
    BY <2>3, <2>4 DEF Upload, Searched
  <2>5. CASE Airflow \/ Reporting \/ Showing \/ UNCHANGED logVars
    BY <2>3, <2>5
    DEF Airflow, Reporting, Showing, StartRun, StartTry, EndTry, Clear, ReadLatestRun,
        ReadInstance, ReadLog, ListTasks, ShowLog, logVars, Searched
  <2>6. ASSUME NEW q \in Queries, ListingFails(q) PROVE Searched'
    <3>1. /\ UNCHANGED blobs
          /\ search' = [step |-> "failed", text |-> q, before |-> {}, found |-> {}]
      BY <2>6 DEF ListingFails
    <3> QED
      BY <3>1 DEF Searched, Searches, SearchFindsItsRun
  <2> QED
    BY <2>1, <2>2, <2>4, <2>5, <2>6 DEF LogNext, Searching
<1>3. Searched => SearchFindsItsRun
  BY DEF Searched
<1> QED
  BY <1>1, <1>2, <1>3, PTL DEF LogSpec

----------------------------------------------------------------------------
(* GitlabSync and K8sDeploy: their types, that the synchronisation deletes *)
(* no row it should keep, that what is recorded as deployed runs, and that *)
(* registered hosts lead to their cluster.                                 *)

(* What the tables and GitLab hold.                                        *)
Tables ==
  /\ rows \subseteq Repos
  /\ requests \subseteq rows
  /\ projects \subseteq Project
  /\ made \in 0 .. MaxProjects
  /\ Names(recorded) \subseteq rows
  /\ faults \in 0 .. MaxFaults

SyncSteps == {"idle", "listed", "deleting", "done", "aborted"}

SyncRecord ==
  [step : SyncSteps, listed : SUBSET Project, there : SUBSET Project,
   doomed : SUBSET Repos, stray : SUBSET Project, alone : BOOLEAN]

(* The two parts are the type invariant of GitlabSync.                     *)
LEMMA TypeByParts == SyncTypeOK <=> Tables /\ sync \in SyncRecord
BY DEF SyncTypeOK, Tables, SyncRecord, SyncSteps

(* What comes between only takes from a synchronisation that it is alone.  *)
LEMMA DisturbTyped ==
  ASSUME sync \in SyncRecord, Disturb
  PROVE  /\ sync' \in SyncRecord
         /\ sync'.step = sync.step /\ sync'.listed = sync.listed /\ sync'.there = sync.there
         /\ sync'.stray = sync.stray /\ sync'.doomed = sync.doomed
         /\ sync.step \in {"listed", "deleting"} => ~sync'.alone
<1>1. (sync.step \in {"idle", "done", "aborted"}) \in BOOLEAN
  OBVIOUS
<1>. QED
  BY <1>1 DEF Disturb, SyncRecord

(* The initial state, and each step of the synchronisation's module, keep  *)
(* to the types.                                                           *)
LEMMA SyncTyped ==
  /\ SyncInit => SyncTypeOK
  /\ SyncTypeOK /\ SyncNext => SyncTypeOK'
<1>1. ASSUME SyncInit PROVE SyncTypeOK
  BY <1>1, SyncBoundsAssumption DEF SyncInit, SyncTypeOK, NoSync, Names
<1>2. ASSUME SyncTypeOK, SyncNext PROVE SyncTypeOK'
  <2>. SUFFICES Tables' /\ sync' \in SyncRecord
    BY TypeByParts DEF SyncTypeOK, Tables, SyncRecord, SyncSteps
  <2>. Tables /\ sync \in SyncRecord
    BY <1>2, TypeByParts
  <2>1. ASSUME NEW r \in Repos, CreateRow(r) \/ CreateRequestRow(r)
        PROVE  Tables' /\ sync' \in SyncRecord
    BY <2>1, DisturbTyped DEF CreateRow, CreateRequestRow, Tables
  <2>2. ASSUME NEW name \in Repos \cup Foreign, MakeProject(name)
        PROVE  Tables' /\ sync' \in SyncRecord
    <3>1. made + 1 \in 1 .. MaxProjects
      BY <2>2, SyncBoundsAssumption DEF MakeProject, Tables
    <3>2. [id |-> made + 1, name |-> name] \in Project
      BY <3>1 DEF Project
    <3>. QED
      BY <2>2, <3>1, <3>2, DisturbTyped DEF MakeProject, Tables
  <2>3. ASSUME NEW p \in Project, DropProject(p)
        PROVE  Tables' /\ sync' \in SyncRecord
    BY <2>3, DisturbTyped DEF DropProject, Without, Tables
  <2>4. ASSUME ListProjects PROVE Tables' /\ sync' \in SyncRecord
    BY <2>4 DEF ListProjects, FirstPage, NoSync, Tables, SyncRecord, SyncSteps
  <2>5. ASSUME ReadRows PROVE Tables' /\ sync' \in SyncRecord
    BY <2>5 DEF ReadRows, Tables, SyncRecord, SyncSteps
  <2>6. ASSUME AbortSync \/ FinishSync PROVE Tables' /\ sync' \in SyncRecord
    <3>1. sync' \in SyncRecord
      BY <2>6 DEF AbortSync, FinishSync, SyncRecord, SyncSteps
    <3>2. Tables'
      BY <2>6, SyncBoundsAssumption DEF AbortSync, FinishSync, Tables
    <3>. QED
      BY <3>1, <3>2
  <2>7. ASSUME NEW p \in Project, DeleteProject(p) PROVE Tables' /\ sync' \in SyncRecord
    <3>1. sync' \in SyncRecord
      BY <2>7 DEF DeleteProject, SyncRecord
    <3>2. faults' \in 0 .. MaxFaults
      BY <2>7, SyncBoundsAssumption DEF DeleteProject, Tables
    <3>3. UNCHANGED <<rows, requests, made, recorded>> /\ projects' \subseteq projects
      BY <2>7 DEF DeleteProject, Without
    <3>. QED
      BY <3>1, <3>2, <3>3 DEF Tables
  <2>8. ASSUME NEW r \in Repos, DeleteRow(r) PROVE Tables' /\ sync' \in SyncRecord
    BY <2>8 DEF DeleteRow, Tables, SyncRecord, SyncSteps
  <2>. QED
    BY <1>2, <2>1, <2>2, <2>3, <2>4, <2>5, <2>6, <2>7, <2>8
    DEF SyncNext, SyncRepositories, Surroundings
<1>. QED
  BY <1>1, <1>2

(* GitLab's projects are numbered in the order they are made.              *)
Numbered(ps) ==
  /\ IsFiniteSet(ps)
  /\ \A p \in ps : p.id <= made
  /\ \A p, q \in ps : p.id = q.id => p = q

(* What a synchronisation under way has read: all there was, unless there  *)
(* was too much of it; and what it makes of that.                          *)
Listing ==
  sync.step \in {"listed", "deleting"} =>
    /\ Numbered(sync.there)
    /\ sync.listed \subseteq sync.there
    /\ Cut \/ sync.listed = sync.there
    /\ sync.stray \subseteq sync.listed
    /\ sync.doomed \cap Names(sync.listed) = {}

(* As long as it is alone, GitLab is as it was listed, ...                 *)
AsListed ==
  sync.step = "listed" /\ sync.alone => projects = sync.there

(* ... and then but for the deletions: a row has a project on the page or  *)
(* is doomed, and a project has a row or is about to go.                   *)
AsDeleted ==
  sync.step = "deleting" /\ sync.alone =>
    /\ projects \subseteq sync.there
    /\ rows \subseteq Names(sync.listed) \cup sync.doomed
    /\ \A p \in sync.listed : p.name \in rows => p \in projects \ sync.stray
    /\ Cut \/ \A p \in projects : p \in sync.stray \/ p.name \in rows

Aligning == SyncTypeOK /\ Numbered(projects) /\ Listing /\ AsListed /\ AsDeleted

(* A first page holds all projects, unless there are more than go on it.   *)
LEMMA OnOnePage ==
  ASSUME projects \subseteq Project, IsFiniteSet(projects),
         ~(Cardinality(projects) > PageSize)
  PROVE  FirstPage = projects
<1>1. ASSUME NEW p \in projects
      PROVE  Cardinality({q \in projects : q.id > p.id}) < PageSize
  <2> DEFINE above == {q \in projects : q.id > p.id}
  <2>1. ~(p.id > p.id)
    BY DEF Project
  <2>2. above \in SUBSET (projects \ {p})
    BY <2>1
  <2>3. /\ IsFiniteSet(projects \ {p})
        /\ Cardinality(projects \ {p}) = Cardinality(projects) - 1
    BY FS_RemoveElement
  <2>4. /\ Cardinality(above) <= Cardinality(projects \ {p})
        /\ Cardinality(above) \in Nat /\ Cardinality(projects) \in Nat
    BY <2>2, <2>3, FS_Subset, FS_CardinalityType
  <2>. QED
    BY <2>3, <2>4, PageAssumption
<1>. QED
  BY <1>1 DEF FirstPage

(* What interferes makes the synchronisation one that is not alone.        *)
LEMMA InterferenceKeepsAligning ==
  ASSUME Aligning, Disturb, SyncTypeOK', Numbered(projects)', made' \in {made, made + 1}
  PROVE  Aligning'
<1>1. /\ sync \in SyncRecord /\ made \in Nat /\ \A p \in sync.there : p.id \in Nat
  BY TypeByParts, SyncBoundsAssumption DEF Aligning, Tables, SyncRecord, Project
<1>2. /\ sync'.step = sync.step /\ sync'.listed = sync.listed /\ sync'.there = sync.there
      /\ sync'.stray = sync.stray /\ sync'.doomed = sync.doomed
      /\ sync.step \in {"listed", "deleting"} => ~sync'.alone
  BY <1>1, DisturbTyped
<1>3. Listing'
  <2>1. Numbered(sync.there) => Numbered(sync.there)'
    BY <1>1, <1>2 DEF Numbered
  <2>. QED
    BY <1>2, <2>1 DEF Aligning, Listing, Cut, Names
<1>. QED
  BY <1>2, <1>3 DEF Aligning, AsListed, AsDeleted

(* So do rows, projects and deployments that come and go.                  *)
LEMMA SurroundingsKeepAligning ==
  ASSUME Aligning, Surroundings, SyncTypeOK'
  PROVE  Aligning'
<1>1. Disturb /\ made' \in {made, made + 1}
  BY DEF Surroundings, CreateRow, CreateRequestRow, MakeProject, DropProject
<1>2. Numbered(projects)'
  <2>1. CASE UNCHANGED <<projects, made>>
    BY <2>1 DEF Aligning, Numbered
  <2>2. ASSUME NEW name \in Repos \cup Foreign, MakeProject(name)
        PROVE  Numbered(projects)'
    <3> DEFINE new == [id |-> made + 1, name |-> name]
    <3>1. projects' = projects \cup {new} /\ made' = made + 1 /\ new.id = made + 1
      BY <2>2 DEF MakeProject
    <3>2. made \in Nat /\ \A p \in projects : p.id \in Nat /\ p.id <= made
      BY TypeByParts, SyncBoundsAssumption DEF Aligning, Tables, Project, Numbered
    <3>3. IsFiniteSet(projects')
      BY <3>1, FS_AddElement DEF Aligning, Numbered
    <3>. HIDE DEF new
    <3>4. \A p \in projects' : p = new \/ (p \in projects /\ p.id < new.id)
      BY <3>1, <3>2
    <3>5. \A p \in projects' : p.id <= made'
      BY <3>1, <3>2
    <3>6. \A p, q \in projects' : p.id = q.id => p = q
      BY <3>1, <3>2, <3>4 DEF Aligning, Numbered
    <3>. QED
      BY <3>3, <3>5, <3>6 DEF Numbered
  <2>3. ASSUME NEW p \in Project, DropProject(p) PROVE Numbered(projects)'
    <3>1. projects' \subseteq projects /\ made' = made
      BY <2>3 DEF DropProject, Without
    <3>. QED
      BY <3>1, FS_Subset DEF Aligning, Numbered
  <2>. QED
    BY <2>1, <2>2, <2>3 DEF Surroundings, CreateRow, CreateRequestRow
<1>. QED
  BY <1>1, <1>2, InterferenceKeepsAligning

(* The synchronisation's own steps.                                        *)
LEMMA SynchronisationKeepsAligning ==
  ASSUME Aligning, SyncRepositories, SyncTypeOK'
  PROVE  Aligning'
<1>1. /\ Tables /\ sync \in SyncRecord
  BY TypeByParts DEF Aligning
<1>2. ASSUME ListProjects PROVE Aligning'
  <2>1. /\ sync'.step = "listed" /\ sync'.listed = FirstPage /\ sync'.there = projects
        /\ sync'.doomed = {} /\ sync'.stray = {}
        /\ UNCHANGED <<projects, made>>
    BY <1>2 DEF ListProjects, NoSync
  <2>2. FirstPage \subseteq projects /\ (Cut' \/ FirstPage = projects)
    BY <1>1, <2>1, OnOnePage DEF Tables, Aligning, Numbered, FirstPage, Cut
  <2>3. Numbered(projects)' /\ Numbered(sync.there)'
    BY <2>1 DEF Aligning, Numbered
  <2>. QED
    BY <2>1, <2>2, <2>3 DEF Aligning, Listing, AsListed, AsDeleted
<1>3. ASSUME ReadRows PROVE Aligning'
  <2>1. /\ sync.step = "listed" /\ sync'.step = "deleting"
        /\ sync'.listed = sync.listed /\ sync'.there = sync.there
        /\ sync'.alone = sync.alone
        /\ sync'.stray = {p \in sync.listed : p.name \notin rows}
        /\ sync'.doomed = rows \ Names(sync.listed)
        /\ UNCHANGED <<rows, projects, made>>
    BY <1>1, <1>3 DEF ReadRows, SyncRecord
  <2>2. Numbered(projects)' /\ Numbered(sync.there)'
    BY <2>1 DEF Aligning, Numbered, Listing
  <2>3. Listing'
    BY <2>1, <2>2 DEF Aligning, Listing, Cut, Names
  <2>4. AsDeleted'
    BY <2>1 DEF Aligning, Listing, AsListed, AsDeleted, Cut, Names
  <2>. QED
    BY <2>1, <2>2, <2>3, <2>4 DEF Aligning, AsListed
<1>4. ASSUME AbortSync \/ FinishSync PROVE Aligning'
  <2>1. sync'.step \in {"aborted", "done"} /\ UNCHANGED <<projects, made>>
    BY <1>1, <1>4 DEF AbortSync, FinishSync, SyncRecord
  <2>. QED
    BY <2>1 DEF Aligning, Numbered, Listing, AsListed, AsDeleted
<1>5. ASSUME NEW p \in Project, DeleteProject(p) PROVE Aligning'
  <2>1. /\ sync.step = "deleting" /\ sync'.step = "deleting" /\ p \in sync.stray
        /\ sync'.listed = sync.listed /\ sync'.there = sync.there
        /\ sync'.doomed = sync.doomed
        /\ sync'.stray = sync.stray \ {p}
        /\ UNCHANGED <<rows, made>>
    BY <1>1, <1>5 DEF DeleteProject, SyncRecord
  <2>2. projects' \subseteq projects
    BY <1>5 DEF DeleteProject, Without
  <2>3. Numbered(projects)' /\ Numbered(sync.there)'
    BY <2>1, <2>2, FS_Subset DEF Aligning, Numbered, Listing
  <2>4. Listing'
    BY <2>1, <2>3 DEF Aligning, Listing, Cut, Names
  <2>5. ASSUME sync'.alone PROVE AsDeleted'
    <3>1. projects' = Without(p.id) /\ sync.alone
      BY <1>1, <1>5, <2>5 DEF DeleteProject, SyncRecord
    <3>2. projects \subseteq sync.there /\ p \in sync.there
      BY <2>1, <3>1 DEF Aligning, Listing, AsDeleted
    <3>3. projects' = projects \ {p}
      BY <2>1, <3>1, <3>2 DEF Aligning, Listing, Numbered, Without
    <3>. QED
      BY <2>1, <3>1, <3>2, <3>3 DEF Aligning, Listing, AsDeleted, Cut, Names
  <2>. QED
    BY <2>1, <2>3, <2>4, <2>5 DEF Aligning, AsListed, AsDeleted
<1>6. ASSUME NEW r \in Repos, DeleteRow(r) PROVE Aligning'
  <2>1. UNCHANGED <<projects, made>> /\ sync.step = "deleting"
    BY <1>6 DEF DeleteRow
  <2>2. CASE sync'.step = "aborted"
    BY <2>1, <2>2 DEF Aligning, Numbered, Listing, AsListed, AsDeleted
  <2>3. CASE sync'.step # "aborted"
    <3>1. /\ sync'.step = "deleting" /\ r \in sync.doomed
          /\ sync'.listed = sync.listed /\ sync'.there = sync.there
          /\ sync'.stray = sync.stray /\ sync'.alone = sync.alone
          /\ sync'.doomed = sync.doomed \ {r}
          /\ rows' = rows \ {r}
      BY <1>1, <1>6, <2>3 DEF DeleteRow, SyncRecord
    <3>2. Numbered(projects)' /\ Numbered(sync.there)'
      BY <2>1, <3>1 DEF Aligning, Numbered, Listing
    <3>3. Listing'
      BY <3>1, <2>1, <3>2 DEF Aligning, Listing, Cut, Names
    <3>4. AsDeleted'
      BY <2>1, <3>1 DEF Aligning, Listing, AsDeleted, Cut, Names
    <3>. QED
      BY <3>1, <3>2, <3>3, <3>4 DEF Aligning, AsListed
  <2>. QED
    BY <2>2, <2>3
<1>. QED
  BY <1>2, <1>3, <1>4, <1>5, <1>6 DEF SyncRepositories

(* Nothing has been read at first.                                         *)
LEMMA AligningInitially == SyncInit => Aligning
<1>. SUFFICES ASSUME SyncInit PROVE Aligning
  OBVIOUS
<1>1. Numbered(projects)
  BY FS_EmptySet DEF SyncInit, Numbered
<1>. QED
  BY <1>1, SyncTyped DEF SyncInit, NoSync, Aligning, Listing, AsListed, AsDeleted

----------------------------------------------------------------------------
(* What a call knows at each of its awaits.                                *)
CallRecord ==
  [step    : {"idle", "project", "image", "cluster", "search", "write", "apply",
              "applied", "recorded", "unrecorded", "failed"},
   repo    : Repos \cup {"none"},
   cluster : K8sClusters \cup {"none"},
   image   : 0 .. MaxProjects,
   to      : Addresses \cup {NoAddress},
   found   : SUBSET Record,
   named   : {"no", "yes", "lost"}]

Imaged == {"cluster", "search", "write", "apply", "applied", "recorded", "unrecorded"}

(* A call has what the steps behind it were to find out.                   *)
Chosen(d) ==
  /\ deploy[d].step \in {"project", "image"} \cup Imaged =>
       deploy[d].repo \in Repos /\ deploy[d].cluster \in K8sClusters
  /\ deploy[d].step \in {"image"} \cup Imaged => deploy[d].image \in 1 .. MaxProjects

(* The types of the calls, of what they find and of what they leave.       *)
CallsTyped ==
  /\ deploy \in [Deploys -> CallRecord]
  /\ \A d \in Deploys : Chosen(d)

WorldTyped ==
  /\ images \subseteq 1 .. MaxProjects
  /\ ready \subseteq K8sClusters
  /\ address \in [K8sClusters -> Addresses \cup {NoAddress}]
  /\ moves \in [K8sClusters -> Nat]

ResultsTyped ==
  /\ dns \subseteq Record
  /\ workloads \subseteq Workload
  /\ recorded \subseteq Workload

DeployTyped == SyncTypeOK /\ CallsTyped /\ WorldTyped /\ ResultsTyped

(* With the calls' records, these are the type invariant of K8sDeploy.     *)
LEMMA DeployTypeByParts ==
  DeployTypeOK <=> WorldTyped /\ ResultsTyped /\ deploy \in [Deploys -> CallRecord]
BY DEF DeployTypeOK, WorldTyped, ResultsTyped, CallRecord

(* A step of a call is about that call only.                               *)
LEMMA DeployFrame ==
  ASSUME CallsTyped, NEW d \in Deploys, DeployToK8sCluster(d)
  PROVE  /\ deploy' = [e \in Deploys |-> deploy'[e]]
         /\ \A e \in Deploys \ {d} : deploy'[e] = deploy[e]
         /\ UNCHANGED <<rows, requests, projects, made, faults, worldVars>>
<1>. USE DEF syncVars, worldVars, Go, Refuse
<1>1. ASSUME NEW r \in Repos, NEW k \in K8sClusters, DeployCall(d, r, k)
      PROVE  /\ deploy' = [e \in Deploys |-> deploy'[e]]
             /\ \A e \in Deploys \ {d} : deploy'[e] = deploy[e]
             /\ UNCHANGED <<rows, requests, projects, made, faults, worldVars>>
  BY <1>1 DEF DeployCall, CallsTyped
<1>2. ASSUME FindProject(d) \/ GetImage(d) \/ ReadCluster(d)
      PROVE  /\ deploy' = [e \in Deploys |-> deploy'[e]]
             /\ \A e \in Deploys \ {d} : deploy'[e] = deploy[e]
             /\ UNCHANGED <<rows, requests, projects, made, faults, worldVars>>
  BY <1>2 DEF FindProject, GetImage, ReadCluster, CallsTyped
<1>3. ASSUME SearchRecord(d) \/ WriteRecord(d) \/ LoseName(d)
      PROVE  /\ deploy' = [e \in Deploys |-> deploy'[e]]
             /\ \A e \in Deploys \ {d} : deploy'[e] = deploy[e]
             /\ UNCHANGED <<rows, requests, projects, made, faults, worldVars>>
  BY <1>3 DEF SearchRecord, WriteRecord, LoseName, Found, CallsTyped
<1>4. ASSUME Apply(d) \/ RecordDeployment(d)
      PROVE  /\ deploy' = [e \in Deploys |-> deploy'[e]]
             /\ \A e \in Deploys \ {d} : deploy'[e] = deploy[e]
             /\ UNCHANGED <<rows, requests, projects, made, faults, worldVars>>
  BY <1>4 DEF Apply, RecordDeployment, CallsTyped
<1>. QED
  BY <1>1, <1>2, <1>3, <1>4 DEF DeployToK8sCluster

(* A call of the cluster and the project it has found remembers them.      *)
LEMMA CallTyped ==
  ASSUME DeployTyped, NEW d \in Deploys, DeployToK8sCluster(d)
  PROVE  deploy'[d] \in CallRecord /\ Chosen(d)'
<1>1. CallsTyped /\ deploy[d] \in CallRecord /\ deploy \in [Deploys -> CallRecord]
  BY DEF DeployTyped, CallsTyped
<1>2. /\ projects \subseteq Project /\ address \in [K8sClusters -> Addresses \cup {NoAddress}]
      /\ ready \subseteq K8sClusters /\ dns \subseteq Record /\ rows \subseteq Repos
  BY TypeByParts DEF DeployTyped, Tables, WorldTyped, ResultsTyped
<1>3. Chosen(d)
  BY DEF DeployTyped, CallsTyped
<1>. USE DEF At, Go, Refuse, CallRecord, Chosen, Imaged
<1>4. ASSUME NEW r \in Repos, NEW k \in K8sClusters, DeployCall(d, r, k)
      PROVE  deploy'[d] \in CallRecord /\ Chosen(d)'
  BY <1>1, <1>4 DEF DeployCall
<1>5. ASSUME FindProject(d) PROVE deploy'[d] \in CallRecord /\ Chosen(d)'
  <2>1. CASE Refuse(d)
    BY <1>1, <1>3, <2>1
  <2>2. ASSUME NEW p \in projects,
               deploy' = [deploy EXCEPT ![d].step = "image", ![d].image = p.id]
        PROVE  deploy'[d] \in CallRecord /\ Chosen(d)'
    <3>1. p.id \in 1 .. MaxProjects /\ p.id \in 0 .. MaxProjects
      BY <1>2, SyncBoundsAssumption DEF Project
    <3>. QED
      BY <1>1, <1>3, <1>5, <2>2, <3>1 DEF FindProject
  <2>. QED
    BY <1>5, <2>1, <2>2 DEF FindProject
<1>6. ASSUME GetImage(d) PROVE deploy'[d] \in CallRecord /\ Chosen(d)'
  BY <1>1, <1>3, <1>6 DEF GetImage
<1>7. ASSUME ReadCluster(d) PROVE deploy'[d] \in CallRecord /\ Chosen(d)'
  BY <1>1, <1>2, <1>3, <1>7 DEF ReadCluster
<1>8. ASSUME SearchRecord(d) PROVE deploy'[d] \in CallRecord /\ Chosen(d)'
  <2>1. ASSUME NEW records \in SUBSET Record, Found(d, records)
        PROVE  deploy'[d] \in CallRecord /\ Chosen(d)'
    BY <1>1, <1>3, <1>8, <2>1 DEF SearchRecord, Found
  <2>. QED
    BY <1>2, <1>8, <2>1 DEF SearchRecord
<1>9. ASSUME WriteRecord(d) \/ LoseName(d) PROVE deploy'[d] \in CallRecord /\ Chosen(d)'
  BY <1>1, <1>3, <1>9 DEF WriteRecord, LoseName
<1>10. ASSUME Apply(d) \/ RecordDeployment(d) PROVE deploy'[d] \in CallRecord /\ Chosen(d)'
  BY <1>1, <1>3, <1>10 DEF Apply, RecordDeployment
<1>. QED
  BY <1>4, <1>5, <1>6, <1>7, <1>8, <1>9, <1>10 DEF DeployToK8sCluster

----------------------------------------------------------------------------
(* Cloudflare's records are numbered, and no two say the same.             *)
Records ==
  /\ dns \subseteq Record /\ IsFiniteSet(dns)
  /\ \A rec \in dns : rec.number \in 1 .. Cardinality(dns)
  /\ \A x, y \in dns : x.number = y.number => x = y
  /\ \A x, y \in dns : x.host = y.host /\ x.address = y.address => x = y

(* A call that registers, or has registered, a host has an address of the  *)
(* cluster, the only one unless the cluster has been moved; ...            *)
HasAddress(d) ==
  deploy[d].step \in {"search", "write"} \/ deploy[d].named = "yes" =>
    /\ deploy[d].cluster \in ready
    /\ deploy[d].to \in Addresses
    /\ moves[deploy[d].cluster] = 0 => deploy[d].to = address[deploy[d].cluster]

(* ... what it has registered stays, if perhaps with another address; ...  *)
HasRecord(d) ==
  deploy[d].named = "yes" =>
    /\ deploy[d].step \in {"apply", "applied", "recorded", "unrecorded", "failed"}
    /\ \E rec \in dns : rec.host = HostOf(d)

(* ... and the record it has found, too.                                   *)
Persists(rec) == \E now \in dns : now.number = rec.number /\ now.host = rec.host

HasFound(d) ==
  deploy[d].step = "write" =>
    \/ deploy[d].found = {}
    \/ \E rec \in deploy[d].found :
         deploy[d].found = {rec} /\ rec.host = HostOf(d) /\ Persists(rec)

(* Every record is some call's.                                            *)
Writer(d, rec) ==
  deploy[d].named = "yes" /\ HostOf(d) = rec.host /\ deploy[d].to = rec.address

Naming ==
  /\ Records
  /\ \A d \in Deploys : HasAddress(d) /\ HasRecord(d) /\ HasFound(d)
  /\ \A rec \in dns : \E d \in Deploys : Writer(d, rec)

(* A record that is added gets the next number; ...                        *)
LEMMA AddRecord ==
  ASSUME Records, NEW new \in Record, new.number = Cardinality(dns) + 1,
         dns' = {rec \in dns : rec.number # new.number} \cup {new},
         \A rec \in dns : ~(rec.host = new.host /\ rec.address = new.address)
  PROVE  /\ Records'
         /\ \A rec \in dns : rec \in dns'
<1>1. Cardinality(dns) \in Nat
  BY FS_CardinalityType DEF Records
<1>2. \A rec \in dns : rec.number \in Nat /\ rec.number < new.number
  BY <1>1 DEF Records
<1>3. dns' = dns \cup {new} /\ new \notin dns
  BY <1>2
<1>4. IsFiniteSet(dns') /\ Cardinality(dns') = Cardinality(dns) + 1
  BY <1>3, FS_AddElement DEF Records
<1>5. \A rec \in dns' : rec.number \in 1 .. Cardinality(dns')
  BY <1>1, <1>3, <1>4 DEF Records
<1>6. \A x, y \in dns' : x.number = y.number => x = y
  BY <1>2, <1>3 DEF Records
<1>7. \A x, y \in dns' : x.host = y.host /\ x.address = y.address => x = y
  BY <1>3 DEF Records
<1>. QED
  BY <1>3, <1>4, <1>5, <1>6, <1>7 DEF Records

(* ... one that is changed keeps its number and its host.                  *)
LEMMA ChangeRecord ==
  ASSUME Records, NEW new \in Record, NEW now \in dns,
         now.number = new.number, now.host = new.host,
         dns' = {rec \in dns : rec.number # new.number} \cup {new},
         \A rec \in dns : ~(rec.host = new.host /\ rec.address = new.address)
  PROVE  /\ Records'
         /\ \A rec \in dns : \E later \in dns' :
              later.number = rec.number /\ later.host = rec.host
<1>1. dns' = (dns \ {now}) \cup {new} /\ new \notin dns
  BY DEF Records
<1>2. IsFiniteSet(dns') /\ Cardinality(dns') = Cardinality(dns)
  <2>1. /\ IsFiniteSet(dns \ {now})
        /\ Cardinality(dns \ {now}) = Cardinality(dns) - 1
    BY FS_RemoveElement DEF Records
  <2>2. new \notin dns \ {now}
    BY <1>1
  <2>3. /\ IsFiniteSet(dns')
        /\ Cardinality(dns') = Cardinality(dns \ {now}) + 1
    BY <1>1, <2>1, <2>2, FS_AddElement
  <2>4. Cardinality(dns) \in Nat
    BY FS_CardinalityType DEF Records
  <2>. QED
    BY <2>1, <2>3, <2>4
<1>3. \A rec \in dns' : rec.number \in 1 .. Cardinality(dns')
  BY <1>1, <1>2 DEF Records
<1>4. \A x, y \in dns' : x.number = y.number => x = y
  BY <1>1 DEF Records
<1>5. \A x, y \in dns' : x.host = y.host /\ x.address = y.address => x = y
  BY <1>1 DEF Records
<1>. QED
  BY <1>1, <1>2, <1>3, <1>4, <1>5 DEF Records

(* A step of a call keeps this, if what the call knows is true of it, and  *)
(* no host that has a record loses it.                                     *)
LEMMA NamingFrame ==
  ASSUME Naming, NEW d \in Deploys, UNCHANGED worldVars,
         \A e \in Deploys \ {d} : deploy'[e] = deploy[e],
         deploy[d].named = "yes" =>
           /\ deploy'[d].named = "yes"
           /\ deploy'[d].cluster = deploy[d].cluster /\ deploy'[d].to = deploy[d].to,
         HasAddress(d)', HasRecord(d)', HasFound(d)',
         Records',
         \A rec \in dns : \E later \in dns' :
           later.number = rec.number /\ later.host = rec.host,
         \A rec \in dns' : rec \in dns \/ Writer(d, rec)'
  PROVE  Naming'
<1>1. ASSUME NEW e \in Deploys PROVE HasAddress(e)' /\ HasRecord(e)' /\ HasFound(e)'
  <2>1. CASE e = d
    BY <2>1
  <2>2. CASE e # d
    <3>1. deploy'[e] = deploy[e] /\ HasAddress(e) /\ HasRecord(e) /\ HasFound(e)
      BY <2>2 DEF Naming
    <3>2. HasAddress(e)' /\ HasRecord(e)'
      BY <3>1 DEF HasAddress, HasRecord, HostOf, worldVars
    <3>3. ASSUME NEW rec, Persists(rec) PROVE Persists(rec)'
      BY <3>3 DEF Persists
    <3>4. HasFound(e)'
      BY <3>1, <3>3 DEF HasFound, HostOf
    <3>. QED
      BY <3>2, <3>4
  <2>. QED
    BY <2>1, <2>2
<1>2. ASSUME NEW rec \in dns' PROVE \E e \in Deploys : Writer(e, rec)'
  <2>1. CASE Writer(d, rec)'
    BY <2>1
  <2>2. CASE rec \in dns
    <3>1. PICK e \in Deploys : Writer(e, rec)
      BY <2>2 DEF Naming
    <3>2. Writer(e, rec)'
      BY <3>1 DEF Writer, HostOf
    <3>. QED
      BY <3>2
  <2>. QED
    BY <2>1, <2>2
<1>. QED
  BY <1>1, <1>2 DEF Naming

(* Before a call has looked for a record, it has written none.             *)
LEMMA NotYetNamed ==
  ASSUME Naming, NEW d \in Deploys, deploy[d].named = "yes"
  PROVE  deploy[d].step \notin {"idle", "project", "image", "cluster", "search", "write"}
BY DEF Naming, HasRecord

(* So the steps of a call keep hosts, records and calls in accord: only    *)
(* the two that write a record do more than forget what was found.         *)
LEMMA CallKeepsNaming ==
  ASSUME DeployTyped, Naming, NEW d \in Deploys, DeployToK8sCluster(d)
  PROVE  Naming'
<1>1. /\ UNCHANGED worldVars
      /\ \A e \in Deploys \ {d} : deploy'[e] = deploy[e]
  BY DeployFrame DEF DeployTyped
<1>2. /\ deploy \in [Deploys -> CallRecord] /\ deploy[d] \in CallRecord /\ Chosen(d)
      /\ address \in [K8sClusters -> Addresses \cup {NoAddress}]
  BY DEF DeployTyped, CallsTyped, WorldTyped
<1>3. HasAddress(d) /\ HasRecord(d) /\ HasFound(d) /\ Records
  BY DEF Naming
<1>4. \A rec \in dns : \E later \in dns : later.number = rec.number /\ later.host = rec.host
  OBVIOUS
<1>. USE DEF At, Go, Refuse, CallRecord
<1>5. ASSUME UNCHANGED dns,
             deploy[d].named = "yes" =>
               /\ deploy'[d].named = "yes"
               /\ deploy'[d].cluster = deploy[d].cluster /\ deploy'[d].to = deploy[d].to,
             HasAddress(d)', HasRecord(d)', HasFound(d)'
      PROVE  Naming'
  <2>1. Records'
    BY <1>3, <1>5 DEF Records
  <2>. QED
    BY <1>1, <1>4, <1>5, <2>1, NamingFrame
<1>6. ASSUME UNCHANGED dns, deploy[d].named # "yes", deploy'[d].named # "yes",
             deploy'[d].step \notin {"search", "write"}
      PROVE  Naming'
  BY <1>5, <1>6 DEF HasAddress, HasRecord, HasFound
<1>7. ASSUME NEW r \in Repos, NEW k \in K8sClusters, DeployCall(d, r, k)
      PROVE  Naming'
  BY <1>2, <1>6, <1>7, NotYetNamed DEF DeployCall
<1>8. ASSUME FindProject(d) \/ GetImage(d) PROVE Naming'
  <2>1. deploy[d].step \in {"project", "image"} /\ UNCHANGED dns
    BY <1>8 DEF FindProject, GetImage
  <2>2. /\ deploy'[d].step \in {"image", "cluster", "failed"}
        /\ deploy'[d].named = deploy[d].named
    <3>1. CASE GetImage(d)
      BY <1>2, <3>1 DEF GetImage
    <3>2. CASE FindProject(d)
      <4>1. CASE Refuse(d)
        BY <1>2, <4>1
      <4>2. ASSUME NEW p \in projects,
                   deploy' = [deploy EXCEPT ![d].step = "image", ![d].image = p.id]
            PROVE  /\ deploy'[d].step \in {"image", "cluster", "failed"}
                   /\ deploy'[d].named = deploy[d].named
        BY <1>2, <4>2
      <4>. QED
        BY <3>2, <4>1, <4>2 DEF FindProject
    <3>. QED
      BY <1>8, <3>1, <3>2
  <2>. QED
    BY <1>6, <2>1, <2>2, NotYetNamed
<1>9. ASSUME ReadCluster(d) PROVE Naming'
  <2> DEFINE k == deploy[d].cluster
  <2>1. deploy[d].step = "cluster" /\ deploy[d].named # "yes" /\ UNCHANGED dns
    BY <1>9, NotYetNamed DEF ReadCluster
  <2>2. CASE k \notin ready \/ address[k] = NoAddress
    BY <1>2, <1>6, <1>9, <2>1, <2>2 DEF ReadCluster
  <2>3. CASE k \in ready /\ address[k] # NoAddress
    <3>1. /\ deploy'[d].step = "search" /\ deploy'[d].to = address[k]
          /\ deploy'[d].cluster = k /\ deploy'[d].named # "yes"
      BY <1>2, <1>9, <2>1, <2>3 DEF ReadCluster
    <3>2. address[k] \in Addresses
      BY <1>2, <2>1, <2>3 DEF Chosen, Imaged
    <3>. QED
      BY <1>1, <1>5, <2>1, <2>3, <3>1, <3>2 DEF HasAddress, HasRecord, HasFound, worldVars
  <2>. QED
    BY <2>2, <2>3
<1>10. ASSUME SearchRecord(d) PROVE Naming'
  <2>1. /\ deploy[d].step = "search" /\ deploy[d].named # "yes"
        /\ UNCHANGED <<dns, worldVars>>
    BY <1>10, NotYetNamed DEF SearchRecord
  <2>2. ASSUME NEW records, Found(d, records),
               records = {} \/ \E rec \in dns : records = {rec} /\ rec.host = HostOf(d)
        PROVE  Naming'
    <3>1. /\ deploy'[d].step = "write" /\ deploy'[d].found = records
          /\ deploy'[d].cluster = deploy[d].cluster /\ deploy'[d].to = deploy[d].to
          /\ deploy'[d].named = deploy[d].named
      BY <1>2, <2>2 DEF Found
    <3>2. HasAddress(d)' /\ HasRecord(d)'
      BY <1>1, <1>3, <2>1, <3>1 DEF HasAddress, HasRecord, worldVars
    <3>3. HasFound(d)'
      BY <2>1, <2>2, <3>1 DEF HasFound, Persists, HostOf
    <3>. QED
      BY <1>5, <2>1, <3>1, <3>2, <3>3
  <2>. QED
    BY <1>10, <2>2 DEF SearchRecord
<1>11. ASSUME LoseName(d) PROVE Naming'
  BY <1>2, <1>6, <1>11, NotYetNamed DEF LoseName
<1>12. ASSUME Apply(d) \/ RecordDeployment(d) PROVE Naming'
  <2>1. /\ deploy'[d].step \in {"applied", "recorded", "unrecorded", "failed"}
        /\ deploy[d].step \in {"apply", "applied"}
        /\ deploy'[d].cluster = deploy[d].cluster /\ deploy'[d].to = deploy[d].to
        /\ deploy'[d].named = deploy[d].named
        /\ UNCHANGED <<dns, worldVars>>
    BY <1>2, <1>12 DEF Apply, RecordDeployment
  <2>2. HasAddress(d)' /\ HasRecord(d)' /\ HasFound(d)'
    BY <1>3, <2>1 DEF HasAddress, HasRecord, HasFound, HostOf, worldVars
  <2>. QED
    BY <1>5, <2>1, <2>2
<1>13. ASSUME WriteRecord(d) PROVE Naming'
  <2> DEFINE found == deploy[d].found
             number == IF found = {} THEN Cardinality(dns) + 1
                       ELSE (CHOOSE rec \in found : TRUE).number
             new == [number |-> number, host |-> HostOf(d), address |-> deploy[d].to]
  <2>1. /\ deploy[d].step = "write" /\ deploy[d].named # "yes"
        /\ deploy'[d].step = "apply" /\ deploy'[d].named = "yes"
        /\ deploy'[d].cluster = deploy[d].cluster /\ deploy'[d].to = deploy[d].to
    BY <1>2, <1>13, NotYetNamed DEF WriteRecord
  <2>2. /\ deploy[d].cluster \in K8sClusters /\ deploy[d].to \in Addresses
        /\ HasAddress(d)' /\ HasFound(d)'
    BY <1>1, <1>2, <1>3, <2>1
    DEF Chosen, Imaged, HasAddress, HasFound, worldVars
  <2>3. CASE UNCHANGED dns /\ \E rec \in found : rec.address = deploy[d].to
    <3>1. \E rec \in dns : rec.host = HostOf(d)
      BY <1>3, <2>1, <2>3 DEF HasFound, Persists
    <3>2. HasRecord(d)'
      BY <2>1, <2>3, <3>1 DEF HasRecord, HostOf
    <3>. QED
      BY <1>5, <2>1, <2>2, <2>3, <3>2
  <2>4. CASE /\ \A rec \in dns : ~(rec.host = HostOf(d) /\ rec.address = deploy[d].to)
             /\ dns' = {rec \in dns : rec.number # number} \cup {new}
    <3>1. /\ new.number = number /\ new.host = HostOf(d) /\ new.address = deploy[d].to
          /\ HostOf(d) \in Hosts
      BY <2>2 DEF HostOf, Hosts
    <3>2. /\ Records'
          /\ \A rec \in dns : \E later \in dns' :
               later.number = rec.number /\ later.host = rec.host
      <4>1. CASE found = {}
        <5>1. number = Cardinality(dns) + 1 /\ number \in Nat
          BY <1>3, <4>1, FS_CardinalityType DEF Records
        <5>2. new \in Record
          BY <2>2, <3>1, <5>1 DEF Record
        <5>. HIDE DEF new, number
        <5>. QED
          BY <1>3, <2>4, <3>1, <5>1, <5>2, AddRecord
      <4>2. CASE found # {}
        <5>1. PICK rec \in found : found = {rec} /\ rec.host = HostOf(d) /\ Persists(rec)
          BY <1>3, <2>1, <4>2 DEF HasFound
        <5>2. number = rec.number
          BY <4>2, <5>1
        <5>3. PICK now \in dns : now.number = number /\ now.host = HostOf(d)
          BY <5>1, <5>2 DEF Persists
        <5>4. new \in Record
          BY <1>3, <2>2, <3>1, <5>3 DEF Record, Records
        <5>. HIDE DEF new, number
        <5>. QED
          BY <1>3, <2>4, <3>1, <5>3, <5>4, ChangeRecord
      <4>. QED
        BY <4>1, <4>2
    <3>3. new \in dns' /\ HostOf(d)' = HostOf(d)
      BY <2>1, <2>4 DEF HostOf
    <3>4. HasRecord(d)'
      BY <2>1, <3>1, <3>3 DEF HasRecord
    <3>5. \A rec \in dns' : rec \in dns \/ Writer(d, rec)'
      BY <2>1, <2>4, <3>1, <3>3 DEF Writer
    <3>. QED
      BY <1>1, <2>1, <2>2, <3>2, <3>4, <3>5, NamingFrame
  <2>. QED
    BY <1>13, <2>3, <2>4 DEF WriteRecord
<1>. QED
  BY <1>7, <1>8, <1>9, <1>10, <1>11, <1>12, <1>13 DEF DeployToK8sCluster

(* A cluster is given an address when it is provisioned, or is moved.      *)
LEMMA ProvisionKeepsNaming ==
  ASSUME DeployTyped, Naming, NEW k \in K8sClusters, NEW a, Provision(k, a)
  PROVE  Naming'
<1>1. UNCHANGED <<dns, deploy>>
  BY DEF Provision
<1>2. Records'
  BY <1>1 DEF Naming, Records
<1>3. ASSUME NEW d \in Deploys PROVE HasAddress(d)' /\ HasRecord(d)' /\ HasFound(d)'
  <2>1. HasAddress(d) /\ HasRecord(d) /\ HasFound(d)
    BY DEF Naming
  <2>2. HasRecord(d)' /\ HasFound(d)'
    BY <1>1, <2>1 DEF HasRecord, HasFound, HostOf, Persists
  <2>3. HasAddress(d)'
    <3>1. /\ address \in [K8sClusters -> Addresses \cup {NoAddress}]
          /\ moves \in [K8sClusters -> Nat] /\ ready \subseteq K8sClusters
      BY DEF DeployTyped, WorldTyped
    <3> DEFINE mine == deploy[d].cluster
    <3>2. CASE mine \notin ready
      BY <1>1, <2>1, <3>2 DEF HasAddress
    <3>3. CASE mine \in ready /\ mine # k
      BY <1>1, <2>1, <3>1, <3>3 DEF HasAddress, Provision
    <3>4. CASE mine \in ready /\ mine = k
      <4>1. moves'[k] = moves[k] + 1 /\ moves[k] \in Nat /\ k \in ready'
        BY <3>1, <3>4 DEF Provision
      <4>. QED
        BY <1>1, <2>1, <3>4, <4>1 DEF HasAddress
    <3>. QED
      BY <3>2, <3>3, <3>4
  <2>. QED
    BY <2>2, <2>3
<1>4. \A rec \in dns', d \in Deploys : Writer(d, rec) => Writer(d, rec)'
  BY <1>1 DEF Writer, HostOf
<1>. QED
  BY <1>1, <1>2, <1>3, <1>4 DEF Naming

(* Nothing else touches names.                                             *)
LEMMA OthersKeepNaming ==
  ASSUME Naming, UNCHANGED <<dns, deploy, ready, address, moves>>
  PROVE  Naming'
BY DEF Naming, Records, HasAddress, HasRecord, HasFound, Persists, Writer, HostOf

----------------------------------------------------------------------------
(* What runs, or ran, and was reported so to the call.                     *)
Landed(d) == deploy[d].step \in {"applied", "unrecorded", "recorded"}

Replaced(d) ==
  \E e \in Deploys :
    /\ Landed(e) /\ WorkloadOf(e) # WorkloadOf(d)
    /\ deploy[e].cluster = deploy[d].cluster /\ deploy[e].repo = deploy[d].repo

(* A deployment runs until another one replaces it, and what runs or is    *)
(* recorded is some call's; of the calls for a repository, one has         *)
(* recorded what it did.                                                   *)
Running ==
  /\ \A d \in Deploys : Landed(d) => WorkloadOf(d) \in workloads \/ Replaced(d)
  /\ \A w \in workloads : \E d \in Deploys : Landed(d) /\ WorkloadOf(d) = w
  /\ \A w \in recorded : \E d \in Deploys : At(d, "recorded") /\ WorkloadOf(d) = w
  /\ \A d \in Deploys : At(d, "recorded") =>
       DeploymentsOf(deploy[d].repo) = {WorkloadOf(d)}

(* That is enough for what is to be shown.                                 *)
LEMMA RunningExplainsRows == Running => RowsAreRunning
<1>. SUFFICES ASSUME Running PROVE RowsAreRunning
  OBVIOUS
<1> DEFINE Deployed(d, w) ==
      /\ At(d, "applied") \/ At(d, "unrecorded") \/ At(d, "recorded")
      /\ WorkloadOf(d).cluster = w.cluster
      /\ WorkloadOf(d).name = w.name
<1>1. \A d \in Deploys : \A w : Deployed(d, w) <=>
        Landed(d) /\ deploy[d].cluster = w.cluster /\ deploy[d].repo = w.name
  BY DEF WorkloadOf, Landed, At
<1>2. ASSUME NEW w \in recorded, w \notin workloads
      PROVE  \E e \in Deploys : Deployed(e, w) /\ ~At(e, "recorded") /\ WorkloadOf(e) # w
  <2>1. PICK d \in Deploys : At(d, "recorded") /\ WorkloadOf(d) = w
    BY DEF Running
  <2>2. w.cluster = deploy[d].cluster /\ w.name = deploy[d].repo
    BY <2>1 DEF WorkloadOf
  <2>3. PICK e \in Deploys :
          /\ Landed(e) /\ WorkloadOf(e) # w
          /\ deploy[e].cluster = deploy[d].cluster /\ deploy[e].repo = deploy[d].repo
    BY <1>2, <2>1 DEF Running, Landed, At, Replaced
  <2>4. ~At(e, "recorded")
    <3>. SUFFICES ASSUME At(e, "recorded") PROVE FALSE
      OBVIOUS
    <3>1. DeploymentsOf(deploy[d].repo) = {WorkloadOf(e)}
      BY <2>3 DEF Running
    <3>. QED
      BY <2>1, <2>3, <3>1 DEF Running
  <2>. QED
    BY <1>1, <2>2, <2>3, <2>4
<1>3. ASSUME NEW w \in workloads \ recorded
      PROVE  \E d \in Deploys : Deployed(d, w) /\ ~At(d, "recorded") /\ WorkloadOf(d) = w
  <2>1. PICK d \in Deploys : Landed(d) /\ WorkloadOf(d) = w
    BY DEF Running
  <2>2. w.cluster = deploy[d].cluster /\ w.name = deploy[d].repo
    BY <2>1 DEF WorkloadOf
  <2>3. ~At(d, "recorded")
    BY <2>1 DEF Running, DeploymentsOf
  <2>. QED
    BY <1>1, <2>1, <2>2, <2>3
<1>. QED
  BY <1>2, <1>3 DEF RowsAreRunning, Running

(* A call's step keeps that while nothing is applied or recorded, ...      *)
LEMMA QuietCallKeepsRunning ==
  ASSUME Running, NEW d \in Deploys, UNCHANGED <<workloads, recorded>>,
         \A e \in Deploys \ {d} : deploy'[e] = deploy[e],
         ~Landed(d), ~Landed(d)'
  PROVE  Running'
<1>1. \A e \in Deploys : Landed(e)' => e # d /\ Landed(e)
  BY DEF Landed
<1>2. \A e \in Deploys : Landed(e) => e # d /\ Landed(e)' /\ deploy'[e] = deploy[e]
  BY DEF Landed
<1>3. ASSUME NEW e \in Deploys, Landed(e)'
      PROVE  WorkloadOf(e)' \in workloads' \/ Replaced(e)'
  <2>1. Landed(e) /\ deploy'[e] = deploy[e]
    BY <1>1, <1>2, <1>3
  <2>2. CASE WorkloadOf(e) \in workloads
    BY <2>1, <2>2 DEF WorkloadOf
  <2>3. CASE Replaced(e)
    BY <1>2, <2>1, <2>3 DEF Replaced, WorkloadOf
  <2>. QED
    BY <2>1, <2>2, <2>3 DEF Running
<1>4. \A w \in workloads' : \E e \in Deploys : Landed(e)' /\ WorkloadOf(e)' = w
  BY <1>2 DEF Running, WorkloadOf
<1>5. \A e \in Deploys : At(e, "recorded") => Landed(e)
  BY DEF At, Landed
<1>6. \A w \in recorded' : \E e \in Deploys : At(e, "recorded")' /\ WorkloadOf(e)' = w
  BY <1>2, <1>5 DEF Running, At, WorkloadOf
<1>7. \A e \in Deploys : At(e, "recorded")' =>
        DeploymentsOf(deploy[e].repo)' = {WorkloadOf(e)'}
  <2>. SUFFICES ASSUME NEW e \in Deploys, At(e, "recorded")'
                PROVE  DeploymentsOf(deploy[e].repo)' = {WorkloadOf(e)'}
    OBVIOUS
  <2>1. deploy'[e] = deploy[e] /\ At(e, "recorded")
    BY <1>1, <1>2 DEF At, Landed
  <2>2. DeploymentsOf(deploy[e].repo) = {WorkloadOf(e)}
    BY <2>1 DEF Running
  <2>. QED
    BY <2>1, <2>2 DEF DeploymentsOf, WorkloadOf
<1>. QED
  BY <1>3, <1>4, <1>6, <1>7 DEF Running

(* ... when it lands, in place of what ran before, ...                     *)
LEMMA ApplyKeepsRunning ==
  ASSUME DeployTyped, Running, NEW d \in Deploys, Apply(d)
  PROVE  Running'
<1>1. /\ \A e \in Deploys \ {d} : deploy'[e] = deploy[e]
      /\ deploy \in [Deploys -> CallRecord] /\ deploy[d] \in CallRecord
  BY DeployFrame DEF DeployTyped, CallsTyped, DeployToK8sCluster
<1>2. deploy[d].step = "apply" /\ ~Landed(d) /\ UNCHANGED recorded
  BY DEF Apply, At, Landed, syncVars
<1>3. CASE Refuse(d) /\ UNCHANGED workloads
  <2>1. ~Landed(d)'
    BY <1>1, <1>3 DEF Refuse, Go, Landed, CallRecord
  <2>. QED
    BY <1>1, <1>2, <1>3, <2>1, QuietCallKeepsRunning
<1>4. CASE Applied(WorkloadOf(d)) /\ (Go(d, "applied") \/ Go(d, "unrecorded"))
  <2> DEFINE w == WorkloadOf(d)
  <2>1. /\ deploy'[d].step \in {"applied", "unrecorded"}
        /\ deploy'[d].repo = deploy[d].repo /\ deploy'[d].cluster = deploy[d].cluster
        /\ deploy'[d].image = deploy[d].image
    BY <1>1, <1>4 DEF Go, CallRecord
  <2>2. Landed(d)' /\ WorkloadOf(d)' = w /\ ~At(d, "recorded")'
    BY <2>1 DEF Landed, WorkloadOf, At
  <2>3. /\ w.cluster = deploy[d].cluster /\ w.name = deploy[d].repo
        /\ workloads' = (workloads \ {v \in workloads : v.cluster = w.cluster /\ v.name = w.name})
                           \cup {w}
    BY <1>4 DEF Applied, WorkloadOf
  <2>4. \A e \in Deploys \ {d} :
          /\ Landed(e)' <=> Landed(e)
          /\ WorkloadOf(e)' = WorkloadOf(e)
          /\ At(e, "recorded")' <=> At(e, "recorded")
          /\ deploy'[e] = deploy[e]
    BY <1>1 DEF Landed, WorkloadOf, At
  <2>5. ASSUME NEW e \in Deploys, Landed(e)'
        PROVE  WorkloadOf(e)' \in workloads' \/ Replaced(e)'
    <3>1. CASE e = d
      BY <2>2, <2>3, <3>1
    <3>2. CASE e # d /\ WorkloadOf(e) \in workloads' 
      BY <2>4, <3>2
    <3>3. CASE e # d /\ Replaced(e)
      <4>1. PICK f \in Deploys :
              /\ Landed(f) /\ WorkloadOf(f) # WorkloadOf(e)
              /\ deploy[f].cluster = deploy[e].cluster /\ deploy[f].repo = deploy[e].repo
        BY <3>3 DEF Replaced
      <4>2. f # d
        BY <1>2, <4>1
      <4>3. /\ Landed(f)' /\ WorkloadOf(f)' # WorkloadOf(e)'
            /\ deploy'[f].cluster = deploy'[e].cluster /\ deploy'[f].repo = deploy'[e].repo
        BY <2>4, <3>3, <4>1, <4>2
      <4>. QED
        BY <4>3 DEF Replaced
    <3>4. CASE e # d /\ WorkloadOf(e) \in workloads \ workloads'
      <4>1. /\ WorkloadOf(e).cluster = w.cluster /\ WorkloadOf(e).name = w.name
            /\ WorkloadOf(e) # w
        BY <2>3, <3>4
      <4>2. deploy[e].cluster = deploy[d].cluster /\ deploy[e].repo = deploy[d].repo
        BY <2>3, <4>1 DEF WorkloadOf
      <4>3. /\ Landed(d)' /\ WorkloadOf(d)' # WorkloadOf(e)'
            /\ deploy'[d].cluster = deploy'[e].cluster /\ deploy'[d].repo = deploy'[e].repo
        BY <2>1, <2>2, <2>4, <3>4, <4>1, <4>2
      <4>. QED
        BY <4>3 DEF Replaced
    <3>. QED
      BY <2>4, <2>5, <3>1, <3>2, <3>3, <3>4 DEF Running
  <2>6. \A v \in workloads' : \E e \in Deploys : Landed(e)' /\ WorkloadOf(e)' = v
    BY <1>2, <2>2, <2>3, <2>4 DEF Running
  <2>7. \A v \in recorded' : \E e \in Deploys : At(e, "recorded")' /\ WorkloadOf(e)' = v
    BY <1>2, <2>4 DEF Running, At
  <2>8. ASSUME NEW e \in Deploys, At(e, "recorded")'
        PROVE  DeploymentsOf(deploy[e].repo)' = {WorkloadOf(e)'}
    <3>1. /\ deploy'[e] = deploy[e] /\ WorkloadOf(e)' = WorkloadOf(e)
          /\ DeploymentsOf(deploy[e].repo) = {WorkloadOf(e)}
      BY <2>2, <2>4, <2>8 DEF Running
    <3>. QED
      BY <1>2, <3>1 DEF DeploymentsOf
  <2>. QED
    BY <2>5, <2>6, <2>7, <2>8 DEF Running
<1>. QED
  BY <1>3, <1>4 DEF Apply

(* ... and when it is recorded, unless the repository has a deployment.    *)
LEMMA RecordingKeepsRunning ==
  ASSUME DeployTyped, Running, NEW d \in Deploys, RecordDeployment(d)
  PROVE  Running'
<1> DEFINE w == WorkloadOf(d)
           r == deploy[d].repo
<1>1. /\ \A e \in Deploys \ {d} : deploy'[e] = deploy[e]
      /\ deploy \in [Deploys -> CallRecord] /\ deploy[d] \in CallRecord
  BY DeployFrame DEF DeployTyped, CallsTyped, DeployToK8sCluster
<1>2. deploy[d].step = "applied" /\ UNCHANGED workloads
  BY DEF RecordDeployment, At
<1>3. /\ deploy'[d].step \in {"recorded", "unrecorded"}
      /\ deploy'[d].repo = deploy[d].repo /\ deploy'[d].cluster = deploy[d].cluster
      /\ deploy'[d].image = deploy[d].image
  BY <1>1 DEF RecordDeployment, Go, CallRecord
<1>4. /\ \A e \in Deploys : (Landed(e)' <=> Landed(e)) /\ WorkloadOf(e)' = WorkloadOf(e)
      /\ \A e \in Deploys : deploy'[e].repo = deploy[e].repo
      /\ \A e \in Deploys : deploy'[e].cluster = deploy[e].cluster
      /\ \A e \in Deploys \ {d} : At(e, "recorded")' <=> At(e, "recorded")
  BY <1>1, <1>2, <1>3 DEF Landed, WorkloadOf, At
<1>5. \/ /\ deploy'[d].step = "recorded" /\ DeploymentsOf(r) = {}
         /\ recorded' = recorded \cup {w}
      \/ deploy'[d].step = "unrecorded" /\ recorded' = recorded
  BY <1>1 DEF RecordDeployment, Go, CallRecord
<1>6. \A e \in Deploys : Landed(e)' => WorkloadOf(e)' \in workloads' \/ Replaced(e)'
  BY <1>2, <1>4 DEF Running, Replaced
<1>7. \A v \in workloads' : \E e \in Deploys : Landed(e)' /\ WorkloadOf(e)' = v
  BY <1>2, <1>4 DEF Running
<1>8. ~At(d, "recorded")
  BY <1>2 DEF At
<1>9. \A v \in recorded' : \E e \in Deploys : At(e, "recorded")' /\ WorkloadOf(e)' = v
  <2>1. ASSUME NEW v \in recorded
        PROVE  \E e \in Deploys : At(e, "recorded")' /\ WorkloadOf(e)' = v
    BY <1>4, <1>8 DEF Running
  <2>2. deploy'[d].step = "recorded" => At(d, "recorded")' /\ WorkloadOf(d)' = w
    BY <1>4 DEF At
  <2>. QED
    BY <1>5, <2>1, <2>2
<1>10. ASSUME NEW e \in Deploys, At(e, "recorded")'
       PROVE  DeploymentsOf(deploy[e].repo)' = {WorkloadOf(e)'}
  <2>1. w.name = r
    BY DEF WorkloadOf
  <2>2. CASE e = d
    <3>1. DeploymentsOf(r) = {} /\ recorded' = recorded \cup {w}
      BY <1>5, <1>10, <2>2 DEF At
    <3>. QED
      BY <1>4, <2>1, <2>2, <3>1 DEF DeploymentsOf
  <2>3. CASE e # d
    <3>1. DeploymentsOf(deploy[e].repo) = {WorkloadOf(e)}
      BY <1>4, <1>10, <2>3 DEF Running
    <3>2. recorded' = recorded \cup {w} => deploy[e].repo # w.name \/ recorded' = recorded
      BY <1>5, <2>1, <3>1 DEF DeploymentsOf
    <3>3. DeploymentsOf(deploy[e].repo)' = DeploymentsOf(deploy[e].repo)
      BY <1>4, <1>5, <3>2 DEF DeploymentsOf
    <3>. QED
      BY <1>4, <3>1, <3>3
  <2>. QED
    BY <2>2, <2>3
<1>. QED
  BY <1>6, <1>7, <1>9, <1>10 DEF Running

(* So each step of a call keeps it.                                        *)
LEMMA CallKeepsRunning ==
  ASSUME DeployTyped, Running, NEW d \in Deploys, DeployToK8sCluster(d)
  PROVE  Running'
<1>1. /\ \A e \in Deploys \ {d} : deploy'[e] = deploy[e]
      /\ deploy \in [Deploys -> CallRecord] /\ deploy[d] \in CallRecord
  BY DeployFrame DEF DeployTyped, CallsTyped
<1>2. ASSUME deploy[d].step \notin {"apply", "applied"}
      PROVE  /\ UNCHANGED <<workloads, recorded>> /\ ~Landed(d)
             /\ deploy'[d].step \notin {"applied", "recorded", "unrecorded"}
  <2>. USE <1>1 DEF At, Go, Refuse, Landed, CallRecord, syncVars
  <2>1. ASSUME NEW q \in Repos, NEW k \in K8sClusters, DeployCall(d, q, k)
        PROVE  /\ UNCHANGED <<workloads, recorded>> /\ ~Landed(d)
               /\ deploy'[d].step \notin {"applied", "recorded", "unrecorded"}
    BY <2>1 DEF DeployCall
  <2>2. ASSUME FindProject(d)
        PROVE  /\ UNCHANGED <<workloads, recorded>> /\ ~Landed(d)
               /\ deploy'[d].step \notin {"applied", "recorded", "unrecorded"}
    <3>1. /\ deploy[d].step = "project" /\ UNCHANGED <<workloads, recorded>>
      BY <2>2 DEF FindProject
    <3>2. CASE Refuse(d)
      BY <3>1, <3>2
    <3>3. ASSUME NEW p \in projects,
                 deploy' = [deploy EXCEPT ![d].step = "image", ![d].image = p.id]
          PROVE  deploy'[d].step \notin {"applied", "recorded", "unrecorded"}
      BY <3>3
    <3>. QED
      BY <2>2, <3>1, <3>2, <3>3 DEF FindProject
  <2>3. ASSUME GetImage(d) \/ ReadCluster(d)
        PROVE  /\ UNCHANGED <<workloads, recorded>> /\ ~Landed(d)
               /\ deploy'[d].step \notin {"applied", "recorded", "unrecorded"}
    BY <2>3 DEF GetImage, ReadCluster
  <2>4. ASSUME SearchRecord(d) \/ WriteRecord(d) \/ LoseName(d)
        PROVE  /\ UNCHANGED <<workloads, recorded>> /\ ~Landed(d)
               /\ deploy'[d].step \notin {"applied", "recorded", "unrecorded"}
    BY <2>4 DEF SearchRecord, WriteRecord, LoseName, Found
  <2>. QED
    BY <1>2, <2>1, <2>2, <2>3, <2>4 DEF DeployToK8sCluster, Apply, RecordDeployment
<1>3. CASE deploy[d].step \notin {"apply", "applied"}
  BY <1>1, <1>2, <1>3, QuietCallKeepsRunning DEF Landed
<1>4. CASE deploy[d].step = "apply"
  BY <1>4, ApplyKeepsRunning
  DEF DeployToK8sCluster, DeployCall, FindProject, GetImage, ReadCluster, SearchRecord,
      WriteRecord, LoseName, RecordDeployment, At
<1>5. CASE deploy[d].step = "applied"
  BY <1>5, RecordingKeepsRunning
  DEF DeployToK8sCluster, DeployCall, FindProject, GetImage, ReadCluster, SearchRecord,
      WriteRecord, LoseName, Apply, At
<1>. QED
  BY <1>3, <1>4, <1>5

(* Nothing else starts, replaces or records a deployment.                  *)
LEMMA OthersKeepRunning ==
  ASSUME Running, UNCHANGED <<deploy, workloads, recorded>>
  PROVE  Running'
BY DEF Running, Landed, Replaced, At, WorkloadOf, DeploymentsOf

----------------------------------------------------------------------------
(* A call leaves the tables as they are but for the deployment it records. *)
LEMMA CallKeepsTables ==
  ASSUME DeployTyped, Aligning, NEW d \in Deploys, DeployToK8sCluster(d)
  PROVE  SyncTypeOK' /\ Aligning'
<1>1. SyncTypeOK /\ Tables /\ sync \in SyncRecord
  BY TypeByParts DEF DeployTyped
<1>2. CASE UNCHANGED syncVars
  <2>1. SyncTypeOK'
    BY <1>1, <1>2 DEF SyncTypeOK, syncVars, Names
  <2>. QED
    BY <1>2, <2>1
    DEF Aligning, Numbered, Listing, AsListed, AsDeleted, Cut, Names, syncVars
<1>3. CASE RecordDeployment(d)
  <2>1. /\ UNCHANGED <<rows, requests, projects, made, faults>> /\ Disturb
        /\ Names(recorded)' \subseteq rows
    BY <1>1, <1>3 DEF RecordDeployment, Tables, Names, WorkloadOf
  <2>2. SyncTypeOK'
    BY <1>1, <2>1, DisturbTyped DEF SyncTypeOK, Tables, SyncRecord, SyncSteps
  <2>3. Numbered(projects)'
    BY <2>1 DEF Aligning, Numbered
  <2>. QED
    BY <2>1, <2>2, <2>3, InterferenceKeepsAligning
<1>. QED
  BY <1>2, <1>3
  DEF DeployToK8sCluster, DeployCall, FindProject, GetImage, ReadCluster, SearchRecord,
      WriteRecord, LoseName, Apply

(* A call keeps to the types.                                              *)
LEMMA CallKeepsTypes ==
  ASSUME DeployTyped, Naming, Aligning, NEW d \in Deploys, DeployToK8sCluster(d)
  PROVE  DeployTyped'
<1>1. CallsTyped'
  <2>1. /\ deploy' = [e \in Deploys |-> deploy'[e]]
        /\ \A e \in Deploys \ {d} : deploy'[e] = deploy[e]
    BY DeployFrame DEF DeployTyped
  <2>2. deploy'[d] \in CallRecord /\ Chosen(d)'
    BY CallTyped
  <2>3. \A e \in Deploys : deploy'[e] \in CallRecord /\ Chosen(e)'
    BY <2>1, <2>2 DEF DeployTyped, CallsTyped, Chosen
  <2>. QED
    BY <2>1, <2>3 DEF CallsTyped
<1>2. WorldTyped'
  BY DeployFrame DEF DeployTyped, WorldTyped, worldVars
<1>3. dns' \subseteq Record
  BY CallKeepsNaming DEF Naming, Records
<1>4. workloads' \subseteq Workload /\ recorded' \subseteq Workload
  <2>1. deploy[d].step \in {"apply", "applied"} => WorkloadOf(d) \in Workload
    BY DEF DeployTyped, CallsTyped, Chosen, Imaged, WorkloadOf, Workload
  <2>2. CASE Apply(d)
    BY <2>1, <2>2 DEF DeployTyped, ResultsTyped, Apply, Applied, At, syncVars
  <2>3. CASE RecordDeployment(d)
    BY <2>1, <2>3 DEF DeployTyped, ResultsTyped, RecordDeployment, At
  <2>4. CASE UNCHANGED <<workloads, recorded>>
    BY <2>4 DEF DeployTyped, ResultsTyped
  <2>. QED
    BY <2>2, <2>3, <2>4
    DEF DeployToK8sCluster, DeployCall, FindProject, GetImage, ReadCluster, SearchRecord,
        WriteRecord, LoseName, syncVars
<1>. QED
  BY <1>1, <1>2, <1>3, <1>4, CallKeepsTables DEF DeployTyped, ResultsTyped

(* The invariant, all in all.                                              *)
Deploying == DeployTyped /\ Naming /\ Running /\ Aligning

(* It holds before any call, ...                                           *)
LEMMA DeployingInitially == DeployInit => Deploying
<1>. SUFFICES ASSUME DeployInit PROVE Deploying
  OBVIOUS
<1>1. SyncTypeOK /\ Aligning
  BY SyncTyped, AligningInitially DEF DeployInit
<1>2. NoDeploy \in CallRecord
  BY SyncBoundsAssumption DEF NoDeploy, CallRecord
<1>3. CallsTyped
  BY <1>2 DEF DeployInit, CallsTyped, Chosen, Imaged, NoDeploy
<1>4. WorldTyped /\ ResultsTyped
  BY DEF DeployInit, SyncInit, WorldTyped, ResultsTyped
<1>5. Naming
  BY FS_EmptySet
  DEF DeployInit, NoDeploy, Naming, Records, HasAddress, HasRecord, HasFound
<1>6. Running
  BY DEF DeployInit, SyncInit, NoDeploy, Running, Landed, At
<1>. QED
  BY <1>1, <1>3, <1>4, <1>5, <1>6 DEF Deploying, DeployTyped

(* ... each step keeps it, ...                                             *)
LEMMA DeployingInductive == Deploying /\ [DeployNext]_deployVars => Deploying'
<1>. SUFFICES ASSUME Deploying, [DeployNext]_deployVars PROVE Deploying'
  OBVIOUS
<1>. USE DEF Deploying
<1>1. ASSUME NEW d \in Deploys, DeployToK8sCluster(d) PROVE Deploying'
  BY <1>1, CallKeepsTypes, CallKeepsNaming, CallKeepsRunning, CallKeepsTables
<1>2. ASSUME UNCHANGED syncVars PROVE SyncTypeOK' /\ Aligning'
  <2>1. SyncTypeOK'
    BY <1>2 DEF DeployTyped, SyncTypeOK, syncVars, Names
  <2>. QED
    BY <1>2, <2>1
    DEF Aligning, Numbered, Listing, AsListed, AsDeleted, Cut, Names, syncVars
<1>3. ASSUME UNCHANGED <<syncVars, dns, workloads, deploy>>, WorldTyped', Naming'
      PROVE  Deploying'
  <2>1. CallsTyped' /\ ResultsTyped'
    BY <1>3 DEF DeployTyped, CallsTyped, Chosen, ResultsTyped, syncVars
  <2>. QED
    BY <1>2, <1>3, <2>1, OthersKeepRunning DEF DeployTyped, syncVars
<1>4. ASSUME NEW id \in 1 .. MaxProjects, Push(id) PROVE Deploying'
  <2>1. WorldTyped'
    BY <1>4 DEF Push, DeployTyped, WorldTyped
  <2>2. Naming'
    BY <1>4, OthersKeepNaming DEF Push
  <2>. QED
    BY <1>3, <1>4, <2>1, <2>2 DEF Push
<1>5. ASSUME NEW k \in K8sClusters, NEW a \in Addresses \cup {NoAddress}, Provision(k, a)
      PROVE  Deploying'
  <2>1. WorldTyped'
    <3>1. moves'  \in [K8sClusters -> Nat]
      <4>1. moves \in [K8sClusters -> Nat] /\ moves[k] + 1 \in Nat
        BY DEF DeployTyped, WorldTyped
      <4>. QED
        BY <1>5, <4>1 DEF Provision
    <3>. QED
      BY <1>5, <3>1 DEF Provision, DeployTyped, WorldTyped
  <2>2. Naming'
    BY <1>5, ProvisionKeepsNaming
  <2>. QED
    BY <1>3, <1>5, <2>1, <2>2 DEF Provision
<1>6. ASSUME SyncNext, UNCHANGED <<worldVars, dns, workloads, deploy>> PROVE Deploying'
  <2>1. UNCHANGED recorded
    BY <1>6
    DEF SyncNext, SyncRepositories, Surroundings, CreateRow, CreateRequestRow, MakeProject,
        DropProject, ListProjects, ReadRows, DeleteProject, DeleteRow, AbortSync, FinishSync
  <2>2. SyncTypeOK' /\ Aligning'
    BY <1>6, SyncTyped, SurroundingsKeepAligning, SynchronisationKeepsAligning
    DEF DeployTyped, SyncNext
  <2>3. CallsTyped' /\ ResultsTyped' /\ WorldTyped'
    BY <1>6, <2>1 DEF DeployTyped, CallsTyped, Chosen, ResultsTyped, WorldTyped, worldVars
  <2>4. Naming' /\ Running'
    BY <1>6, <2>1, OthersKeepNaming, OthersKeepRunning DEF worldVars
  <2>. QED
    BY <2>2, <2>3, <2>4 DEF DeployTyped
<1>7. CASE UNCHANGED deployVars
  BY <1>3, <1>7, OthersKeepNaming DEF deployVars, worldVars, DeployTyped, WorldTyped
<1>. QED
  BY <1>1, <1>4, <1>5, <1>6, <1>7 DEF DeployNext

(* ... and so it always holds.                                             *)
LEMMA DeployingAlways == DeploySpec => []Deploying
BY DeployingInitially, DeployingInductive, PTL DEF DeploySpec

(* GitLab, the tables, the clusters, the records and the calls keep to     *)
(* their types.                                                            *)
THEOREM DeployTypeCorrect == DeploySpec => [](SyncTypeOK /\ DeployTypeOK)
<1>1. Deploying => SyncTypeOK /\ DeployTypeOK
  BY DeployTypeByParts DEF Deploying, DeployTyped, CallsTyped
<1>. QED
  BY <1>1, DeployingAlways, PTL

(* What ImageDeployment says runs there, or a later call explains it.      *)
THEOREM RecordedDeploymentsRun == DeploySpec => []RowsAreRunning
<1>1. Deploying => RowsAreRunning
  BY RunningExplainsRows DEF Deploying
<1>. QED
  BY <1>1, DeployingAlways, PTL

(* A host that was registered has a record, whose address is the cluster's *)
(* unless the cluster has a namesake or was moved.                         *)
THEOREM RegisteredHostsResolve == DeploySpec => []HostsResolve
<1>1. ASSUME Deploying PROVE HostsResolve
  <2>. USE <1>1 DEF Deploying
  <2>1. \A d \in Deploys : deploy[d].named = "yes" => \E rec \in dns : rec.host = HostOf(d)
    BY DEF Naming, HasRecord
  <2>2. \A rec \in dns : \E d \in Deploys :
          deploy[d].named = "yes" /\ HostOf(d) = rec.host /\ deploy[d].to = rec.address
    BY DEF Naming, Writer
  <2>3. ASSUME NEW k \in K8sClusters, moves[k] = 0,
               \A other \in K8sClusters \ {k} : ClusterName[other] # ClusterName[k]
        PROVE  LET of == {rec \in dns : rec.host = ClusterName[k]}
               IN  Cardinality(of) <= 1 /\ \A rec \in of : rec.address = address[k]
    <3> DEFINE of == {rec \in dns : rec.host = ClusterName[k]}
    <3>1. ASSUME NEW rec \in of PROVE rec.address = address[k]
      <4>1. PICK d \in Deploys :
              deploy[d].named = "yes" /\ HostOf(d) = rec.host /\ deploy[d].to = rec.address
        BY <2>2
      <4>2. deploy[d].cluster \in ready /\ ready \subseteq K8sClusters
        BY <4>1 DEF Naming, HasAddress, DeployTyped, WorldTyped
      <4>3. deploy[d].cluster = k
        BY <2>3, <4>1, <4>2 DEF HostOf
      <4>. QED
        BY <2>3, <4>1, <4>3 DEF Naming, HasAddress
    <3>2. \A x, y \in of : x = y
      BY <3>1 DEF Naming, Records
    <3>3. of = {} \/ \E rec \in of : of = {rec}
      BY <3>2
    <3>4. Cardinality(of) \in {0, 1}
      <4>. HIDE DEF of
      <4>1. CASE of = {}
        BY <4>1, FS_EmptySet
      <4>2. ASSUME NEW rec \in of, of = {rec} PROVE Cardinality(of) = 1
        BY <4>2, FS_Singleton
      <4>. QED
        BY <3>3, <4>1, <4>2
    <3>. QED
      BY <3>1, <3>4
  <2>. QED
    BY <2>1, <2>2, <2>3 DEF HostsResolve
<1>. QED
  BY <1>1, DeployingAlways, PTL

(* The synchronisation deletes no row that had a project when it listed    *)
(* them all, and aligns projects and rows if nothing comes between.        *)
THEOREM SynchronisationAligns == DeploySpec => SyncAligns
<1>1. ASSUME Deploying, [DeployNext]_deployVars,
             NEW r \in rows, r \notin rows'
      PROVE  (r \in Names(sync.there) => Cut) /\ r \notin Names(recorded)
  <2>1. ASSUME NEW d \in Deploys, DeployToK8sCluster(d) PROVE FALSE
    BY <1>1, <2>1, DeployFrame DEF Deploying, DeployTyped
  <2>2. DeleteRow(r)
    BY <1>1, <2>1
    DEF DeployNext, deployVars, syncVars, Push, Provision, SyncNext, SyncRepositories,
        Surroundings, CreateRow, CreateRequestRow, MakeProject, DropProject, ListProjects,
        ReadRows, DeleteProject, DeleteRow, AbortSync, FinishSync
  <2>3. /\ sync.step = "deleting" /\ r \in sync.doomed
        /\ r \notin Names(recorded)
    BY <1>1, <2>2 DEF DeleteRow
  <2>. QED
    BY <1>1, <2>3 DEF Deploying, Aligning, Listing
<1>2. ASSUME Deploying, FinishSync, sync.alone
      PROVE  (Cut \/ Names(projects) = rows) /\ rows \subseteq Names(projects)
  <2>1. /\ sync.step = "deleting" /\ sync.stray = {} /\ sync.doomed = {}
        /\ rows \subseteq Names(sync.listed)
        /\ \A p \in sync.listed : p.name \in rows => p \in projects
        /\ Cut \/ \A p \in projects : p.name \in rows
    BY <1>2 DEF FinishSync, Deploying, Aligning, AsDeleted
  <2>2. rows \subseteq Names(projects)
    BY <2>1 DEF Names
  <2>3. Cut \/ Names(projects) \subseteq rows
    BY <2>1 DEF Names
  <2>. QED
    BY <2>2, <2>3
<1>3. ASSUME Deploying, [DeployNext]_deployVars
      PROVE  [/\ \A r \in rows \ rows' :
                   /\ r \in Names(sync.there) => Cut
                   /\ r \notin Names(recorded)
              /\ FinishSync /\ sync.alone =>
                   /\ Cut \/ Names(projects) = rows
                   /\ rows \subseteq Names(projects)]_syncVars
  BY <1>1, <1>2, <1>3
<1>. QED
  BY <1>3, DeployingAlways, PTL DEF DeploySpec, SyncAligns

----------------------------------------------------------------------------
(* Dashboard: a figure that is still to be counted is followed as what it  *)
(* would be now.                                                           *)
Figure(k) == IF k <= Len(figures) THEN figures[k] ELSE Cardinality(Counted[k])

Others == IF figures = <<>> THEN Cardinality(In("Deleted")) ELSE others

(* So taken, the figures never differ from figures that add up by more     *)
(* than the requests that have moved since the first was counted.          *)
Within(x) == x <= missed /\ -missed <= x

OffByChanges ==
  /\ DashboardTypeOK
  /\ figures = <<>> => missed = 0
  /\ Within((Figure(2) + Figure(3) + Figure(4) + Others) - Figure(1))
  /\ Figure(5) + Figure(6) - Figure(2) <= missed
  /\ Within(Figure(5) - Figure(8))
  /\ Within(Figure(6) - Figure(7))

(* The eight counts.                                                       *)
Statements ==
  /\ Len(Counted) = 8
  /\ Counted[1] = Rows \ In("none")
  /\ Counted[2] = In("Approved") /\ Counted[3] = In("Rejected") /\ Counted[4] = In("Pending")
  /\ Counted[5] = {r \in In("Approved") : RowCloud[r] = "AWS"} /\ Counted[8] = Counted[5]
  /\ Counted[6] = {r \in In("Approved") : RowCloud[r] = "AZURE"} /\ Counted[7] = Counted[6]

(* They are what is written there.                                         *)
LEMMA CountedAre == Statements
BY DEF Statements, Counted

(* The sets that are counted are finite.                                   *)
Countable ==
  /\ \A s : IsFiniteSet(In(s)) /\ Cardinality(In(s)) \in Nat
  /\ \A k \in 1 .. 8 : IsFiniteSet(Counted[k]) /\ Cardinality(Counted[k]) \in Nat

(* There are only finitely many rows.                                      *)
LEMMA CountedFinite == Countable
<1>1. ASSUME NEW T \in SUBSET Rows PROVE IsFiniteSet(T) /\ Cardinality(T) \in Nat
  BY RowsAssumption, FS_Subset, FS_CardinalityType
<1>2. \A s : In(s) \in SUBSET Rows
  BY DEF In
<1>3. ASSUME NEW k \in 1 .. 8 PROVE Counted[k] \in SUBSET Rows
  <2>1. k \in {1, 2, 3, 4, 5, 6, 7, 8}
    OBVIOUS
  <2>. QED
    BY <1>2, <2>1, CountedAre DEF Statements
<1>. QED
  BY <1>1, <1>2, <1>3 DEF Countable

(* When they are counted at once, they add up.                             *)
AddUp ==
  state \in [Rows -> RowStates] =>
    /\ Cardinality(Counted[2]) + Cardinality(Counted[3]) + Cardinality(Counted[4])
         + Cardinality(In("Deleted")) = Cardinality(Counted[1])
    /\ Cardinality(Counted[5]) + Cardinality(Counted[6]) <= Cardinality(Counted[2])

(* Each row that there is has one state, and one cloud at most.            *)
LEMMA AddUpAtOnce == AddUp
<1>. SUFFICES ASSUME state \in [Rows -> RowStates] PROVE AddUp
  BY DEF AddUp
<1> DEFINE A == In("Approved")
           R == In("Rejected")
           P == In("Pending")
           D == In("Deleted")
<1>1. ASSUME NEW S, NEW T, IsFiniteSet(S), IsFiniteSet(T), S \cap T = {}
      PROVE  /\ IsFiniteSet(S \cup T)
             /\ Cardinality(S \cup T) = Cardinality(S) + Cardinality(T)
  <2>1. /\ IsFiniteSet(S \cup T)
        /\ Cardinality(S \cup T) = Cardinality(S) + Cardinality(T) - 0
    BY <1>1, FS_Union, FS_EmptySet
  <2>2. Cardinality(S) \in Nat /\ Cardinality(T) \in Nat
    BY <1>1, FS_CardinalityType
  <2>. QED
    BY <2>1, <2>2
<1>2. IsFiniteSet(A) /\ IsFiniteSet(R) /\ IsFiniteSet(P) /\ IsFiniteSet(D)
  BY CountedFinite DEF Countable
<1>3. /\ A \cap R = {} /\ (A \cup R) \cap P = {} /\ ((A \cup R) \cup P) \cap D = {}
      /\ ((A \cup R) \cup P) \cup D = Rows \ In("none")
  BY DEF In, RowStates
<1>4. Cardinality(((A \cup R) \cup P) \cup D)
        = Cardinality(A) + Cardinality(R) + Cardinality(P) + Cardinality(D)
  <2> HIDE DEF A, R, P, D
  <2>1. IsFiniteSet(A \cup R) /\ Cardinality(A \cup R) = Cardinality(A) + Cardinality(R)
    BY <1>1, <1>2, <1>3
  <2>2. /\ IsFiniteSet((A \cup R) \cup P)
        /\ Cardinality((A \cup R) \cup P) = Cardinality(A \cup R) + Cardinality(P)
    BY <1>1, <1>2, <1>3, <2>1
  <2>3. Cardinality(((A \cup R) \cup P) \cup D) = Cardinality((A \cup R) \cup P) + Cardinality(D)
    BY <1>1, <1>2, <1>3, <2>2
  <2>. QED
    BY <2>1, <2>2, <2>3
<1>5. Cardinality(Counted[5]) + Cardinality(Counted[6]) <= Cardinality(A)
  <2>1. /\ Counted[5] \cap Counted[6] = {}
        /\ Counted[5] \cup Counted[6] \in SUBSET A
    BY CountedAre DEF Statements
  <2>2. /\ IsFiniteSet(Counted[5]) /\ IsFiniteSet(Counted[6])
    BY CountedFinite DEF Countable
  <2>3. Cardinality(Counted[5] \cup Counted[6]) = Cardinality(Counted[5]) + Cardinality(Counted[6])
    BY <1>1, <2>1, <2>2
  <2>. QED
    BY <1>2, <2>1, <2>3, FS_Subset
<1>. QED
  BY <1>3, <1>4, <1>5, CountedAre DEF AddUp, Statements

(* A set that another row joins or leaves has one element more or less.    *)
Has(S, r) == IF r \in S THEN 1 ELSE 0

LEMMA JoinsOrLeaves ==
  ASSUME NEW S, NEW T, NEW r, IsFiniteSet(S), S \ {r} = T \ {r}
  PROVE  Cardinality(T) = Cardinality(S) - Has(S, r) + Has(T, r)
<1> DEFINE rest == S \ {r}
<1>1. /\ IsFiniteSet(rest) /\ Cardinality(S) \in Nat
      /\ Cardinality(rest) = Cardinality(S) - Has(S, r)
  BY FS_RemoveElement, FS_CardinalityType DEF Has
<1>2. CASE r \in T
  <2>1. T = rest \cup {r} /\ r \notin rest
    BY <1>2
  <2> HIDE DEF rest
  <2>2. Cardinality(T) = Cardinality(rest) + 1
    BY <1>1, <2>1, FS_AddElement
  <2>. QED
    BY <1>1, <1>2, <2>2 DEF Has
<1>3. CASE r \notin T
  <2>1. T = rest
    BY <1>3
  <2>. QED
    BY <1>1, <1>3, <2>1 DEF Has
<1>. QED
  BY <1>2, <1>3

(* A change of one, at most, keeps within a bound that grows by one.        *)
LEMMA StaysClose ==
  ASSUME NEW x \in Int, NEW y \in Int, NEW m \in Nat, y - x \in {-1, 0, 1}
  PROVE  /\ x <= m => y <= m + 1
         /\ -m <= x => -(m + 1) <= y
BY SMT

(* The part that the figures still to be counted have in one change, when  *)
(* the first n have been: of the states that a request leaves and takes up *)
(* and of the clouds that it may have.                                     *)
Late(k, n, gain) == IF k <= n THEN 0 ELSE gain

LEMMA LateStates ==
  ASSUME NEW n \in Nat, NEW s, NEW from, s # from, NEW g2, NEW g3, NEW g4,
         g2 = Has({"Approved"}, s) - Has({"Approved"}, from),
         g3 = Has({"Rejected"}, s) - Has({"Rejected"}, from),
         g4 = Has({"Pending"}, s) - Has({"Pending"}, from)
  PROVE  Late(2, n, g2) + Late(3, n, g3) + Late(4, n, g4) \in {-1, 0, 1}
BY SMT DEF Has, Late

LEMMA LateClouds ==
  ASSUME NEW n \in Nat, NEW c, NEW g2 \in {-1, 0, 1}, NEW g5, NEW g6,
         g5 = IF c = "AWS" THEN g2 ELSE 0,
         g6 = IF c = "AZURE" THEN g2 ELSE 0
  PROVE  /\ Late(5, n, g5) + Late(6, n, g6) - Late(2, n, g2) \in {-1, 0, 1}
         /\ Late(5, n, g5) - Late(8, n, g5) \in {-1, 0, 1}
         /\ Late(6, n, g6) - Late(7, n, g6) \in {-1, 0, 1}
BY SMT DEF Late

(* A request that moves leaves one of the sets and joins another, if they  *)
(* are among those yet to be counted.                                      *)
LEMMA MoveChanges ==
  ASSUME OffByChanges, NEW r \in Rows, NEW s \in RowStates, Move(r, s)
  PROVE  OffByChanges'
<1> DEFINE from == state[r]
           L == Len(figures)
<1>1. /\ state \in [Rows -> RowStates] /\ figures \in Seq(Nat) /\ L \in Nat
      /\ others \in Nat /\ changes \in Nat /\ missed \in Nat /\ missed <= changes
      /\ changes < MaxChanges
  BY RowsAssumption DEF OffByChanges, DashboardTypeOK, Move
<1>2. /\ state' = [state EXCEPT ![r] = s] /\ UNCHANGED <<figures, others>>
      /\ changes' = changes + 1
      /\ missed' = IF figures = <<>> THEN 0 ELSE missed + 1
      /\ s # from /\ from \in RowStates
  BY <1>1 DEF Move
<1>3. DashboardTypeOK'
  <2>1. Len(Counted)' = Len(Counted)
    BY DEF Counted
  <2>. QED
    BY <1>1, <1>2, <2>1, RowsAssumption DEF OffByChanges, DashboardTypeOK
<1>4. CASE figures = <<>>
  <2> DEFINE now(k) == Cardinality(Counted[k])'
  <2>1. /\ Figure(1)' = now(1) /\ Figure(2)' = now(2) /\ Figure(3)' = now(3)
        /\ Figure(4)' = now(4) /\ Figure(5)' = now(5) /\ Figure(6)' = now(6)
        /\ Figure(7)' = now(7) /\ Figure(8)' = now(8)
        /\ Others' = Cardinality(In("Deleted"))'
    BY <1>2, <1>4 DEF Figure, Others
  <2>2. Statements' /\ Countable' /\ AddUp'
    BY CountedAre, CountedFinite, AddUpAtOnce, PTL
  <2>3. /\ now(1) \in Nat /\ now(2) \in Nat /\ now(3) \in Nat /\ now(4) \in Nat
        /\ now(5) \in Nat /\ now(6) \in Nat /\ Cardinality(In("Deleted"))' \in Nat
        /\ now(8) = now(5) /\ now(7) = now(6)
    BY <2>2 DEF Statements, Countable
  <2>4. /\ now(2) + now(3) + now(4) + Cardinality(In("Deleted"))' = now(1)
        /\ now(5) + now(6) <= now(2)
    BY <1>3, <2>2 DEF DashboardTypeOK, AddUp
  <2>5. missed' = 0
    BY <1>2, <1>4
  <2>. HIDE DEF now
  <2>. QED
    BY <1>3, <2>1, <2>3, <2>4, <2>5 DEF OffByChanges, Within
<1>5. CASE figures # <<>>
  <2> DEFINE gain(k) == Has(Counted'[k], r) - Has(Counted[k], r)
  <2>1. Statements /\ Countable /\ Statements' /\ Countable'
    BY CountedAre, CountedFinite, PTL
  <2>2. ASSUME NEW k \in 2 .. 8
        PROVE  Figure(k)' = IF k <= L THEN Figure(k) ELSE Figure(k) + gain(k)
    <3>1. Counted[k] \ {r} = Counted'[k] \ {r}
      <4>1. \A x : In(x)' \ {r} = In(x) \ {r}
        BY <1>1, <1>2 DEF In
      <4>2. k \in {2, 3, 4, 5, 6, 7, 8}
        OBVIOUS
      <4>. QED
        BY <2>1, <4>1, <4>2 DEF Statements
    <3>2. k \in 1 .. 8
      OBVIOUS
    <3>3. Cardinality(Counted'[k]) =
            Cardinality(Counted[k]) - Has(Counted[k], r) + Has(Counted'[k], r)
      BY <2>1, <3>1, <3>2, JoinsOrLeaves DEF Countable
    <3>4. /\ Cardinality(Counted[k]) \in Nat
          /\ Has(Counted[k], r) \in Nat /\ Has(Counted'[k], r) \in Nat
      BY <2>1, <3>2 DEF Countable, Has
    <3>. QED
      BY <1>2, <3>3, <3>4 DEF Figure
  <2>3. Figure(1)' = Figure(1) /\ Others' = Others /\ missed' = missed + 1
    <3>1. L >= 1
      BY <1>1, <1>5
    <3>. QED
      BY <1>2, <1>5, <3>1 DEF Figure, Others
  <2>4. ASSUME NEW k \in 1 .. 8 PROVE Figure(k) \in Int
    <3>1. CASE k <= L
      <4>1. k \in 1 .. L
        BY <1>1, <3>1
      <4>2. figures[k] \in Nat
        BY <1>1, <4>1
      <4>. QED
        BY <3>1, <4>2 DEF Figure
    <3>2. CASE ~(k <= L)
      <4>1. Cardinality(Counted[k]) \in Nat
        BY <2>1 DEF Countable
      <4>. QED
        BY <3>2, <4>1 DEF Figure
    <3>. QED
      BY <3>1, <3>2
  <2>5. Others \in Int
    BY <1>1, <2>1 DEF Others, Countable
  <2>6. /\ gain(2) = Has({"Approved"}, s) - Has({"Approved"}, from)
        /\ gain(3) = Has({"Rejected"}, s) - Has({"Rejected"}, from)
        /\ gain(4) = Has({"Pending"}, s) - Has({"Pending"}, from)
        /\ gain(5) = IF RowCloud[r] = "AWS" THEN gain(2) ELSE 0
        /\ gain(6) = IF RowCloud[r] = "AZURE" THEN gain(2) ELSE 0
        /\ gain(7) = gain(6) /\ gain(8) = gain(5)
    BY <1>1, <1>2, <2>1 DEF Statements, Has, In
  <2>7. /\ gain(2) \in {-1, 0, 1} /\ gain(3) \in {-1, 0, 1} /\ gain(4) \in {-1, 0, 1}
        /\ gain(5) \in {-1, 0, 1} /\ gain(6) \in {-1, 0, 1}
    BY <2>6 DEF Has
  <2> DEFINE late(k) == Late(k, L, gain(k))
  <2>. HIDE DEF gain
  <2>8. ASSUME NEW k \in 2 .. 8
        PROVE  Figure(k) \in Int /\ late(k) \in Int /\ Figure(k)' = Figure(k) + late(k)
    <3>1. Figure(k) \in Int
      BY <2>4
    <3>2. k \in {2, 3, 4, 5, 6, 7, 8}
      OBVIOUS
    <3>3. late(k) \in Int
      BY <2>6, <2>7, <3>2 DEF Late
    <3>. QED
      BY <2>2, <3>1, <3>3 DEF Late
  <2>9. /\ late(2) + late(3) + late(4) \in {-1, 0, 1}
        /\ late(5) + late(6) - late(2) \in {-1, 0, 1}
        /\ late(5) - late(8) \in {-1, 0, 1} /\ late(6) - late(7) \in {-1, 0, 1}
    <3>1. late(2) + late(3) + late(4) \in {-1, 0, 1}
      BY <1>1, <1>2, <2>6, LateStates
    <3>2. /\ late(5) + late(6) - late(2) \in {-1, 0, 1}
          /\ late(5) - late(8) \in {-1, 0, 1} /\ late(6) - late(7) \in {-1, 0, 1}
      BY <1>1, <2>6, <2>7, LateClouds
    <3>. QED
      BY <3>1, <3>2
  <2>. HIDE DEF late
  <2>10. /\ Within((Figure(2) + Figure(3) + Figure(4) + Others) - Figure(1))
         /\ Figure(5) + Figure(6) - Figure(2) <= missed
         /\ Within(Figure(5) - Figure(8))
         /\ Within(Figure(6) - Figure(7))
    BY DEF OffByChanges
  <2>11. Within((Figure(2) + Figure(3) + Figure(4) + Others) - Figure(1))'
    <3> DEFINE x == (Figure(2) + Figure(3) + Figure(4) + Others) - Figure(1)
               y == (Figure(2)' + Figure(3)' + Figure(4)' + Others') - Figure(1)'
    <3>1. /\ Figure(1) \in Int
          /\ Figure(2) \in Int /\ late(2) \in Int /\ Figure(2)' = Figure(2) + late(2)
          /\ Figure(3) \in Int /\ late(3) \in Int /\ Figure(3)' = Figure(3) + late(3)
          /\ Figure(4) \in Int /\ late(4) \in Int /\ Figure(4)' = Figure(4) + late(4)
      BY <2>4, <2>8
    <3>2. x \in Int /\ y \in Int /\ y - x = late(2) + late(3) + late(4)
      BY <2>3, <2>5, <3>1
    <3>. HIDE DEF x, y
    <3>3. y <= missed + 1 /\ -(missed + 1) <= y
      BY <1>1, <2>9, <2>10, <3>2, StaysClose DEF Within, x
    <3>. QED
      BY <2>3, <3>3 DEF Within, y
  <2>12. (Figure(5) + Figure(6) - Figure(2) <= missed)'
    <3> DEFINE x == Figure(5) + Figure(6) - Figure(2)
               y == Figure(5)' + Figure(6)' - Figure(2)'
    <3>1. /\ Figure(2) \in Int /\ late(2) \in Int /\ Figure(2)' = Figure(2) + late(2)
          /\ Figure(5) \in Int /\ late(5) \in Int /\ Figure(5)' = Figure(5) + late(5)
          /\ Figure(6) \in Int /\ late(6) \in Int /\ Figure(6)' = Figure(6) + late(6)
      BY <2>8
    <3>2. x \in Int /\ y \in Int /\ y - x = late(5) + late(6) - late(2)
      BY <3>1
    <3>. HIDE DEF x, y
    <3>3. y <= missed + 1
      BY <1>1, <2>9, <2>10, <3>2, StaysClose DEF x
    <3>. QED
      BY <2>3, <3>3 DEF y
  <2>13. ASSUME NEW j \in 2 .. 8, NEW k \in 2 .. 8, Within(Figure(j) - Figure(k)),
                late(j) - late(k) \in {-1, 0, 1}
         PROVE  Within(Figure(j) - Figure(k))'
    <3> DEFINE x == Figure(j) - Figure(k)
               y == Figure(j)' - Figure(k)'
    <3>1. x \in Int /\ y \in Int /\ y - x = late(j) - late(k)
      BY <2>8
    <3>. HIDE DEF x, y
    <3>2. y <= missed + 1 /\ -(missed + 1) <= y
      BY <1>1, <2>13, <3>1, StaysClose DEF Within, x
    <3>. QED
      BY <2>3, <3>2 DEF Within, y
  <2>14. Within(Figure(5) - Figure(8))' /\ Within(Figure(6) - Figure(7))'
    BY <2>9, <2>10, <2>13
  <2>. QED
    BY <1>2, <1>3, <1>5, <2>11, <2>12, <2>14 DEF OffByChanges
<1>. QED
  BY <1>4, <1>5

(* Counting takes down the figures as they were followed.                  *)
LEMMA CountKeeps ==
  ASSUME OffByChanges, Count
  PROVE  OffByChanges'
<1> DEFINE L == Len(figures)
<1>1. /\ figures \in Seq(Nat) /\ L \in Nat /\ L < 8
      /\ figures' = Append(figures, Cardinality(Counted[L + 1]))
      /\ others' = IF figures = <<>> THEN Cardinality(In("Deleted")) ELSE others
      /\ UNCHANGED <<state, changes, missed>>
  BY CountedAre DEF OffByChanges, DashboardTypeOK, Count, Statements
<1>2. /\ Countable /\ L + 1 \in 1 .. 8 /\ figures' \in Seq(Nat)
      /\ Len(figures') = L + 1 /\ figures' # <<>>
      /\ figures'[L + 1] = Cardinality(Counted[L + 1])
      /\ \A k \in 1 .. L : figures'[k] = figures[k]
  <2>1. L + 1 \in 1 .. 8
    BY <1>1
  <2>2. Cardinality(Counted[L + 1]) \in Nat
    BY <2>1, CountedFinite DEF Countable
  <2>. QED
    BY <1>1, <2>1, <2>2, CountedFinite
<1>3. Counted' = Counted
  BY <1>1 DEF Counted, In
<1>4. ASSUME NEW k \in 1 .. 8 PROVE Figure(k)' = Figure(k)
  <2>1. CASE k \in 1 .. L
    BY <1>1, <1>2, <2>1 DEF Figure
  <2>2. CASE k = L + 1
    BY <1>1, <1>2, <2>2 DEF Figure
  <2>3. CASE k > L + 1
    BY <1>1, <1>2, <1>3, <2>3 DEF Figure
  <2>. QED
    BY <1>1, <2>1, <2>2, <2>3
<1>5. Others' = Others
  BY <1>1, <1>2 DEF Others
<1>6. DashboardTypeOK'
  <2>1. others' \in Nat
    BY <1>1, <1>2 DEF Countable, OffByChanges, DashboardTypeOK
  <2>. QED
    BY <1>1, <1>2, <1>3, <2>1, CountedAre DEF OffByChanges, DashboardTypeOK, Statements
<1>. QED
  BY <1>1, <1>2, <1>4, <1>5, <1>6 DEF OffByChanges, Within

(* Before anything is counted, the figures are those of one moment.        *)
LEMMA OffByInitially == DashboardInit => OffByChanges
<1>. SUFFICES ASSUME DashboardInit PROVE OffByChanges
  OBVIOUS
<1>1. /\ state \in [Rows -> RowStates] /\ figures = <<>>
      /\ others = 0 /\ changes = 0 /\ missed = 0
  BY DEF DashboardInit
<1> DEFINE now(k) == Cardinality(Counted[k])
<1>2. /\ Figure(1) = now(1) /\ Figure(2) = now(2) /\ Figure(3) = now(3) /\ Figure(4) = now(4)
      /\ Figure(5) = now(5) /\ Figure(6) = now(6) /\ Figure(7) = now(7) /\ Figure(8) = now(8)
      /\ Others = Cardinality(In("Deleted"))
  BY <1>1 DEF Figure, Others
<1>3. /\ now(1) \in Nat /\ now(2) \in Nat /\ now(3) \in Nat /\ now(4) \in Nat
      /\ now(5) \in Nat /\ now(6) \in Nat /\ Cardinality(In("Deleted")) \in Nat
      /\ now(8) = now(5) /\ now(7) = now(6)
  BY CountedAre, CountedFinite DEF Statements, Countable
<1>4. /\ now(2) + now(3) + now(4) + Cardinality(In("Deleted")) = now(1)
      /\ now(5) + now(6) <= now(2)
  BY <1>1, AddUpAtOnce DEF AddUp
<1>5. DashboardTypeOK
  BY <1>1, RowsAssumption, CountedAre DEF DashboardTypeOK, Statements
<1>. HIDE DEF now
<1>. QED
  BY <1>1, <1>2, <1>3, <1>4, <1>5 DEF OffByChanges, Within

(* So the figures stay that close.                                         *)
LEMMA OffByAlways == DashboardSpec => []OffByChanges
<1>1. ASSUME OffByChanges, [DashboardNext]_dashboardVars PROVE OffByChanges'
  <2>1. CASE Count
    BY <1>1, <2>1, CountKeeps
  <2>2. ASSUME NEW r \in Rows, NEW s \in RowStates, Move(r, s) PROVE OffByChanges'
    BY <1>1, <2>2, MoveChanges
  <2>3. CASE UNCHANGED dashboardVars
    BY <1>1, <2>3
    DEF OffByChanges, DashboardTypeOK, Within, Figure, Others, Counted, In, dashboardVars
  <2>. QED
    BY <1>1, <2>1, <2>2, <2>3 DEF DashboardNext
<1>. QED
  BY <1>1, OffByInitially, PTL DEF DashboardSpec

(* The variables of the dashboard always have their types.                 *)
THEOREM DashboardTypeCorrect == DashboardSpec => []DashboardTypeOK
BY OffByAlways, PTL DEF OffByChanges

(* However many requests are made, decided and removed while the figures   *)
(* of the dashboard are counted one by one, those figures differ from      *)
(* figures that add up by no more than the number of these changes.        *)
THEOREM FiguresOffByMoves == DashboardSpec => []CountsOffByMoves
<1>1. ASSUME OffByChanges, Len(figures) = Len(Counted) PROVE CountsOffByMoves
  <2>1. figures \in Seq(Nat) /\ others \in Nat /\ changes \in Nat /\ missed \in 0 .. changes
    BY <1>1, RowsAssumption DEF OffByChanges, DashboardTypeOK
  <2>2. figures \in [1 .. Len(figures) -> Nat]
    BY <2>1
  <2>3. Len(figures) = 8
    BY <1>1, CountedAre DEF Statements
  <2>4. /\ figures[1] \in Nat /\ figures[2] \in Nat /\ figures[3] \in Nat /\ figures[4] \in Nat
        /\ figures[5] \in Nat /\ figures[6] \in Nat /\ figures[7] \in Nat /\ figures[8] \in Nat
    BY <2>2, <2>3
  <2>5. /\ Figure(1) = figures[1] /\ Figure(2) = figures[2] /\ Figure(3) = figures[3]
        /\ Figure(4) = figures[4] /\ Figure(5) = figures[5] /\ Figure(6) = figures[6]
        /\ Figure(7) = figures[7] /\ Figure(8) = figures[8]
        /\ figures # <<>>
    BY <2>3 DEF Figure
  <2>6. Others = others
    BY <2>5 DEF Others
  <2>7. /\ Within((figures[2] + figures[3] + figures[4] + others) - figures[1])
        /\ figures[5] + figures[6] - figures[2] <= missed
        /\ Within(figures[5] - figures[8]) /\ Within(figures[6] - figures[7])
    BY <1>1, <2>5, <2>6 DEF OffByChanges
  <2>8. ASSUME NEW x \in Int, Within(x) PROVE x \in -missed .. missed
    BY <2>1, <2>8 DEF Within
  <2>9. /\ (figures[2] + figures[3] + figures[4] + others) - figures[1] \in -missed .. missed
        /\ figures[5] - figures[8] \in -missed .. missed
        /\ figures[6] - figures[7] \in -missed .. missed
    <3>1. others \in Nat
      BY <2>1
    <3>2. /\ (figures[2] + figures[3] + figures[4] + others) - figures[1] \in Int
          /\ figures[5] - figures[8] \in Int /\ figures[6] - figures[7] \in Int
      BY <2>4, <3>1
    <3>. QED
      BY <2>7, <2>8, <3>2
  <2>10. figures[5] + figures[6] <= figures[2] + missed
    <3>1. missed \in Int
      BY <2>1
    <3>. QED
      BY <2>4, <2>7, <3>1
  <2>. QED
    BY Zenon, <2>9, <2>10 DEF CountsOffByMoves
<1>2. OffByChanges => CountsOffByMoves
  BY <1>1 DEF CountsOffByMoves
<1>. QED
  BY <1>2, OffByAlways, PTL

----------------------------------------------------------------------------
(* Catalogue: the place of an entry in an answer that is sorted, among the *)
(* entries with a smaller key and those with one that is not greater.      *)
Sorted(m, key) ==
  {s \in [1 .. Cardinality(m) -> m] :
     \A i, j \in 1 .. Cardinality(m) :
       (s[i] = s[j] => i = j) /\ (i < j => key[s[i]] <= key[s[j]])}

Below(m, key, c) == {e \in m : key[e] < c}
UpTo(m, key, c) == {e \in m : key[e] <= c}

LEMMA Placed ==
  ASSUME NEW m, IsFiniteSet(m), NEW key \in [m -> Int], NEW s \in Sorted(m, key),
         NEW i \in 1 .. Cardinality(m)
  PROVE  /\ Cardinality(Below(m, key, key[s[i]])) < i
         /\ i <= Cardinality(UpTo(m, key, key[s[i]]))
<1> DEFINE n == Cardinality(m)
           c == key[s[i]]
<1>1. /\ s \in [1 .. n -> m] /\ n \in Nat /\ c \in Int
      /\ \A j, k \in 1 .. n : s[j] = s[k] => j = k
      /\ \A j, k \in 1 .. n : j < k => key[s[j]] <= key[s[k]]
  BY FS_CardinalityType DEF Sorted
<1>2. \A e \in m : \E j \in 1 .. n : e = s[j]
  <2>1. IsFiniteSet(1 .. n) /\ Cardinality(1 .. n) = n
    BY <1>1, FS_Interval
  <2>2. s \in Injection(1 .. n, m)
    BY <1>1 DEF Injection, IsInjective
  <2>. HIDE DEF n
  <2>3. Cardinality(1 .. n) = Cardinality(m)
    BY <2>1 DEF n
  <2>4. Cardinality(1 .. n) = Cardinality(m) <=> s \in Surjection(1 .. n, m)
    BY Zenon, <2>2, FS_Injection
  <2>. QED
    BY <2>3, <2>4 DEF Surjection
<1>3. Cardinality(Below(m, key, c)) < i
  <2> DEFINE T == {j \in 1 .. n : s[j] \in Below(m, key, c)}
             f == [j \in T |-> s[j]]
  <2>1. f \in Surjection(T, Below(m, key, c))
    BY <1>1, <1>2 DEF Surjection, Below
  <2>2. T \subseteq 1 .. (i - 1)
    <3>1. ASSUME NEW j \in T PROVE j < i
      BY <1>1 DEF Below
    <3>. QED
      BY <1>1, <3>1
  <2>3. IsFiniteSet(1 .. (i - 1)) /\ Cardinality(1 .. (i - 1)) = i - 1
    <3>1. 1 \in Int /\ i - 1 \in Int /\ i >= 1
      BY <1>1
    <3>. HIDE DEF c
    <3>2. /\ IsFiniteSet(1 .. (i - 1))
          /\ Cardinality(1 .. (i - 1)) = IF 1 > i - 1 THEN 0 ELSE (i - 1) - 1 + 1
      BY <3>1, FS_Interval
    <3>. QED
      BY <3>1, <3>2
  <2>. HIDE DEF T, f, c
  <2>4. IsFiniteSet(T) /\ Cardinality(T) <= i - 1
    BY <2>2, <2>3, FS_Subset
  <2>5. /\ IsFiniteSet(Below(m, key, c))
        /\ Cardinality(Below(m, key, c)) <= Cardinality(T)
    BY Zenon, <2>1, <2>4, FS_Surjection
  <2>6. Cardinality(T) \in Nat /\ Cardinality(Below(m, key, c)) \in Nat
    BY <2>4, <2>5, FS_CardinalityType
  <2>. QED
    BY <1>1, <2>4, <2>5, <2>6
<1>4. i <= Cardinality(UpTo(m, key, c))
  <2> DEFINE f == [j \in 1 .. i |-> s[j]]
  <2>1. f \in Injection(1 .. i, UpTo(m, key, c))
    <3>1. \A j \in 1 .. i : s[j] \in UpTo(m, key, c)
      BY <1>1 DEF UpTo
    <3>. QED
      BY <1>1, <3>1 DEF Injection, IsInjective
  <2>2. IsFiniteSet(UpTo(m, key, c))
    BY FS_Subset DEF UpTo
  <2>3. Cardinality(1 .. i) = i
    BY <1>1, FS_Interval
  <2>. HIDE DEF f, c
  <2>4. Cardinality(1 .. i) <= Cardinality(UpTo(m, key, c))
    BY Zenon, <2>1, <2>2, FS_Injection
  <2>. QED
    BY <2>3, <2>4
<1>. QED
  BY <1>3, <1>4

(* However often the entries are sorted anew, a place goes to an entry of  *)
(* the same key: what is put together from the places of several answers   *)
(* has as many entries of a key as there are.                              *)
LEMMA AsManyOfAKey ==
  ASSUME NEW m, IsFiniteSet(m), NEW key \in [m -> Int], NEW c \in Int,
         NEW t, \A i \in 1 .. Cardinality(m) : \E s \in Sorted(m, key) : t[i] = s[i]
  PROVE  Cardinality({i \in 1 .. Cardinality(m) : key[t[i]] = c})
           = Cardinality({e \in m : key[e] = c})
<1> DEFINE n == Cardinality(m)
           Lower(d) == Below(m, key, d)
           Upper(d) == UpTo(m, key, d)
           class == {e \in m : key[e] = c}
           lo == Cardinality(Lower(c))
           hi == Cardinality(Upper(c))
<1>1. \A d \in Int : /\ IsFiniteSet(Lower(d)) /\ Cardinality(Lower(d)) \in Nat
                     /\ IsFiniteSet(Upper(d)) /\ Cardinality(Upper(d)) \in Nat
                     /\ Cardinality(Upper(d)) <= n
  BY FS_Subset, FS_CardinalityType DEF Below, UpTo
<1>2. n \in Nat /\ IsFiniteSet(class) /\ Cardinality(class) \in Nat
  BY FS_Subset, FS_CardinalityType
<1>3. hi = lo + Cardinality(class)
  <2>1. Upper(c) = Lower(c) \cup class /\ Lower(c) \cap class = {}
    BY DEF Below, UpTo
  <2>. HIDE DEF Lower, Upper, class
  <2>2. Cardinality(Lower(c) \cup class)
          = Cardinality(Lower(c)) + Cardinality(class) - Cardinality(Lower(c) \cap class)
    BY <1>1, <1>2, FS_Union
  <2>3. Cardinality(Lower(c) \cap class) = 0
    BY Zenon, <2>1, FS_EmptySet
  <2>4. Cardinality(Upper(c)) = Cardinality(Lower(c) \cup class)
    BY Zenon, <2>1
  <2>5. Cardinality(Lower(c)) \in Nat
    BY <1>1
  <2>. QED
    BY <1>2, <2>2, <2>3, <2>4, <2>5
<1>4. ASSUME NEW i \in 1 .. n
      PROVE  /\ key[t[i]] \in Int
             /\ Cardinality(Lower(key[t[i]])) < i /\ i <= Cardinality(Upper(key[t[i]]))
  <2>1. PICK s \in Sorted(m, key) : t[i] = s[i]
    OBVIOUS
  <2>2. key[s[i]] \in Int
    BY <1>2 DEF Sorted
  <2>. QED
    BY <2>1, <2>2, Placed
<1>5. ASSUME NEW d \in Int, NEW e \in Int, d < e
      PROVE  Cardinality(Upper(d)) <= Cardinality(Lower(e))
  <2>1. Upper(d) \subseteq Lower(e)
    BY <1>5 DEF Below, UpTo
  <2>. HIDE DEF Lower, Upper
  <2>. QED
    BY <1>1, <2>1, FS_Subset
<1>6. {i \in 1 .. n : key[t[i]] = c} = lo + 1 .. hi
  <2>1. ASSUME NEW i \in 1 .. n, key[t[i]] = c PROVE i \in lo + 1 .. hi
    BY <1>1, <1>4, <2>1
  <2>2. ASSUME NEW i \in lo + 1 .. hi PROVE i \in 1 .. n /\ key[t[i]] = c
    <3>. HIDE DEF Lower, Upper, n
    <3>1. i \in 1 .. n
      BY <1>1, <1>2
    <3>2. CASE key[t[i]] < c
      BY <1>1, <1>4, <1>5, <3>1, <3>2
    <3>3. CASE c < key[t[i]]
      BY <1>1, <1>4, <1>5, <3>1, <3>3
    <3>. QED
      BY <1>4, <3>1, <3>2, <3>3
  <2>3. lo + 1 .. hi \subseteq 1 .. n
    BY <2>2
  <2>. HIDE DEF lo, hi, n
  <2>. QED
    BY <2>1, <2>2, <2>3
<1>7. Cardinality(lo + 1 .. hi) = Cardinality(class)
  <2>. HIDE DEF Lower, Upper, class
  <2>1. lo \in Nat /\ hi \in Nat
    BY <1>1
  <2>. HIDE DEF lo, hi
  <2>2. Cardinality(lo + 1 .. hi) = IF lo + 1 > hi THEN 0 ELSE hi - (lo + 1) + 1
    BY <2>1, FS_Interval
  <2>. QED
    BY <1>2, <1>3, <2>1, <2>2
<1>. QED
  BY <1>6, <1>7

(* What is sorted by a key of its own for every entry, in whatever answer  *)
(* each page comes from, has every entry once.                             *)
LEMMA OnceEach ==
  ASSUME NEW m, IsFiniteSet(m), NEW key \in [m -> Int],
         \A e, f \in m : key[e] = key[f] => e = f,
         NEW t, \A i \in 1 .. Cardinality(m) : t[i] \in m,
         \A i \in 1 .. Cardinality(m) : \E s \in Sorted(m, key) : t[i] = s[i],
         NEW e \in m
  PROVE  Cardinality({i \in 1 .. Cardinality(m) : t[i] = e}) = 1
<1>1. key[e] \in Int
  OBVIOUS
<1>2. Cardinality({i \in 1 .. Cardinality(m) : key[t[i]] = key[e]})
        = Cardinality({f \in m : key[f] = key[e]})
  BY <1>1, AsManyOfAKey
<1>3. /\ {i \in 1 .. Cardinality(m) : key[t[i]] = key[e]} = {i \in 1 .. Cardinality(m) : t[i] = e}
      /\ {f \in m : key[f] = key[e]} = {e}
  OBVIOUS
<1>4. Cardinality({e}) = 1
  BY FS_Singleton
<1>. QED
  BY Zenon, <1>2, <1>3, <1>4

(* There is a next page if this one and those before have not held all.    *)
LEMMA NextPage ==
  ASSUME NEW page \in Nat, NEW total \in Nat, NEW limit \in Nat \ {0}
  PROVE  /\ HasNext(page, total, limit) <=> page * limit < total
         /\ Skip(page + 1, limit) = page * limit
         /\ page # 0 => Skip(page, limit) + limit = page * limit
<1> DEFINE q == TotalPages(total, limit)
<1>1. q \in Nat /\ limit * q <= total + limit - 1 /\ total + limit - 1 < limit * q + limit
  BY DEF TotalPages
<1>2. Skip(page + 1, limit) = page * limit /\ (page # 0 => Skip(page, limit) + limit = page * limit)
  BY DEF Skip
<1>3. CASE page < q
  <2>1. page * limit + limit <= limit * q
    BY <1>1, <1>3
  <2>. QED
    BY <1>1, <1>2, <1>3, <2>1 DEF HasNext
<1>4. CASE q <= page
  <2>1. limit * q <= page * limit
    BY <1>1, <1>4
  <2>. QED
    BY <1>1, <1>2, <1>4, <2>1 DEF HasNext
<1>. QED
  BY <1>1, <1>3, <1>4

(* What has been read so far: the places before the page to read next,     *)
(* each out of some answer; and there is a next page as long as that is    *)
(* not all.                                                                *)
Total == Cardinality(reading.matches)
ReadSoFar == Skip(reading.page, reading.limit)

Reading ==
  /\ CatalogueTypeOK
  /\ Len(seen) = IF ReadSoFar < Total THEN ReadSoFar ELSE Total
  /\ reading.hasNext => ReadSoFar <= Total
  /\ ~reading.hasNext /\ ~reading.maximum => Total <= ReadSoFar
  /\ \A i \in 1 .. Len(seen) : \E s \in Orders(reading.of, reading.matches) : seen[i] = s[i]

(* An answer has every entry that matches.                                 *)
LEMMA Answers ==
  ASSUME NEW m \in SUBSET Entries, NEW of, NEW s \in Orders(of, m)
  PROVE  /\ IsFiniteSet(m) /\ Cardinality(m) \in Nat
         /\ s \in [1 .. Cardinality(m) -> m]
         /\ s \in Seq(Entries) /\ Len(s) = Cardinality(m)
<1>1. IsFiniteSet(m) /\ Cardinality(m) \in Nat
  BY EntriesAssumption, FS_Subset, FS_CardinalityType
<1>2. s \in [1 .. Cardinality(m) -> m]
  BY DEF Orders, SetToSeqs
<1>. HIDE DEF Orders
<1>. QED
  BY <1>1, <1>2

(* A page is the next part of such an answer.                              *)
LEMMA PageKeepsReading ==
  ASSUME Reading, ReadPage
  PROVE  Reading'
<1> DEFINE m == reading.matches
           limit == reading.limit
           page == reading.page
<1>1. /\ m \in SUBSET Entries /\ limit \in Nat \ {0} /\ page \in Nat \ {0}
      /\ reading.hasNext /\ ~reading.maximum
      /\ seen \in Seq(Entries)
  BY DEF Reading, CatalogueTypeOK, ReadPage
<1>2. PICK s \in Orders(reading.of, m) : seen' = seen \o PageOf(s, page, limit)
  BY DEF ReadPage
<1>3. /\ IsFiniteSet(m) /\ Total \in Nat /\ s \in [1 .. Total -> m]
      /\ s \in Seq(Entries) /\ Len(s) = Total
  BY <1>1, Answers DEF Total
<1>4. /\ reading' = [reading EXCEPT !.page = page + 1, !.hasNext = HasNext(page, Total, limit)]
      /\ HasNext(page, Total, limit) \in BOOLEAN
  BY DEF ReadPage, HasNext, Total
<1>5. /\ reading'.of = reading.of /\ reading'.matches = m /\ reading'.limit = limit
      /\ reading'.page = page + 1 /\ reading'.hasNext = HasNext(page, Total, limit)
      /\ reading'.maximum = reading.maximum
  BY <1>4 DEF Reading, CatalogueTypeOK
<1> DEFINE before == Skip(page, limit)
           after == IF before + limit < Total THEN before + limit ELSE Total
<1>6. /\ before \in Nat /\ before <= Total /\ Len(seen) = before
      /\ Skip(page + 1, limit) = before + limit
      /\ HasNext(page, Total, limit) <=> before + limit < Total
  <2>1. /\ HasNext(page, Total, limit) <=> page * limit < Total
        /\ Skip(page + 1, limit) = page * limit
        /\ page # 0 => before + limit = page * limit
    BY <1>1, <1>3, NextPage
  <2>2. before \in Nat
    BY <1>1 DEF Skip
  <2>3. /\ Len(seen) = IF before < Total THEN before ELSE Total
        /\ before <= Total
    BY <1>1 DEF Reading, ReadSoFar
  <2>. HIDE DEF before
  <2>. QED
    BY <1>1, <1>3, <2>1, <2>2, <2>3
<1>. HIDE DEF before
<1>7. /\ PageOf(s, page, limit) \in Seq(Entries)
      /\ Len(PageOf(s, page, limit)) = after - before
      /\ \A j \in 1 .. after - before : PageOf(s, page, limit)[j] = s[before + j]
  <2>1. PageOf(s, page, limit) = SubSeq(s, before + 1, after)
    BY <1>1, <1>3, <1>6 DEF PageOf, before
  <2>2. after \in before .. Len(s)
    BY <1>1, <1>3, <1>6
  <2>. HIDE DEF after
  <2>. QED
    BY <1>3, <1>6, <2>1, <2>2
<1>8. after \in Nat /\ before <= after /\ after <= Total
  BY <1>1, <1>3, <1>6
<1>. HIDE DEF after
<1>9. /\ seen' \in Seq(Entries) /\ Len(seen') = after
      /\ \A i \in 1 .. before : seen'[i] = seen[i]
      /\ \A i \in before + 1 .. after : seen'[i] = s[i]
  <2> DEFINE now == PageOf(s, page, limit)
  <2>1. /\ now \in Seq(Entries) /\ Len(now) = after - before /\ seen' = seen \o now
        /\ \A j \in 1 .. after - before : now[j] = s[before + j]
    BY <1>2, <1>7
  <2>. HIDE DEF now
  <2>2. /\ seen' \in Seq(Entries) /\ Len(seen') = after
        /\ \A i \in 1 .. before : seen'[i] = seen[i]
    <3>. seen \in Seq(Entries) /\ now \in Seq(Entries) /\ seen' = seen \o now
      BY <1>1, <2>1
    <3>1. seen' \in Seq(Entries) /\ Len(seen') = Len(seen) + Len(now)
      OBVIOUS
    <3>2. ASSUME NEW i \in 1 .. Len(seen) PROVE seen'[i] = seen[i]
      OBVIOUS
    <3>. QED
      BY <1>6, <1>8, <2>1, <3>1, <3>2
  <2>3. ASSUME NEW i \in before + 1 .. after PROVE seen'[i] = s[i]
    <3>1. /\ i - before \in 1 .. after - before /\ before + (i - before) = i
          /\ i \in 1 .. Len(seen) + Len(now) /\ i > Len(seen)
      BY <1>6, <1>8, <2>1
    <3>2. seen'[i] = now[i - before]
      BY <1>1, <1>6, <2>1, <3>1
    <3>. QED
      BY <2>1, <3>1, <3>2
  <2>. QED
    BY <2>2, <2>3
<1>10. CatalogueTypeOK'
  <2>1. page + 1 \in Nat \ {0}
    BY <1>1
  <2>. QED
    BY <1>4, <1>9, <2>1 DEF Reading, CatalogueTypeOK
<1>11. ASSUME NEW i \in 1 .. Len(seen')
       PROVE  \E t \in Orders(reading.of, m) : seen'[i] = t[i]
  <2>1. CASE i \in 1 .. before
    BY <1>6, <1>9, <2>1 DEF Reading
  <2>2. CASE i \in before + 1 .. after
    BY <1>9, <2>2
  <2>. QED
    BY <1>6, <1>8, <1>9, <2>1, <2>2
<1>12. Total' = Total /\ ReadSoFar' = before + limit
  BY <1>5, <1>6 DEF Total, ReadSoFar
<1>. QED
  BY <1>1, <1>3, <1>5, <1>6, <1>8, <1>9, <1>10, <1>11, <1>12 DEF Reading, after

(* Reading on keeps that up.                                               *)
LEMMA ReadingAlways == CatalogueSpec => []Reading
<1>1. ASSUME CatalogueInit PROVE Reading
  <2>1. reading.matches \in SUBSET Entries /\ reading.limit \in Nat \ {0} /\ reading.page = 1
    BY <1>1 DEF CatalogueInit
  <2>2. Total \in Nat
    BY <2>1, EntriesAssumption, FS_Subset, FS_CardinalityType DEF Total
  <2>3. ReadSoFar = 0
    BY <2>1 DEF ReadSoFar, Skip
  <2>4. CatalogueTypeOK
    <3>1. {1} \subseteq Nat \ {0} /\ {TRUE} \subseteq BOOLEAN
      OBVIOUS
    <3>2. seen \in Seq(Entries)
      BY <1>1 DEF CatalogueInit
    <3>. QED
      BY <1>1, <3>1, <3>2 DEF CatalogueInit, CatalogueTypeOK
  <2>5. reading.hasNext /\ seen = <<>>
    BY <1>1 DEF CatalogueInit
  <2>. QED
    BY <2>2, <2>3, <2>4, <2>5 DEF Reading
<1>2. ASSUME Reading, [CatalogueNext]_catalogueVars PROVE Reading'
  <2>1. CASE FailOnMaximum
    <3>1. /\ reading'.of = reading.of /\ reading'.matches = reading.matches
          /\ reading'.limit = reading.limit /\ reading'.page = reading.page
          /\ ~reading'.hasNext /\ reading'.maximum /\ UNCHANGED seen
      BY <1>2, <2>1 DEF FailOnMaximum, Reading, CatalogueTypeOK
    <3>2. CatalogueTypeOK'
      BY <1>2, <2>1 DEF FailOnMaximum, Reading, CatalogueTypeOK
    <3>. QED
      BY <1>2, <3>1, <3>2 DEF Reading, Total, ReadSoFar
  <2>2. CASE UNCHANGED catalogueVars
    BY <1>2, <2>2 DEF catalogueVars, Reading, CatalogueTypeOK, Total, ReadSoFar
  <2>. QED
    BY <1>2, <2>1, <2>2, PageKeepsReading DEF CatalogueNext
<1>. QED
  BY <1>1, <1>2, PTL DEF CatalogueSpec

(* The variables of the catalogues always have their types.                *)
THEOREM CatalogueTypeCorrect == CatalogueSpec => []CatalogueTypeOK
BY ReadingAlways, PTL DEF Reading

(* The pages of a catalogue hold together, whatever order the database     *)
(* chooses anew for each of them where the query leaves it a choice.       *)
THEOREM PagesAreComplete == CatalogueSpec => []PagesComplete
<1>1. ASSUME Reading, ~reading.hasNext, ~reading.maximum PROVE PagesComplete
  <2> DEFINE m == reading.matches
             key == [e \in m |-> Key(reading.of, e)]
             n == Cardinality(m)
  <2>1. m \in SUBSET Entries /\ reading.of \in Catalogues /\ seen \in Seq(Entries)
    BY <1>1 DEF Reading, CatalogueTypeOK
  <2>2. IsFiniteSet(m) /\ n \in Nat
    BY <2>1, EntriesAssumption, FS_Subset, FS_CardinalityType
  <2>3. Len(seen) = n
    BY <1>1, <2>2 DEF Reading, Total, ReadSoFar, Skip, CatalogueTypeOK
  <2>4. key \in [m -> Int]
    <3>1. \A e \in m : e \in Nat /\ ClassOf[e] \in Nat
      BY <2>1, EntriesAssumption
    <3>2. \A e \in m : Key(reading.of, e) \in Int
      BY <3>1 DEF Key
    <3>. QED
      BY <3>2
  <2>5. ASSUME NEW i \in 1 .. n PROVE seen[i] \in m
    <3>1. PICK s \in Orders(reading.of, m) : seen[i] = s[i]
      BY <1>1, <2>3 DEF Reading
    <3>2. s \in [1 .. n -> m]
      BY <2>1, Answers
    <3>. QED
      BY <3>1, <3>2
  <2>6. ASSUME reading.of # "aws", NEW i \in 1 .. n
        PROVE  \E s \in Sorted(m, key) : seen[i] = s[i]
    <3>1. PICK s \in Orders(reading.of, m) : seen[i] = s[i]
      BY <1>1, <2>3 DEF Reading
    <3>2. s \in [1 .. n -> m]
      BY <2>1, Answers
    <3>3. s \in Sorted(m, key)
      BY <2>6, <3>2 DEF Orders, SetToSeqs, Sorted
    <3>. QED
      BY <3>1, <3>3
  <2>7. ASSUME \/ reading.of = "azure"
               \/ reading.of = "awsDb" /\ \A e, f \in m : ClassOf[e] = ClassOf[f] => e = f,
               NEW e \in m
        PROVE  Cardinality({i \in 1 .. Len(seen) : seen[i] = e}) = 1
    <3>1. \A x, y \in m : key[x] = key[y] => x = y
      BY <2>7 DEF Key
    <3>2. \A i \in 1 .. n : \E s \in Sorted(m, key) : seen[i] = s[i]
      BY <2>6, <2>7
    <3>. HIDE DEF key
    <3>3. Cardinality({i \in 1 .. n : seen[i] = e}) = 1
      BY <2>2, <2>4, <2>5, <2>7, <3>1, <3>2, OnceEach
    <3>. QED
      BY <2>3, <3>3
  <2>8. ASSUME reading.of = "awsDb", NEW e \in m
        PROVE  Cardinality({f \in m : ClassOf[f] = ClassOf[e]})
                 = Cardinality({i \in 1 .. Len(seen) : ClassOf[seen[i]] = ClassOf[e]})
    <3>1. /\ \A x \in m : key[x] = ClassOf[x]
          /\ ClassOf[e] \in Int
      BY <2>1, <2>8, EntriesAssumption DEF Key
    <3>2. \A i \in 1 .. n : \E s \in Sorted(m, key) : seen[i] = s[i]
      BY <2>6, <2>8
    <3>. HIDE DEF key
    <3>3. Cardinality({i \in 1 .. n : key[seen[i]] = ClassOf[e]})
            = Cardinality({f \in m : key[f] = ClassOf[e]})
      BY <2>2, <2>4, <3>1, <3>2, AsManyOfAKey
    <3>4. /\ {i \in 1 .. n : key[seen[i]] = ClassOf[e]}
               = {i \in 1 .. n : ClassOf[seen[i]] = ClassOf[e]}
          /\ {f \in m : key[f] = ClassOf[e]} = {f \in m : ClassOf[f] = ClassOf[e]}
      BY <2>5, <3>1
    <3>. QED
      BY Zenon, <2>3, <3>3, <3>4
  <2>. QED
    BY <2>3, <2>7, <2>8 DEF PagesComplete
<1>2. Reading => PagesComplete
  BY <1>1 DEF PagesComplete
<1>. QED
  BY <1>2, ReadingAlways, PTL
=============================================================================
