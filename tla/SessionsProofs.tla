--------------------------- MODULE SessionsProofs ---------------------------
(***************************************************************************)
(* Sign-in keeps its promises for any number of requests at once, of       *)
(* tokens, failures and restarts, and for every way the clock is set.      *)
(*                                                                         *)
(* The invariant has three parts: what the stage of the boot says of the   *)
(* user and the file; what the store says of each token, that a row is     *)
(* only ever gone for a cause and never comes back; and what each request  *)
(* may still believe of a row it read before.                              *)
(***************************************************************************)
EXTENDS Sessions, TLAPS

BootInv ==
  /\ gate \in {"create", "write", "upsert"} => account = Nobody
  /\ gate \in {"open", "count"} => password = Configured
  /\ gate = "write" => password \in Generated
  /\ gate = "upsert" /\ password \in Generated => file = password
  /\ account \in Generated => account = file \/ account \in learned

TokenInv(t) ==
  /\ sessions[t] # Absent => sessions[t] = due[t]
  /\ t <= minted /\ sessions[t] = Absent => t \in revoked \/ due[t] < latest
  /\ t \in ended => sessions[t] = Absent

(* How far a request of each kind can be, while the gateway serves.        *)
StageInv(r) ==
  /\ gate # "up" => pc[r] = "idle"
  /\ pc[r] = "idle" => op[r] = "none" /\ ~barred[r]
  /\ pc[r] \in {"compare", "mint"} => op[r] = "login"
  /\ pc[r] = "answer" /\ op[r] = "login" => row[r] \in 1 .. minted
  /\ pc[r] \in {"expiry", "delete", "oidc", "served"} => op[r] = "view"
  /\ op[r] \in {"login", "none"} => ~barred[r]

(* What it came with, and what it may conclude from the row it read.       *)
ReadInv(r) ==
  /\ (pc[r] = "expiry" /\ row[r] # Absent) \/ pc[r] = "delete" =>
       \E t \in Token : cred[r] = Session(t)
  /\ barred[r] => \E t \in ended : cred[r] = Session(t)
  /\ barred[r] => pc[r] \notin {"served", "delete"}
  /\ \A t \in Token : cred[r] = Session(t) =>
       /\ op[r] \in {"logout", "view"} => t \in known
       /\ pc[r] = "expiry" /\ row[r] = Absent => sessions[t] = Absent
       /\ pc[r] = "expiry" /\ row[r] # Absent => row[r] = due[t] /\ ~barred[r]
       /\ pc[r] = "delete" => due[t] < latest
       /\ pc[r] = "oidc" /\ active => sessions[t] = Absent
       /\ pc[r] = "answer" /\ op[r] = "logout" => sessions[t] = Absent

IInv ==
  /\ TypeOK /\ BootInv
  /\ \A t \in Token : TokenInv(t)
  /\ \A r \in Request : StageInv(r) /\ ReadInv(r)

-----------------------------------------------------------------------------
(* What a request does, and what the gateway and its surroundings do.      *)
RequestStep(r) ==
  \/ Arrive(r)
  \/ StoreFails(r)
  \/ LookUp(r)
  \/ Compare(r)
  \/ LoginRefused(r)
  \/ Mint(r)
  \/ LoggedIn(r)
  \/ Revoke(r)
  \/ LoggedOut(r)
  \/ Authenticate(r)
  \/ CheckExpiry(r)
  \/ DeleteExpired(r)
  \/ VerifyOidc(r)
  \/ Refuse(r)
  \/ Served(r)

OtherStep ==
  \/ Start
  \/ OpenStore
  \/ CountUsers
  \/ CreateFile
  \/ WriteFile
  \/ UpsertUser
  \/ Crash
  \/ OperatorReads
  \/ Tick
  \/ SetBack

(* The two kinds of steps are all the steps.                               *)
LEMMA Steps == Next <=> OtherStep \/ \E r \in Request : RequestStep(r)
BY DEF Next, Boot, Login, Logout, View, RequestStep, OtherStep

(* The credentials of different kinds are different.                       *)
LEMMA Kinds ==
  /\ \A t, u \in Token : Session(t) = Session(u) => t = u
  /\ \A t \in Token : /\ Session(t) # Local /\ Session(t) # NoCred
                      /\ Session(t)[1] = "session" /\ Session(t)[2] = t
  /\ \A t \in Token, p \in Secret : Session(t) # Password(p)
  /\ \A t \in Token, j \in Jwt : Session(t) # Oidc(j)
BY DEF Session, Local, NoCred, Password, Oidc

(* The bounds are numbers.                                                 *)
LEMMA Bounds ==
  /\ MaxTokens \in Nat /\ MaxNow \in Nat /\ MaxFaults \in Nat /\ SessionTTL \in Nat
BY SessionsAssumption

(* The types of TypeOK, by what changes together.                          *)
BootTypes ==
  /\ account \in {Nobody, Configured} \cup Generated
  /\ file \in {Missing, Torn} \cup Generated
  /\ gate \in {"down", "open", "count", "create", "write", "upsert", "up"}
  /\ active \in BOOLEAN
  /\ password \in {Configured} \cup Generated
  /\ now \in 0 .. MaxNow /\ latest \in now .. MaxNow
  /\ made \in 0 .. MaxFaults + 1
  /\ learned \subseteq {Configured} \cup Generated

TokenTypes ==
  /\ sessions \in [Token -> Times] /\ due \in [Token -> Times]
  /\ minted \in 0 .. MaxTokens
  /\ known \subseteq 1 .. minted /\ revoked \subseteq 1 .. minted
  /\ ended \subseteq known

Credential == {NoCred} \cup Bearer \cup {Password(p) : p \in Secret}

RequestTypes ==
  /\ op \in [Request -> {"none", "login", "logout", "view"}]
  /\ cred \in [Request -> Credential]
  /\ pc \in [Request -> {"idle", "start", "compare", "mint", "answer",
                         "expiry", "delete", "oidc", "served"}]
  /\ row \in [Request -> Int]
  /\ barred \in [Request -> BOOLEAN]

(* TypeOK is the three groups and the count of failures.                  *)
LEMMA Types ==
  TypeOK <=> BootTypes /\ TokenTypes /\ RequestTypes /\ faults \in 0 .. MaxFaults
BY DEF TypeOK, BootTypes, TokenTypes, RequestTypes, Credential

(* What the steps write is of the type it should be.                       *)
LEMMA Values ==
  /\ NoCred \in Credential /\ Bearer \subseteq Credential
  /\ \A p \in learned \cup {Wrong} : BootTypes => Password(p) \in Credential
  /\ Absent \in Int /\ Absent \in Times /\ Times \subseteq Int
  /\ \A n \in 0 .. MaxNow : n + SessionTTL \in Times /\ n + SessionTTL # Absent
  /\ BootTypes => account \in Int
<1>1. NoCred \in Credential /\ Bearer \subseteq Credential
  BY DEF Credential
<1>2. ASSUME NEW p \in learned \cup {Wrong}, BootTypes PROVE Password(p) \in Credential
  <2>1. p \in Secret
    BY <1>2 DEF BootTypes, Secret
  <2> QED
    BY <2>1 DEF Credential
<1>3. Absent \in Int /\ Absent \in Times /\ Times \subseteq Int
  BY Bounds DEF Absent, Times
<1>4. \A n \in 0 .. MaxNow : n + SessionTTL \in Times /\ n + SessionTTL # Absent
  BY Bounds DEF Absent, Times
<1>5. BootTypes => account \in Int
  BY Bounds DEF BootTypes, Nobody, Configured, Generated
<1> QED
  BY <1>1, <1>2, <1>3, <1>4, <1>5

(* The session token of a request.                                         *)
LEMMA TokensOf ==
  \A r \in Request, t \in Token : t \in Tokens(r) <=> cred[r] = Session(t)
BY DEF Tokens

(* Tokens(r) has no other members.                                         *)
LEMMA OwnTokens ==
  \A r \in Request : Tokens(r) \subseteq Token
BY DEF Tokens

(* The row that is found for it.                                           *)
LEMMA ExpiresOf ==
  ASSUME NEW r \in Request, TokenTypes
  PROVE  /\ \A t \in Token : cred[r] = Session(t) => Expires(r) = sessions[t]
         /\ (\A t \in Token : cred[r] # Session(t)) => Expires(r) = Absent
         /\ Expires(r) \in Int
<1>1. ASSUME NEW t \in Token, cred[r] = Session(t) PROVE Expires(r) = sessions[t]
  <2>1. t \in Tokens(r)
    BY <1>1, TokensOf
  <2>2. cred[r][2] = t
    BY <1>1, Kinds
  <2> QED
    BY <2>1, <2>2 DEF Expires
<1>2. ASSUME \A t \in Token : cred[r] # Session(t) PROVE Expires(r) = Absent
  <2>1. Tokens(r) = {}
    BY <1>2, TokensOf, OwnTokens
  <2> QED
    BY <2>1 DEF Expires
<1>3. \A t \in Token : sessions[t] \in Int
  BY Values DEF TokenTypes
<1> QED
  BY <1>1, <1>2, <1>3, Values

(* Nothing has happened yet.                                               *)
LEMMA InitHolds == Init => IInv
<1> SUFFICES ASSUME Init PROVE IInv
  OBVIOUS
<1> USE Bounds DEF Init
<1>1. BootTypes /\ faults \in 0 .. MaxFaults
  <2>1. account \in {Nobody} /\ file \in {Missing} /\ password \in {Configured}
        /\ learned \subseteq {Configured} /\ active \in BOOLEAN
    OBVIOUS
  <2>2. now \in 0 .. MaxNow /\ latest \in now .. MaxNow /\ made \in 0 .. MaxFaults + 1
        /\ faults \in 0 .. MaxFaults
    OBVIOUS
  <2>3. gate = "down"
    OBVIOUS
  <2> HIDE DEF Init
  <2> QED
    BY <2>1, <2>2, <2>3 DEF BootTypes
<1>2. TokenTypes
  BY DEF TokenTypes, Times, Absent, Token
<1>3. RequestTypes
  <2>1. \A r \in Request : cred[r] = NoCred
    OBVIOUS
  <2>2. row \in [Request -> Int]
    BY DEF Absent
  <2> QED
    BY <2>1, <2>2 DEF RequestTypes, Credential
<1>4. TypeOK
  BY <1>1, <1>2, <1>3, Types
<1>5. BootInv
  BY DEF BootInv, Nobody, Generated
<1>6. ASSUME NEW t \in Token PROVE TokenInv(t)
  BY DEF TokenInv, Token
<1>7. ASSUME NEW r \in Request PROVE StageInv(r) /\ ReadInv(r)
  BY DEF StageInv, ReadInv
<1> QED
  BY <1>4, <1>5, <1>6, <1>7 DEF IInv

(* No request changes the user, the file or the boot.                      *)
LEMMA RequestsAside ==
  ASSUME NEW r \in Request, RequestStep(r)
  PROVE  UNCHANGED <<account, file, gate, active, password, now, latest, made, learned>>
<1> USE DEF Serves, boot, clock, store
<1>1. CASE Arrive(r)
  BY <1>1 DEF Arrive
<1>2. CASE StoreFails(r)
  BY <1>2 DEF StoreFails
<1>3. CASE LookUp(r)
  BY <1>3 DEF LookUp
<1>4. CASE Compare(r)
  BY <1>4 DEF Compare
<1>5. CASE LoginRefused(r)
  BY <1>5 DEF LoginRefused
<1>6. CASE Mint(r)
  BY <1>6 DEF Mint
<1>7. CASE LoggedIn(r)
  BY <1>7 DEF LoggedIn
<1>8. CASE Revoke(r)
  BY <1>8 DEF Revoke
<1>9. CASE LoggedOut(r)
  BY <1>9 DEF LoggedOut
<1>10. CASE Authenticate(r)
  BY <1>10 DEF Authenticate
<1>11. CASE CheckExpiry(r)
  BY <1>11 DEF CheckExpiry
<1>12. CASE DeleteExpired(r)
  BY <1>12 DEF DeleteExpired
<1>13. CASE VerifyOidc(r)
  BY <1>13 DEF VerifyOidc
<1>14. CASE Refuse(r)
  BY <1>14 DEF Refuse
<1>15. CASE Served(r)
  BY <1>15 DEF Served
<1> QED
  BY <1>1, <1>2, <1>3, <1>4, <1>5, <1>6, <1>7, <1>8, <1>9, <1>10, <1>11, <1>12,
     <1>13, <1>14, <1>15 DEF RequestStep

(* And the others change no request, except the end of the process.        *)
LEMMA OthersAside ==
  ASSUME OtherStep, ~Crash
  PROVE  UNCHANGED <<op, cred, pc, row, barred, sessions, minted, known, due, revoked,
                     ended>>
<1> USE DEF Boots, request, store, people, history, counters
<1>1. CASE Start
  BY <1>1 DEF Start
<1>2. CASE OpenStore
  BY <1>2 DEF OpenStore
<1>3. CASE CountUsers
  BY <1>3 DEF CountUsers
<1>4. CASE CreateFile
  BY <1>4 DEF CreateFile
<1>5. CASE WriteFile
  BY <1>5 DEF WriteFile
<1>6. CASE UpsertUser
  BY <1>6 DEF UpsertUser
<1>7. CASE OperatorReads
  BY <1>7 DEF OperatorReads
<1>8. CASE Tick
  BY <1>8 DEF Tick
<1>9. CASE SetBack
  BY <1>9 DEF SetBack
<1> QED
  BY <1>1, <1>2, <1>3, <1>4, <1>5, <1>6, <1>7, <1>8, <1>9 DEF OtherStep


(* A request that ends, or goes on, keeps the types.                       *)
LEMMA RequestTypesKept ==
  ASSUME RequestTypes, BootTypes, TokenTypes, NEW r \in Request, RequestStep(r)
  PROVE  RequestTypes'
<1> USE Values DEF RequestTypes
<1>1. CASE Arrive(r)
  <2>1. To(r, "start") /\ UNCHANGED row
    BY <1>1 DEF Arrive
  <2>2. CASE \E p \in learned \cup {Wrong} :
               /\ op' = [op EXCEPT ![r] = "login"]
               /\ cred' = [cred EXCEPT ![r] = Password(p)]
               /\ UNCHANGED barred
    BY <2>1, <2>2 DEF To
  <2>3. CASE \E o \in {"logout", "view"}, c \in Bearer :
               /\ op' = [op EXCEPT ![r] = o]
               /\ cred' = [cred EXCEPT ![r] = c]
               /\ barred' = [barred EXCEPT ![r] = c \in {Session(t) : t \in ended}]
    <3>1. PICK o \in {"logout", "view"}, c \in Bearer :
               /\ op' = [op EXCEPT ![r] = o]
               /\ cred' = [cred EXCEPT ![r] = c]
               /\ barred' = [barred EXCEPT ![r] = c \in {Session(t) : t \in ended}]
      BY <2>3
    <3>2. c \in Credential /\ o \in {"none", "login", "logout", "view"}
      OBVIOUS
    <3>3. (c \in {Session(t) : t \in ended}) \in BOOLEAN
      OBVIOUS
    <3>4. barred' \in [Request -> BOOLEAN]
      BY <3>1, <3>3, Zenon
    <3> QED
      BY <2>1, <3>1, <3>2, <3>4 DEF To
  <2> QED
    BY <1>1, <2>2, <2>3 DEF Arrive
<1>2. CASE StoreFails(r)
  BY <1>2 DEF StoreFails, Answered, To
<1>3. CASE LookUp(r)
  BY <1>3 DEF LookUp, To
<1>4. CASE Compare(r)
  BY <1>4 DEF Compare, To
<1>5. CASE LoginRefused(r)
  BY <1>5 DEF LoginRefused, Answered, To
<1>6. CASE Mint(r)
  BY <1>6 DEF Mint, To
<1>7. CASE LoggedIn(r)
  BY <1>7 DEF LoggedIn, Answered, To
<1>8. CASE Revoke(r)
  BY <1>8 DEF Revoke, To
<1>9. CASE LoggedOut(r)
  BY <1>9 DEF LoggedOut, Answered, To
<1>10. CASE Authenticate(r)
  <2>1. Expires(r) \in Int
    BY ExpiresOf
  <2> QED
    BY <1>10, <2>1 DEF Authenticate, To
<1>11. CASE CheckExpiry(r)
  BY <1>11 DEF CheckExpiry, To
<1>12. CASE DeleteExpired(r)
  BY <1>12 DEF DeleteExpired, To
<1>13. CASE VerifyOidc(r)
  BY <1>13 DEF VerifyOidc, To
<1>14. CASE Refuse(r)
  BY <1>14 DEF Refuse, Answered, To
<1>15. CASE Served(r)
  BY <1>15 DEF Served, Answered, To
<1> QED
  BY <1>1, <1>2, <1>3, <1>4, <1>5, <1>6, <1>7, <1>8, <1>9, <1>10, <1>11, <1>12,
     <1>13, <1>14, <1>15 DEF RequestStep

(* So do the tokens that it mints, ends or hands out.                      *)
LEMMA TokenTypesKept ==
  ASSUME TokenTypes, BootTypes, NEW r \in Request, RequestStep(r),
         RequestTypes, StageInv(r), ReadInv(r)
  PROVE  TokenTypes'
<1> USE Bounds, Kinds, Values DEF TokenTypes
<1>1. CASE Arrive(r)
  BY <1>1 DEF Arrive, To, store, history
<1>2. CASE StoreFails(r)
  BY <1>2 DEF StoreFails, Answered, To, store, history
<1>3. CASE LookUp(r)
  BY <1>3 DEF LookUp, To, store, history
<1>4. CASE Compare(r)
  BY <1>4 DEF Compare, To, store, history
<1>5. CASE LoginRefused(r)
  BY <1>5 DEF LoginRefused, Answered, To, store, history
<1>6. CASE Mint(r)
  <2>1. now + SessionTTL \in Times /\ minted' \in Token /\ minted' = minted + 1
    BY <1>6 DEF Mint, BootTypes, Token
  <2>2. sessions' \in [Token -> Times] /\ due' \in [Token -> Times]
    BY <1>6, <2>1 DEF Mint
  <2>3. UNCHANGED <<known, revoked, ended>>
    BY <1>6 DEF Mint
  <2> QED
    BY <2>1, <2>2, <2>3 DEF Token
<1>7. CASE LoggedIn(r)
  <2>1. row[r] \in 1 .. minted
    BY <1>7 DEF LoggedIn, StageInv
  <2>2. known' = known \cup {row[r]}
    BY <1>7 DEF LoggedIn
  <2>3. UNCHANGED <<sessions, due, minted, revoked, ended>>
    BY <1>7 DEF LoggedIn, store, history
  <2> QED
    BY <2>1, <2>2, <2>3
<1>8. CASE Revoke(r)
  <2>1. Tokens(r) \subseteq known
    BY <1>8, TokensOf, OwnTokens DEF Revoke, ReadInv
  <2>2. sessions' \in [Token -> Times]
    BY <1>8 DEF Revoke
  <2>3. revoked' = revoked \cup Tokens(r)
    BY <1>8 DEF Revoke
  <2>4. UNCHANGED <<due, minted, known, ended>>
    BY <1>8 DEF Revoke
  <2> QED
    BY <2>1, <2>2, <2>3, <2>4
<1>9. CASE LoggedOut(r)
  <2>1. Tokens(r) \subseteq known
    BY <1>9, TokensOf, OwnTokens DEF LoggedOut, ReadInv
  <2>2. ended' = ended \cup Tokens(r) \/ UNCHANGED ended
    BY <1>9 DEF LoggedOut
  <2>3. UNCHANGED <<sessions, due, minted, known, revoked>>
    BY <1>9 DEF LoggedOut, store
  <2> QED
    BY <2>1, <2>2, <2>3
<1>10. CASE Authenticate(r)
  BY <1>10 DEF Authenticate, To, store, history
<1>11. CASE CheckExpiry(r)
  BY <1>11 DEF CheckExpiry, To, store, history
<1>12. CASE DeleteExpired(r)
  BY <1>12 DEF DeleteExpired, To, history
<1>13. CASE VerifyOidc(r)
  BY <1>13 DEF VerifyOidc, To, store, history
<1>14. CASE Refuse(r)
  <2>1. Tokens(r) \subseteq known
    BY <1>14, TokensOf, OwnTokens DEF Refuse, ReadInv, StageInv
  <2>2. ended' = ended \cup Tokens(r) \/ UNCHANGED ended
    BY <1>14 DEF Refuse
  <2>3. UNCHANGED <<sessions, due, minted, known, revoked>>
    BY <1>14 DEF Refuse, store
  <2> QED
    BY <2>1, <2>2, <2>3
<1>15. CASE Served(r)
  BY <1>15 DEF Served, Answered, To, store, history
<1> QED
  BY <1>1, <1>2, <1>3, <1>4, <1>5, <1>6, <1>7, <1>8, <1>9, <1>10, <1>11, <1>12,
     <1>13, <1>14, <1>15 DEF RequestStep

(* A row goes for a cause, and none comes back.                            *)
LEMMA TokenKept ==
  ASSUME BootTypes, TokenTypes, RequestTypes, NEW r \in Request, RequestStep(r),
         StageInv(r), ReadInv(r), NEW t \in Token, TokenInv(t)
  PROVE  TokenInv(t)'
<1> USE DEF TokenInv
<1>1. latest' = latest
  BY RequestsAside
<1>2. CASE UNCHANGED <<sessions, due, minted, revoked, ended>>
  BY <1>1, <1>2
<1>3. CASE Arrive(r)
  BY <1>2, <1>3 DEF Arrive, store, history
<1>4. CASE StoreFails(r)
  BY <1>2, <1>4 DEF StoreFails, store, history
<1>5. CASE LookUp(r)
  BY <1>2, <1>5 DEF LookUp, store, history
<1>6. CASE Compare(r)
  BY <1>2, <1>6 DEF Compare, store, history
<1>7. CASE LoginRefused(r)
  BY <1>2, <1>7 DEF LoginRefused, store, history
<1>8. CASE LoggedIn(r)
  BY <1>2, <1>8 DEF LoggedIn, store, history
<1>9. CASE Authenticate(r)
  BY <1>2, <1>9 DEF Authenticate, store, history
<1>10. CASE CheckExpiry(r)
  BY <1>2, <1>10 DEF CheckExpiry, store, history
<1>11. CASE VerifyOidc(r)
  BY <1>2, <1>11 DEF VerifyOidc, store, history
<1>12. CASE Served(r)
  BY <1>2, <1>12 DEF Served, store, history
<1>13. CASE Mint(r)
  <2>1. minted' = minted + 1 /\ minted' \in Token /\ now + SessionTTL # Absent
    BY <1>13, Values, Bounds DEF Mint, BootTypes, TokenTypes, Token
  <2>2. t # minted' => sessions'[t] = sessions[t] /\ due'[t] = due[t]
    BY <1>13 DEF Mint, TokenTypes
  <2>3. t = minted' => sessions'[t] = now + SessionTTL /\ due'[t] = now + SessionTTL
    BY <1>13, <2>1 DEF Mint, TokenTypes
  <2>4. t \in ended => t <= minted
    BY DEF TokenTypes
  <2>5. UNCHANGED <<revoked, ended>>
    BY <1>13 DEF Mint
  <2>6. CASE t = minted'
    BY <2>1, <2>3, <2>4, <2>5, <2>6, Bounds DEF TokenTypes, Token
  <2>7. CASE t # minted'
    <3>1. t <= minted' => t <= minted
      BY <2>1, <2>7, Bounds DEF TokenTypes, Token
    <3> QED
      BY <1>1, <2>2, <2>5, <2>7, <3>1
  <2> QED
    BY <2>6, <2>7
<1>14. CASE Revoke(r)
  <2>1. sessions'[t] = IF cred[r] = Session(t) THEN Absent ELSE sessions[t]
    BY <1>14 DEF Revoke
  <2>2. cred[r] = Session(t) => t \in revoked'
    BY <1>14, TokensOf DEF Revoke
  <2>3. revoked \subseteq revoked' /\ UNCHANGED <<due, minted, ended>>
    BY <1>14 DEF Revoke
  <2> QED
    BY <1>1, <2>1, <2>2, <2>3
<1>15. CASE DeleteExpired(r)
  <2>1. PICK u \in Token : cred[r] = Session(u)
    BY <1>15 DEF DeleteExpired, ReadInv
  <2>2. cred[r][2] = u /\ due[u] < latest
    BY <1>15, <2>1, Kinds DEF DeleteExpired, ReadInv
  <2>3. sessions' = [sessions EXCEPT ![u] = Absent]
    BY <1>15, <2>2 DEF DeleteExpired
  <2>4. UNCHANGED <<due, minted, revoked, ended>>
    BY <1>15 DEF DeleteExpired, history
  <2> QED
    BY <1>1, <2>2, <2>3, <2>4 DEF TokenTypes
<1>16. CASE LoggedOut(r)
  <2>1. t \in ended' => t \in ended \/ sessions[t] = Absent
    BY <1>16, TokensOf DEF LoggedOut, ReadInv
  <2>2. UNCHANGED <<sessions, due, minted, revoked>>
    BY <1>16 DEF LoggedOut, store
  <2> QED
    BY <1>1, <2>1, <2>2
<1>17. CASE Refuse(r)
  <2>1. t \in ended' => t \in ended \/ sessions[t] = Absent
    BY <1>17, TokensOf DEF Refuse, ReadInv
  <2>2. UNCHANGED <<sessions, due, minted, revoked>>
    BY <1>17 DEF Refuse, store
  <2> QED
    BY <1>1, <2>1, <2>2
<1> QED
  BY <1>3, <1>4, <1>5, <1>6, <1>7, <1>13, <1>8, <1>14, <1>16, <1>9, <1>10, <1>15,
     <1>11, <1>17, <1>12 DEF RequestStep

(* Each request stays within the stages of its kind.                       *)
LEMMA StageKept ==
  ASSUME BootTypes, TokenTypes, RequestTypes, NEW r \in Request, RequestStep(r),
         NEW q \in Request, StageInv(q), StageInv(r), TokenTypes'
  PROVE  StageInv(q)'
<1>0. gate' = gate
  BY RequestsAside
<1> USE <1>0 DEF StageInv, RequestTypes
<1>1. CASE Arrive(r)
  BY <1>1 DEF Arrive, To
<1>2. CASE StoreFails(r)
  BY <1>2 DEF StoreFails, Answered, To
<1>3. CASE LookUp(r)
  BY <1>3 DEF LookUp, To
<1>4. CASE Compare(r)
  BY <1>4 DEF Compare, To
<1>5. CASE LoginRefused(r)
  BY <1>5 DEF LoginRefused, Answered, To
<1>6. CASE Mint(r)
  <2>1. minted' = minted + 1 /\ minted \in Nat
    BY <1>6, Bounds DEF Mint, TokenTypes
  <2>2. pc' = [pc EXCEPT ![r] = "answer"] /\ row' = [row EXCEPT ![r] = minted']
        /\ UNCHANGED <<op, barred>>
    BY <1>6 DEF Mint, To
  <2>3. gate = "up"
    BY <1>6 DEF Mint
  <2>4. CASE q = r
    BY <1>6, <2>1, <2>2, <2>3, <2>4 DEF Mint
  <2>5. CASE q # r
    BY <2>1, <2>2, <2>3, <2>5
  <2> QED
    BY <2>4, <2>5
<1>7. CASE LoggedIn(r)
  BY <1>7 DEF LoggedIn, Answered, To
<1>8. CASE Revoke(r)
  BY <1>8 DEF Revoke, To
<1>9. CASE LoggedOut(r)
  BY <1>9 DEF LoggedOut, Answered, To
<1>10. CASE Authenticate(r)
  BY <1>10 DEF Authenticate, To
<1>11. CASE CheckExpiry(r)
  BY <1>11 DEF CheckExpiry, To
<1>12. CASE DeleteExpired(r)
  BY <1>12 DEF DeleteExpired, To
<1>13. CASE VerifyOidc(r)
  BY <1>13 DEF VerifyOidc, To
<1>14. CASE Refuse(r)
  BY <1>14 DEF Refuse, Answered, To
<1>15. CASE Served(r)
  BY <1>15 DEF Served, Answered, To
<1> QED
  BY <1>1, <1>2, <1>3, <1>4, <1>5, <1>6, <1>7, <1>8, <1>9, <1>10, <1>11, <1>12,
     <1>13, <1>14, <1>15 DEF RequestStep

(* A request has one token at most.                                        *)
LEMMA OneToken ==
  \A r \in Request, t, u \in Token :
     cred[r] = Session(t) /\ cred[r] = Session(u) => t = u
BY Kinds

(* The row it finds is the one that was minted, and none once it ended.    *)
LEMMA ExpiresBelieved ==
  ASSUME TokenTypes, NEW r \in Request, ended \subseteq Token, ReadInv(r),
         \A t \in Token : TokenInv(t)
  PROVE  /\ barred[r] => Expires(r) = Absent
         /\ \A t \in Token : cred[r] = Session(t) /\ Expires(r) # Absent =>
                              Expires(r) = due[t]
<1>1. \A t \in Token : cred[r] = Session(t) => Expires(r) = sessions[t]
  BY ExpiresOf
<1>2. ASSUME NEW t \in Token
      PROVE  /\ sessions[t] # Absent => sessions[t] = due[t]
             /\ t \in ended => sessions[t] = Absent
  BY DEF TokenInv
<1>3. barred[r] => \E t \in ended : cred[r] = Session(t)
  BY DEF ReadInv
<1>4. ASSUME barred[r] PROVE Expires(r) = Absent
  <2>1. PICK t \in ended : cred[r] = Session(t)
    BY <1>3, <1>4
  <2>2. t \in Token
    OBVIOUS
  <2>3. Expires(r) = sessions[t]
    BY <1>1, <2>1, <2>2
  <2>4. sessions[t] = Absent
    BY <1>2, <2>2
  <2> QED
    BY <2>3, <2>4
<1>5. ASSUME NEW t \in Token, cred[r] = Session(t), Expires(r) # Absent
      PROVE  Expires(r) = due[t]
  <2>1. Expires(r) = sessions[t]
    BY <1>1, <1>5
  <2>2. sessions[t] = due[t]
    BY <1>2, <1>5, <2>1
  <2> QED
    BY <2>1, <2>2
<1> QED
  BY <1>4, <1>5

(* A request that arrives has read nothing yet.                            *)
LEMMA ArriveKept ==
  ASSUME BootTypes, TokenTypes, RequestTypes, NEW r \in Request, Arrive(r),
         NEW q \in Request, StageInv(q), ReadInv(q), UNCHANGED <<active, latest>>
  PROVE  ReadInv(q)'
<1>1. pc' = [pc EXCEPT ![r] = "start"]
      /\ UNCHANGED <<row, sessions, minted, known, due, revoked, ended>>
  BY DEF Arrive, To, store, history
<1>2. CASE \E p \in learned \cup {Wrong} :
             /\ op' = [op EXCEPT ![r] = "login"]
             /\ cred' = [cred EXCEPT ![r] = Password(p)]
             /\ UNCHANGED barred
  <2>1. PICK p \in learned \cup {Wrong} :
             /\ op' = [op EXCEPT ![r] = "login"]
             /\ cred' = [cred EXCEPT ![r] = Password(p)]
             /\ UNCHANGED barred
    BY <1>2
  <2>2. p \in Secret
    BY DEF BootTypes, Secret
  <2>3. CASE q # r
    BY <1>1, <2>1, <2>3 DEF ReadInv, RequestTypes
  <2>4. CASE q = r
    <3>1. pc'[q] = "start" /\ cred'[q] = Password(p) /\ barred'[q] = barred[q]
      BY <1>1, <2>1, <2>4 DEF RequestTypes
    <3>2. ~barred[q]
      BY <2>4 DEF StageInv, Arrive
    <3>3. \A t \in Token : cred'[q] # Session(t)
      BY <2>2, <3>1, Kinds
    <3> QED
      BY <3>1, <3>2, <3>3 DEF ReadInv
  <2> QED
    BY <2>3, <2>4
<1>3. CASE \E o \in {"logout", "view"}, c \in Bearer :
             /\ c[1] = "session" => c[2] \in known
             /\ op' = [op EXCEPT ![r] = o]
             /\ cred' = [cred EXCEPT ![r] = c]
             /\ barred' = [barred EXCEPT ![r] = c \in {Session(t) : t \in ended}]
  <2>1. PICK o \in {"logout", "view"}, c \in Bearer :
             /\ c[1] = "session" => c[2] \in known
             /\ op' = [op EXCEPT ![r] = o]
             /\ cred' = [cred EXCEPT ![r] = c]
             /\ barred' = [barred EXCEPT ![r] = c \in {Session(t) : t \in ended}]
    BY <1>3
  <2>2. CASE q # r
    BY <1>1, <2>1, <2>2 DEF ReadInv, RequestTypes
  <2>3. CASE q = r
    <3>1. pc'[q] = "start" /\ cred'[q] = c
      BY <1>1, <2>1, <2>3 DEF RequestTypes
    <3>2. barred'[q] = (c \in {Session(t) : t \in ended})
      BY <2>1, <2>3 DEF RequestTypes
    <3>3. barred'[q] => \E t \in ended : c = Session(t)
      BY <3>2
    <3>4. \A t \in Token : c = Session(t) => t \in known
      BY <2>1, Kinds
    <3> QED
      BY <1>1, <3>1, <3>3, <3>4 DEF ReadInv
  <2> QED
    BY <2>2, <2>3
<1> QED
  BY <1>2, <1>3 DEF Arrive

(* What a request read stays true of the store, whatever the others do.    *)
LEMMA ReadKept ==
  ASSUME BootTypes, TokenTypes, RequestTypes, NEW r \in Request, RequestStep(r),
         StageInv(r), ReadInv(r), \A t \in Token : TokenInv(t),
         NEW q \in Request, StageInv(q), ReadInv(q)
  PROVE  ReadInv(q)'
<1>0. UNCHANGED <<active, latest, now>>
  BY RequestsAside
<1>a. ended \subseteq Token /\ known \subseteq Token
  BY Bounds DEF TokenTypes, Token
<1> USE <1>0, <1>a, Kinds DEF ReadInv, StageInv, RequestTypes
<1>1. CASE Arrive(r)
  BY <1>1, <1>0, ArriveKept
<1>2. CASE StoreFails(r)
  BY <1>2 DEF StoreFails, Answered, To, store, history
<1>3. CASE LookUp(r)
  BY <1>3 DEF LookUp, To, store, history
<1>4. CASE Compare(r)
  BY <1>4 DEF Compare, To, store, history
<1>5. CASE LoginRefused(r)
  BY <1>5 DEF LoginRefused, Answered, To, store, history
<1>6. CASE Mint(r)
  <2>1. minted' = minted + 1 /\ minted' \in Token /\ minted' \notin known
    BY <1>6, Bounds DEF Mint, TokenTypes, Token
  <2>2. \A t \in known : sessions'[t] = sessions[t] /\ due'[t] = due[t]
    BY <1>6, <2>1 DEF Mint, TokenTypes
  <2>3. pc' = [pc EXCEPT ![r] = "answer"] /\ UNCHANGED <<op, cred, barred, known, ended>>
    BY <1>6 DEF Mint, To
  <2>4. CASE q # r
    <3>1. row'[q] = row[q]
      BY <1>6, <2>4 DEF Mint
    <3> QED
      BY <2>2, <2>3, <2>4, <3>1
  <2>5. CASE q = r
    BY <1>6, <2>2, <2>3, <2>5 DEF Mint
  <2> QED
    BY <2>4, <2>5
<1>7. CASE LoggedIn(r)
  BY <1>7 DEF LoggedIn, Answered, To, store, history
<1>8. CASE Revoke(r)
  BY <1>8 DEF Revoke, To
<1>9. CASE LoggedOut(r)
  BY <1>9 DEF LoggedOut, Answered, To, store
<1>10. CASE Authenticate(r)
  <2>1. UNCHANGED <<op, cred, barred, sessions, minted, known, due, revoked, ended>>
    BY <1>10 DEF Authenticate, store, history
  <2>2. CASE q # r
    BY <1>10, <2>1, <2>2 DEF Authenticate, To
  <2>3. CASE q = r
    <3>1. CASE cred[r] = Local /\ pc'[q] = "served"
      BY <2>1, <2>3, <3>1
    <3>2. CASE row'[q] = Expires(r) /\ pc'[q] = "expiry"
      <4>1. \A t \in Token : cred[q] = Session(t) => row'[q] = sessions[t]
        BY <2>3, <3>2, ExpiresOf
      <4>2. row'[q] # Absent => \E t \in Token : cred[q] = Session(t)
        BY <2>3, <3>2, ExpiresOf
      <4>3. (barred[q] => row'[q] = Absent)
            /\ \A t \in Token : cred[q] = Session(t) /\ row'[q] # Absent =>
                                 row'[q] = due[t]
        BY <1>a, <2>3, <3>2, ExpiresBelieved
      <4> QED
        BY <2>1, <2>3, <3>2, <4>1, <4>2, <4>3
    <3>3. CASE ~active /\ pc'[q] = "oidc"
      BY <2>1, <2>3, <3>3
    <3> QED
      BY <1>10, <2>3, <3>1, <3>2, <3>3 DEF Authenticate, To
  <2> QED
    BY <2>2, <2>3
<1>11. CASE CheckExpiry(r)
  <2>1. UNCHANGED <<op, cred, row, barred, sessions, minted, known, due, revoked, ended>>
    BY <1>11 DEF CheckExpiry, store, history
  <2>2. CASE q # r
    BY <1>11, <2>1, <2>2 DEF CheckExpiry, To
  <2>3. CASE q = r
    <3>1. CASE row[q] = Absent /\ pc'[q] = "oidc"
      BY <1>11, <2>1, <2>3, <3>1 DEF CheckExpiry
    <3>2. CASE row[q] # Absent /\ row[q] < now /\ pc'[q] = "delete"
      <4>1. \A t \in Token : cred[q] = Session(t) => due[t] < latest /\ ~barred[q]
        BY <1>11, <2>3, <3>2, Bounds DEF CheckExpiry, BootTypes
      <4> QED
        BY <1>11, <2>1, <2>3, <3>2, <4>1 DEF CheckExpiry
    <3>3. CASE row[q] # Absent /\ pc'[q] = "served"
      <4>1. ~barred[q]
        BY <1>11, <2>3, <3>3 DEF CheckExpiry
      <4> QED
        BY <2>1, <2>3, <3>3, <4>1
    <3> QED
      BY <1>11, <2>3, <3>1, <3>2, <3>3 DEF CheckExpiry, To
  <2> QED
    BY <2>2, <2>3
<1>12. CASE DeleteExpired(r)
  <2>1. PICK u \in Token : cred[r] = Session(u)
    BY <1>12 DEF DeleteExpired
  <2>2. sessions' = [sessions EXCEPT ![u] = Absent] /\ pc' = [pc EXCEPT ![r] = "oidc"]
    BY <1>12, <2>1 DEF DeleteExpired, To
  <2>3. UNCHANGED <<op, cred, row, barred, minted, known, due, revoked, ended>>
    BY <1>12 DEF DeleteExpired, history
  <2>4. \A t \in Token : sessions'[t] = sessions[t] \/ sessions'[t] = Absent
    BY <2>2 DEF TokenTypes
  <2>5. CASE q # r
    BY <2>2, <2>3, <2>4, <2>5
  <2>6. CASE q = r
    <3>1. \A t \in Token : cred[q] = Session(t) => sessions'[t] = Absent
      <4>1. \A t \in Token : cred[q] = Session(t) => t = u
        <5> SUFFICES ASSUME NEW t \in Token, cred[q] = Session(t) PROVE t = u
          OBVIOUS
        <5>1. cred[q] = Session(u)
          BY <2>1, <2>6
        <5> QED
          BY <5>1, OneToken
      <4>2. sessions'[u] = Absent
        BY <2>2 DEF TokenTypes
      <4> QED
        BY <4>1, <4>2
    <3> QED
      BY <1>12, <2>2, <2>3, <2>6, <3>1 DEF DeleteExpired
  <2> QED
    BY <2>5, <2>6
<1>13. CASE VerifyOidc(r)
  <2>1. UNCHANGED <<op, cred, row, barred, sessions, minted, known, due, revoked, ended>>
    BY <1>13 DEF VerifyOidc, store, history
  <2>2. CASE q # r
    BY <1>13, <2>1, <2>2 DEF VerifyOidc, To
  <2>3. CASE q = r
    <3>a. \E j \in Jwt : cred[q] = Oidc(j)
      BY <1>13, <2>3 DEF VerifyOidc, Accepted
    <3>1. ~barred[q]
      BY <3>a
    <3>2. pc'[q] = "served"
      BY <1>13, <2>3 DEF VerifyOidc, To
    <3> QED
      BY <1>13, <2>1, <3>1, <3>2 DEF VerifyOidc
  <2> QED
    BY <2>2, <2>3
<1>14. CASE Refuse(r)
  BY <1>14 DEF Refuse, Answered, To, store
<1>15. CASE Served(r)
  BY <1>15 DEF Served, Answered, To, store, history
<1> QED
  BY <1>1, <1>2, <1>3, <1>4, <1>5, <1>6, <1>7, <1>8, <1>9, <1>10, <1>11, <1>12,
     <1>13, <1>14, <1>15 DEF RequestStep

(* Failures are counted up to their bound.                                 *)
LEMMA FaultsKept ==
  ASSUME faults \in 0 .. MaxFaults, Next
  PROVE  faults' \in 0 .. MaxFaults
<1>1. faults' = faults \/ Fault
  <2>1. ASSUME NEW r \in Request, RequestStep(r) PROVE faults' = faults \/ Fault
    <3> USE DEF counters
    <3>1. CASE Arrive(r)
      BY <3>1 DEF Arrive
    <3>2. CASE StoreFails(r)
      BY <3>2 DEF StoreFails
    <3>3. CASE LookUp(r)
      BY <3>3 DEF LookUp
    <3>4. CASE Compare(r)
      BY <3>4 DEF Compare
    <3>5. CASE LoginRefused(r)
      BY <3>5 DEF LoginRefused
    <3>6. CASE Mint(r)
      BY <3>6 DEF Mint
    <3>7. CASE LoggedIn(r)
      BY <3>7 DEF LoggedIn
    <3>8. CASE Revoke(r)
      BY <3>8 DEF Revoke
    <3>9. CASE LoggedOut(r)
      BY <3>9 DEF LoggedOut
    <3>10. CASE Authenticate(r)
      BY <3>10 DEF Authenticate
    <3>11. CASE CheckExpiry(r)
      BY <3>11 DEF CheckExpiry
    <3>12. CASE DeleteExpired(r)
      BY <3>12 DEF DeleteExpired
    <3>13. CASE VerifyOidc(r)
      BY <3>13 DEF VerifyOidc
    <3>14. CASE Refuse(r)
      BY <3>14 DEF Refuse
    <3>15. CASE Served(r)
      BY <3>15 DEF Served
    <3> QED
      BY <2>1, <3>1, <3>2, <3>3, <3>4, <3>5, <3>6, <3>7, <3>8, <3>9, <3>10, <3>11,
         <3>12, <3>13, <3>14, <3>15 DEF RequestStep
  <2>2. ASSUME OtherStep PROVE faults' = faults \/ Fault
    <3> USE DEF counters
    <3>1. CASE Start
      BY <3>1 DEF Start, Boots
    <3>2. CASE OpenStore
      BY <3>2 DEF OpenStore
    <3>3. CASE CountUsers
      BY <3>3 DEF CountUsers
    <3>4. CASE CreateFile
      BY <3>4 DEF CreateFile
    <3>5. CASE WriteFile
      BY <3>5 DEF WriteFile
    <3>6. CASE UpsertUser
      BY <3>6 DEF UpsertUser
    <3>7. CASE Crash
      BY <3>7 DEF Crash
    <3>8. CASE OperatorReads
      BY <3>8 DEF OperatorReads
    <3>9. CASE Tick
      BY <3>9 DEF Tick
    <3>10. CASE SetBack
      BY <3>10 DEF SetBack
    <3> QED
      BY <2>2, <3>1, <3>2, <3>3, <3>4, <3>5, <3>6, <3>7, <3>8, <3>9, <3>10 DEF OtherStep
  <2> QED
    BY <2>1, <2>2, Steps
<1> QED
  BY <1>1, Bounds DEF Fault

(* The stages of the boot: what they do to the user and the file.          *)
LEMMA BootKept ==
  ASSUME BootTypes, BootInv, OtherStep
  PROVE  BootTypes' /\ BootInv'
<1> USE Bounds DEF BootTypes, BootInv, Boots, boot, store, clock, people, counters,
                   Generated, Nobody, Configured, Missing, Torn, Fault
<1>1. CASE Start
  BY <1>1 DEF Start
<1>2. CASE OpenStore
  BY <1>2 DEF OpenStore
<1>3. CASE CountUsers
  BY <1>3 DEF CountUsers
<1>4. CASE CreateFile
  BY <1>4 DEF CreateFile
<1>5. CASE WriteFile
  BY <1>5 DEF WriteFile
<1>6. CASE UpsertUser
  BY <1>6 DEF UpsertUser
<1>7. CASE Crash
  BY <1>7 DEF Crash
<1>8. CASE OperatorReads
  BY <1>8 DEF OperatorReads
<1>9. CASE Tick
  BY <1>9 DEF Tick
<1>10. CASE SetBack
  BY <1>10 DEF SetBack
<1> QED
  BY <1>1, <1>2, <1>3, <1>4, <1>5, <1>6, <1>7, <1>8, <1>9, <1>10 DEF OtherStep

(* A step that is no request keeps what is known of the tokens ...         *)
LEMMA OthersKeepTokens ==
  ASSUME BootTypes, TokenTypes, OtherStep, \A t \in Token : TokenInv(t)
  PROVE  TokenTypes' /\ \A t \in Token : TokenInv(t)'
<1>1. UNCHANGED <<sessions, minted, known, due, revoked, ended>>
  <2>1. CASE Crash
    BY <2>1 DEF Crash, store, people, history
  <2>2. CASE ~Crash
    BY <2>2, OthersAside
  <2> QED
    BY <2>1, <2>2
<1>2. TokenTypes'
  BY <1>1 DEF TokenTypes
<1>3. latest' \in Int /\ latest \in Int /\ latest' >= latest
  <2> USE Bounds DEF BootTypes
  <2>1. CASE Start
    BY <2>1 DEF Start, Boots, clock
  <2>2. CASE OpenStore
    BY <2>2 DEF OpenStore, Boots, clock
  <2>3. CASE CountUsers
    BY <2>3 DEF CountUsers, Boots, clock
  <2>4. CASE CreateFile
    BY <2>4 DEF CreateFile, Boots, clock
  <2>5. CASE WriteFile
    BY <2>5 DEF WriteFile, Boots, clock
  <2>6. CASE UpsertUser
    BY <2>6 DEF UpsertUser, Boots, clock
  <2>7. CASE Crash
    BY <2>7 DEF Crash, Boots, clock
  <2>8. CASE OperatorReads
    BY <2>8 DEF OperatorReads, Boots, clock
  <2>9. CASE Tick
    BY <2>9 DEF Tick, Boots, clock
  <2>10. CASE SetBack
    BY <2>10 DEF SetBack, Boots, clock
  <2> QED
    BY <2>1, <2>2, <2>3, <2>4, <2>5, <2>6, <2>7, <2>8, <2>9, <2>10 DEF OtherStep
<1>4. ASSUME NEW t \in Token PROVE TokenInv(t)'
  <2>1. due[t] \in Int
    BY Values DEF TokenTypes
  <2>2. TokenInv(t)
    OBVIOUS
  <2>3. due[t] < latest => due[t] < latest'
    BY <1>3, <2>1
  <2> QED
    BY <1>1, <2>2, <2>3 DEF TokenInv
<1> QED
  BY <1>2, <1>4

(* ... and of the requests: the store opens and closes when there are none.*)
LEMMA OthersKeepRequests ==
  ASSUME BootTypes, TokenTypes, RequestTypes, OtherStep,
         \A t \in Token : TokenInv(t),
         \A r \in Request : StageInv(r) /\ ReadInv(r)
  PROVE  RequestTypes' /\ \A r \in Request : StageInv(r)' /\ ReadInv(r)'
<1>1. CASE Crash
  <2>1. /\ op' = [r \in Request |-> "none"] /\ cred' = [r \in Request |-> NoCred]
        /\ pc' = [r \in Request |-> "idle"] /\ row' = [r \in Request |-> Absent]
        /\ barred' = [r \in Request |-> FALSE]
    BY <1>1 DEF Crash
  <2>2. RequestTypes'
    BY <2>1, Values DEF RequestTypes
  <2>3. ASSUME NEW r \in Request PROVE StageInv(r)' /\ ReadInv(r)'
    <3>1. op'[r] = "none" /\ cred'[r] = NoCred /\ pc'[r] = "idle" /\ ~barred'[r]
      BY <2>1
    <3>2. \A t \in Token : cred'[r] # Session(t)
      BY <3>1, Kinds
    <3> QED
      BY <3>1, <3>2 DEF StageInv, ReadInv
  <2> QED
    BY <2>2, <2>3
<1>2. CASE ~Crash
  <2>1. UNCHANGED <<op, cred, pc, row, barred, sessions, minted, known, due, revoked,
                    ended>>
    BY <1>2, OthersAside
  <2>2. RequestTypes'
    BY <2>1 DEF RequestTypes
  <2>3. gate = "up" => gate' = "up" /\ active' = active
    <3> USE DEF boot
    <3>1. CASE Start
      BY <3>1 DEF Start
    <3>2. CASE OpenStore
      BY <3>2 DEF OpenStore
    <3>3. CASE CountUsers
      BY <3>3 DEF CountUsers
    <3>4. CASE CreateFile
      BY <3>4 DEF CreateFile
    <3>5. CASE WriteFile
      BY <3>5 DEF WriteFile
    <3>6. CASE UpsertUser
      BY <3>6 DEF UpsertUser
    <3>7. CASE OperatorReads
      BY <3>7 DEF OperatorReads
    <3>8. CASE Tick
      BY <3>8 DEF Tick
    <3>9. CASE SetBack
      BY <3>9 DEF SetBack
    <3> QED
      BY <1>2, <3>1, <3>2, <3>3, <3>4, <3>5, <3>6, <3>7, <3>8, <3>9 DEF OtherStep
  <2>4. ASSUME NEW t \in Token PROVE due[t] < latest => due[t] < latest'
    <3>1. latest' \in Int /\ latest \in Int /\ latest' >= latest
      <4> USE Bounds DEF BootTypes
      <4>1. CASE Start
        BY <4>1 DEF Start, Boots, clock
      <4>2. CASE OpenStore
        BY <4>2 DEF OpenStore, Boots, clock
      <4>3. CASE CountUsers
        BY <4>3 DEF CountUsers, Boots, clock
      <4>4. CASE CreateFile
        BY <4>4 DEF CreateFile, Boots, clock
      <4>5. CASE WriteFile
        BY <4>5 DEF WriteFile, Boots, clock
      <4>6. CASE UpsertUser
        BY <4>6 DEF UpsertUser, Boots, clock
      <4>7. CASE OperatorReads
        BY <4>7 DEF OperatorReads, Boots, clock
      <4>8. CASE Tick
        BY <4>8 DEF Tick, Boots, clock
      <4>9. CASE SetBack
        BY <4>9 DEF SetBack, Boots, clock
      <4> QED
        BY <1>2, <4>1, <4>2, <4>3, <4>4, <4>5, <4>6, <4>7, <4>8, <4>9 DEF OtherStep
    <3>2. due[t] \in Int
      BY Values DEF TokenTypes
    <3> QED
      BY <3>1, <3>2
  <2>5. ASSUME NEW r \in Request PROVE StageInv(r)' /\ ReadInv(r)'
    <3>1. StageInv(r) /\ ReadInv(r)
      OBVIOUS
    <3>2. StageInv(r)'
      BY <2>1, <2>3, <3>1 DEF StageInv
    <3>3. pc[r] = "oidc" => active' = active
      BY <2>3, <3>1 DEF StageInv
    <3>4. ReadInv(r)'
      BY <2>1, <2>4, <3>1, <3>3 DEF ReadInv
    <3> QED
      BY <3>2, <3>4
  <2> QED
    BY <2>2, <2>5
<1> QED
  BY <1>1, <1>2

(* What changes the user is the end of seeding, which begins without one.  *)
LEMMA UserKept ==
  ASSUME IInv, Next
  PROVE  account # Nobody => UNCHANGED account
<1>1. CASE \E r \in Request : RequestStep(r)
  BY <1>1, RequestsAside
<1>2. CASE OtherStep
  <2> USE DEF IInv, BootInv, store
  <2>1. CASE Start
    BY <2>1 DEF Start
  <2>2. CASE OpenStore
    BY <2>2 DEF OpenStore
  <2>3. CASE CountUsers
    BY <2>3 DEF CountUsers
  <2>4. CASE CreateFile
    BY <2>4 DEF CreateFile
  <2>5. CASE WriteFile
    BY <2>5 DEF WriteFile
  <2>6. CASE UpsertUser
    BY <2>6 DEF UpsertUser
  <2>7. CASE Crash
    BY <2>7 DEF Crash
  <2>8. CASE OperatorReads
    BY <2>8 DEF OperatorReads
  <2>9. CASE Tick
    BY <2>9 DEF Tick
  <2>10. CASE SetBack
    BY <2>10 DEF SetBack
  <2> QED
    BY <1>2, <2>1, <2>2, <2>3, <2>4, <2>5, <2>6, <2>7, <2>8, <2>9, <2>10 DEF OtherStep
<1> QED
  BY <1>1, <1>2, Steps

-----------------------------------------------------------------------------
(* Every step keeps the invariant: a request by what it read under the     *)
(* lock, the others because they leave the requests and the tokens alone.  *)
THEOREM Inductive == Spec => []IInv
<1>1. IInv /\ [Next]_vars => IInv'
  <2> SUFFICES ASSUME IInv, [Next]_vars PROVE IInv'
    OBVIOUS
  <2>0. BootTypes /\ TokenTypes /\ RequestTypes /\ faults \in 0 .. MaxFaults
    BY Types DEF IInv
  <2>1. CASE UNCHANGED vars
    <3>1. UNCHANGED <<account, sessions, file, gate, active, password, op, cred, pc, row,
                      barred, now, latest, minted, made, faults, known, learned, due,
                      revoked, ended>>
      BY <2>1 DEF vars, store, boot, request, clock, counters, people, history
    <3>2. TypeOK' /\ BootInv'
      BY <3>1 DEF IInv, TypeOK, BootInv
    <3>3. \A t \in Token : TokenInv(t)'
      BY <3>1 DEF IInv, TokenInv
    <3>4. \A r \in Request : StageInv(r)' /\ ReadInv(r)'
      BY <3>1 DEF IInv, StageInv, ReadInv
    <3> QED
      BY <3>2, <3>3, <3>4 DEF IInv
  <2>2. ASSUME NEW r \in Request, RequestStep(r) PROVE IInv'
    <3>1. BootTypes' /\ BootInv'
      BY <2>0, <2>2, RequestsAside DEF IInv, BootTypes, BootInv
    <3>2. RequestTypes' /\ TokenTypes'
      BY <2>0, <2>2, RequestTypesKept, TokenTypesKept DEF IInv
    <3>3. \A t \in Token : TokenInv(t)'
      BY <2>0, <2>2, TokenKept DEF IInv
    <3>4. ASSUME NEW q \in Request PROVE StageInv(q)' /\ ReadInv(q)'
      BY <2>0, <2>2, <3>2, StageKept, ReadKept DEF IInv
    <3>5. faults' \in 0 .. MaxFaults
      BY <2>0, <2>2, FaultsKept, Steps
    <3>6. TypeOK'
      BY <3>1, <3>2, <3>5 DEF TypeOK, BootTypes, TokenTypes, RequestTypes, Credential
    <3> QED
      BY <3>1, <3>3, <3>4, <3>6 DEF IInv
  <2>3. CASE OtherStep
    <3>1. BootTypes' /\ BootInv'
      BY <2>0, <2>3, BootKept DEF IInv
    <3>2. TokenTypes' /\ \A t \in Token : TokenInv(t)'
      BY <2>0, <2>3, OthersKeepTokens DEF IInv
    <3>3. RequestTypes' /\ \A r \in Request : StageInv(r)' /\ ReadInv(r)'
      BY <2>0, <2>3, OthersKeepRequests DEF IInv
    <3>4. faults' \in 0 .. MaxFaults
      BY <2>0, <2>3, FaultsKept, Steps
    <3>5. TypeOK'
      BY <3>1, <3>2, <3>3, <3>4 DEF TypeOK, BootTypes, TokenTypes, RequestTypes,
         Credential
    <3> QED
      BY <3>1, <3>2, <3>3, <3>5 DEF IInv
  <2> QED
    BY <2>1, <2>2, <2>3, Steps
<1> QED
  BY InitHolds, <1>1, PTL DEF Spec

(* The state of the gateway, its store and its requests is well typed.     *)
THEOREM TypeCorrect == Spec => []TypeOK
<1>1. IInv => TypeOK
  BY DEF IInv
<1> QED
  BY <1>1, Inductive, PTL

(* No request that arrives after the end of a session is served with it.   *)
THEOREM EndedSessionsStayOut == Spec => []StaysOut
<1>1. IInv => StaysOut
  BY DEF IInv, ReadInv, StaysOut
<1> QED
  BY <1>1, Inductive, PTL

(* A session ends by a logout or by the clock, and by nothing else.        *)
THEOREM SessionsEndForCause == Spec => []RefusedForCause
<1>1. IInv => RefusedForCause
  <2> SUFFICES ASSUME IInv, NEW t \in ended PROVE t \in revoked \/ due[t] < latest
    BY DEF RefusedForCause
  <2>1. TokenTypes
    BY Types DEF IInv
  <2>2. t \in Token /\ t <= minted
    BY <2>1, Bounds DEF TokenTypes, Token
  <2> QED
    BY <2>2 DEF IInv, TokenInv
<1> QED
  BY <1>1, Inductive, PTL

(* The generated password of the user can be found.                        *)
THEOREM PasswordCanBeFound == Spec => []NeverLockedOut
<1>1. IInv => NeverLockedOut
  BY DEF IInv, BootInv, NeverLockedOut
<1> QED
  BY <1>1, Inductive, PTL

(* No boot seeds the user again.                                           *)
THEOREM SeededOnlyOnce == Spec => SeededOnce
<1>1. IInv /\ [Next]_vars => [account # Nobody => UNCHANGED account]_vars
  BY UserKept
<1> QED
  BY <1>1, Inductive, PTL DEF Spec, SeededOnce
=============================================================================
