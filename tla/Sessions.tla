------------------------------ MODULE Sessions ------------------------------
(***************************************************************************)
(* Sign-in at the gateway: PasswordStore, Authenticator, login, logout and *)
(* the check before every view, in src/nix/gateway.py.                     *)
(*                                                                         *)
(* The gateway boots, opens the store, and seeds the first user when there *)
(* is none: the generated password goes to a file, then the user to the    *)
(* store.  Its threads then serve requests, and share the store's one      *)
(* connection: a step is what happens under the store's lock, or between   *)
(* two uses of it.  The process may die between any two steps, the store   *)
(* and the file survive it.  The host's clock may be set back.             *)
(*                                                                         *)
(* Left out: hashing (a stored password equals the one it was made from),  *)
(* the size and syntax of a request, users other than the first, which no  *)
(* part of the program creates.  A statement of the store that fails has   *)
(* no effect and its request no answer.  What a power failure leaves of a  *)
(* file that was not synced is not modelled.                               *)
(***************************************************************************)
EXTENDS Integers, FiniteSets

CONSTANTS
  Request,          \* the requests that may be under way at once
  MaxTokens,        \* bound: sessions minted
  MaxNow,           \* bound: the clock
  MaxFaults,        \* bound: failures, restarts and settings of the clock
  SessionTTL,       \* REBEKAH_SESSION_TTL
  Jwt,              \* credentials of the OIDC issuer
  Claims,           \* what each of them says, and whether it is genuine
  AllowedSubjects,  \* REBEKAH_OIDC_SUBJECTS; none: any subject
  RequiredScopes    \* REBEKAH_OIDC_SCOPE: at most one, none: no scope needed

Token     == 1 .. MaxTokens
Generated == 1 .. MaxFaults + 1  \* passwords: each boot generates one at most
Configured == 0                  \* the password REBEKAH_ADMIN_PASSWORD
Nobody     == -1                 \* no user in the store
Wrong      == -2                 \* a password that is nobody's
Missing    == -1                 \* no initial-admin-password
Torn       == 0                  \* created, not yet or not wholly written
Absent     == -1                 \* no row for this token

\* What a client sends, its kind first.
Password(p) == <<"password", p>>
Session(t)  == <<"session", t>>
Oidc(j)     == <<"oidc", j>>
Local       == <<"local", 0>>     \* REBEKAH_GATEWAY_TOKEN
NoCred      == <<"none", 0>>
Secret      == {Configured, Wrong} \cup Generated
Bearer      == {Local} \cup {Oidc(j) : j \in Jwt} \cup {Session(t) : t \in Token}

ASSUME SessionsAssumption ==
  /\ MaxTokens \in Nat /\ MaxNow \in Nat /\ MaxFaults \in Nat
  /\ SessionTTL \in Nat
  /\ Claims \in [Jwt -> [genuine : BOOLEAN, exp : Nat, sub : STRING,
                         scopes : SUBSET STRING]]
  /\ AllowedSubjects \subseteq STRING /\ RequiredScopes \subseteq STRING

VARIABLES
  account,   \* the store: the password of the one user
  sessions,  \* the store: when each token expires
  file,      \* initial-admin-password
  gate,      \* where the gateway is in its boot; "up": it serves
  active,    \* passwords is not None
  password,  \* pw in _seed_admin, or the configured one
  op,        \* what each request asks
  cred,      \* its credential, or for a login its password
  pc,        \* where the thread that serves it is
  row,       \* what that thread last read from the store, or the token minted
  now,       \* the host's clock, in seconds
  minted,    \* how many tokens there are
  made,      \* how many passwords were generated
  known,     \* tokens that reached a client
  learned,   \* passwords the operator knows
  faults,
  \* History
  due,       \* what a session was minted with
  revoked,   \* tokens whose logout reached the store
  ended,     \* tokens an open store refused, or whose logout it answered
  barred,    \* for each request: its token had ended when it arrived
  latest     \* the latest time the clock has shown

store    == <<account, sessions>>
boot     == <<gate, active, password>>
request  == <<op, cred, pc, row, barred>>
counters == <<minted, made, faults>>
clock    == <<now, latest>>
people   == <<known, learned>>
history  == <<due, revoked, ended>>
vars == <<store, file, boot, request, clock, counters, people, history>>

Times == -1 .. MaxNow + SessionTTL

TypeOK ==
  /\ account \in {Nobody, Configured} \cup Generated
  /\ sessions \in [Token -> Times] /\ due \in [Token -> Times]
  /\ file \in {Missing, Torn} \cup Generated
  /\ gate \in {"down", "open", "count", "create", "write", "upsert", "up"}
  /\ active \in BOOLEAN
  /\ password \in {Configured} \cup Generated
  /\ op \in [Request -> {"none", "login", "logout", "view"}]
  /\ cred \in [Request -> {NoCred} \cup Bearer \cup {Password(p) : p \in Secret}]
  /\ pc \in [Request -> {"idle", "start", "compare", "mint", "answer",
                         "expiry", "delete", "oidc", "served"}]
  /\ row \in [Request -> Int]
  /\ barred \in [Request -> BOOLEAN]
  /\ now \in 0 .. MaxNow /\ latest \in now .. MaxNow
  /\ minted \in 0 .. MaxTokens /\ made \in 0 .. MaxFaults + 1
  /\ faults \in 0 .. MaxFaults
  /\ known \subseteq 1 .. minted /\ revoked \subseteq 1 .. minted
  /\ ended \subseteq known
  /\ learned \subseteq {Configured} \cup Generated

Init ==
  /\ account = Nobody /\ sessions = [t \in Token |-> Absent]
  /\ file = Missing
  /\ gate = "down" /\ active = FALSE /\ password = Configured
  /\ op = [r \in Request |-> "none"] /\ cred = [r \in Request |-> NoCred]
  /\ pc = [r \in Request |-> "idle"] /\ row = [r \in Request |-> Absent]
  /\ barred = [r \in Request |-> FALSE]
  /\ now = 0 /\ latest = 0
  /\ minted = 0 /\ made = 0 /\ faults = 0
  /\ known = {} /\ learned = {Configured}
  /\ due = [t \in Token |-> Absent] /\ revoked = {} /\ ended = {}

Fault == faults < MaxFaults /\ faults' = faults + 1

-----------------------------------------------------------------------------
(* The boot: main, then Authenticator.                                     *)

Boots == UNCHANGED <<request, clock, minted, people, history>>

Start ==
  /\ gate = "down"
  /\ gate' = "open" /\ password' = Configured
  /\ UNCHANGED <<store, file, active, made, faults>> /\ Boots

\* Without the store, password login is unavailable and the rest goes on.
OpenStore ==
  /\ gate = "open"
  /\ \/ gate' = "count" /\ active' = TRUE /\ UNCHANGED faults
     \/ gate' = "up" /\ active' = FALSE /\ Fault
  /\ UNCHANGED <<store, file, password, made>> /\ Boots

CountUsers ==
  /\ gate = "count"
  /\ \/ /\ account # Nobody
        /\ gate' = "up"
     \/ /\ account = Nobody
        /\ gate' \in {"create", "upsert"}  \* "upsert": a password is configured
  /\ UNCHANGED <<store, file, active, password, made, faults>> /\ Boots

\* An OSError, here or in WriteFile: nothing is seeded.
CreateFile ==
  /\ gate = "create" /\ made \in 0 .. MaxFaults
  /\ made' = made + 1
  /\ \/ gate' = "write" /\ file' = Torn /\ password' = made' /\ UNCHANGED faults
     \/ gate' = "up" /\ UNCHANGED <<file, password>> /\ Fault
  /\ UNCHANGED <<store, active>> /\ Boots

\* Fault: seeding goes on after a failed write.
WriteFileOrNot ==
  /\ gate = "write"
  /\ gate' = "upsert"
  /\ \/ file' = password /\ UNCHANGED faults
     \/ UNCHANGED file /\ Fault
  /\ UNCHANGED <<store, active, password, made>> /\ Boots

WriteFile ==
  /\ gate = "write"
  /\ \/ gate' = "upsert" /\ file' = password /\ UNCHANGED faults
     \/ gate' = "up" /\ file' \in {Torn, password} /\ Fault
  /\ UNCHANGED <<store, active, password, made>> /\ Boots

UpsertUser ==
  /\ gate = "upsert"
  /\ gate' = "up"
  /\ \/ account' = password /\ UNCHANGED <<active, faults>>
     \/ active' = FALSE /\ UNCHANGED account /\ Fault
  /\ UNCHANGED <<sessions, file, password, made>> /\ Boots

\* The end of the process, and of the requests it was serving.
Crash ==
  /\ gate # "down" /\ Fault
  /\ gate' = "down" /\ active' = FALSE
  /\ op' = [r \in Request |-> "none"] /\ cred' = [r \in Request |-> NoCred]
  /\ pc' = [r \in Request |-> "idle"] /\ row' = [r \in Request |-> Absent]
  /\ barred' = [r \in Request |-> FALSE]
  /\ UNCHANGED <<store, file, password, clock, minted, made, people, history>>

-----------------------------------------------------------------------------
(* The requests.                                                           *)

Serves == UNCHANGED <<file, boot, clock, made, learned>>

To(r, step) == pc' = [pc EXCEPT ![r] = step]

\* What r keeps of a request, once it has its answer: nothing.
Answered(r) ==
  /\ op' = [op EXCEPT ![r] = "none"] /\ cred' = [cred EXCEPT ![r] = NoCred]
  /\ To(r, "idle") /\ row' = [row EXCEPT ![r] = Absent]
  /\ barred' = [barred EXCEPT ![r] = FALSE]

\* The session token that r came with, if it is one.
Tokens(r) == {t \in Token : cred[r] = Session(t)}

\* expires in the row of that token.
Expires(r) == IF Tokens(r) = {} THEN Absent ELSE sessions[cred[r][2]]

Arrive(r) ==
  /\ gate = "up" /\ pc[r] = "idle"
  /\ \/ \E p \in learned \cup {Wrong} :
          /\ minted + Cardinality({q \in Request : op[q] = "login"}) < MaxTokens
          /\ op' = [op EXCEPT ![r] = "login"]
          /\ cred' = [cred EXCEPT ![r] = Password(p)]
          /\ UNCHANGED barred
     \/ \E o \in {"logout", "view"}, c \in Bearer :
          /\ c[1] = "session" => c[2] \in known
          /\ op' = [op EXCEPT ![r] = o]
          /\ cred' = [cred EXCEPT ![r] = c]
          /\ barred' = [barred EXCEPT ![r] = c \in {Session(t) : t \in ended}]
  /\ To(r, "start")
  /\ UNCHANGED <<row, store, minted, faults, known, history>> /\ Serves

\* A statement of the store raises: the connection ends without an answer.
StoreFails(r) ==
  /\ active /\ Fault
  /\ \/ pc[r] \in {"mint", "delete"}
     \/ pc[r] = "start" /\ ~(op[r] = "view" /\ cred[r] = Local)
  /\ Answered(r)
  /\ UNCHANGED <<store, minted, known, history>> /\ Serves

\* PasswordStore.verify: the row is read under the lock ...
LookUp(r) ==
  /\ op[r] = "login" /\ pc[r] = "start" /\ active
  /\ row' = [row EXCEPT ![r] = account] /\ To(r, "compare")
  /\ UNCHANGED <<op, cred, barred, store, minted, faults, known, history>>
  /\ Serves

\* ... and compared after it, while the other threads go on.
Compare(r) ==
  /\ pc[r] = "compare" /\ cred[r] = Password(row[r])
  /\ To(r, "mint")
  /\ UNCHANGED <<op, cred, row, barred, store, minted, faults, known, history>>
  /\ Serves

LoginRefused(r) ==
  /\ op[r] = "login"
  /\ \/ pc[r] = "start" /\ ~active
     \/ pc[r] = "compare" /\ cred[r] # Password(row[r])
  /\ Answered(r)
  /\ UNCHANGED <<store, minted, faults, known, history>> /\ Serves

\* create_session: the token is committed before the client has it.
Mint(r) ==
  /\ pc[r] = "mint" /\ minted < MaxTokens  \* so there is one: Arrive
  /\ minted' = minted + 1
  /\ sessions' = [sessions EXCEPT ![minted'] = now + SessionTTL]
  /\ due' = [due EXCEPT ![minted'] = now + SessionTTL]
  /\ row' = [row EXCEPT ![r] = minted'] /\ To(r, "answer")
  /\ UNCHANGED <<op, cred, barred, account, faults, known, revoked, ended>>
  /\ Serves

LoggedIn(r) ==
  /\ op[r] = "login" /\ pc[r] = "answer"
  /\ known' = known \cup {row[r]}
  /\ Answered(r)
  /\ UNCHANGED <<store, minted, faults, history>> /\ Serves

\* revoke, by whatever bearer credential came; only tokens have a row.
Revoke(r) ==
  /\ op[r] = "logout" /\ pc[r] = "start" /\ active
  /\ sessions' = [t \in Token |-> IF cred[r] = Session(t) THEN Absent ELSE sessions[t]]
  /\ revoked' = revoked \cup Tokens(r)
  /\ To(r, "answer")
  /\ UNCHANGED <<op, cred, row, barred, account, minted, faults, known, due, ended>>
  /\ Serves

\* The answer is "ok" without a store as well, when nothing was revoked.
LoggedOut(r) ==
  /\ op[r] = "logout"
  /\ \/ /\ pc[r] = "answer"
        /\ ended' = ended \cup Tokens(r)
     \/ /\ pc[r] = "start" /\ ~active
        /\ UNCHANGED ended
  /\ Answered(r)
  /\ UNCHANGED <<store, minted, faults, known, due, revoked>> /\ Serves

\* Authenticator.principal: the local token, else what the store says.
Authenticate(r) ==
  /\ op[r] = "view" /\ pc[r] = "start"
  /\ \/ cred[r] = Local /\ To(r, "served") /\ UNCHANGED row
     \/ /\ cred[r] # Local /\ active
        /\ row' = [row EXCEPT ![r] = Expires(r)] /\ To(r, "expiry")
     \/ cred[r] # Local /\ ~active /\ To(r, "oidc") /\ UNCHANGED row
  /\ UNCHANGED <<op, cred, barred, store, minted, faults, known, history>>
  /\ Serves

\* Fault: expired in the last second already.
CheckExpiryEarly(r) ==
  /\ pc[r] = "expiry"
  /\ \/ row[r] = Absent /\ To(r, "oidc")
     \/ row[r] # Absent /\ row[r] <= now /\ To(r, "delete")
     \/ row[r] # Absent /\ row[r] > now /\ To(r, "served")
  /\ UNCHANGED <<op, cred, row, barred, store, minted, faults, known, history>>
  /\ Serves

\* Fault: an expired row is left where it is.
CheckExpiryOnly(r) ==
  /\ pc[r] = "expiry"
  /\ \/ (row[r] = Absent \/ row[r] < now) /\ To(r, "oidc")
     \/ row[r] # Absent /\ row[r] >= now /\ To(r, "served")
  /\ UNCHANGED <<op, cred, row, barred, store, minted, faults, known, history>>
  /\ Serves

\* The row is looked at after the lock is given back.
CheckExpiry(r) ==
  /\ pc[r] = "expiry"
  /\ \/ row[r] = Absent /\ To(r, "oidc")
     \/ row[r] # Absent /\ row[r] < now /\ To(r, "delete")
     \/ row[r] # Absent /\ row[r] >= now /\ To(r, "served")
  /\ UNCHANGED <<op, cred, row, barred, store, minted, faults, known, history>>
  /\ Serves

DeleteExpired(r) ==
  /\ pc[r] = "delete"
  /\ sessions' = [sessions EXCEPT ![cred[r][2]] = Absent]
  /\ To(r, "oidc")
  /\ UNCHANGED <<op, cred, row, barred, account, minted, faults, known, history>>
  /\ Serves

\* OidcVerifier.verify, on what a credential claims.
Accepted(r) ==
  \E j \in Jwt :
    /\ cred[r] = Oidc(j)
    /\ Claims[j].genuine /\ now < Claims[j].exp
    /\ Claims[j].sub # ""
    /\ AllowedSubjects = {} \/ Claims[j].sub \in AllowedSubjects
    /\ RequiredScopes \subseteq Claims[j].scopes

VerifyOidc(r) ==
  /\ pc[r] = "oidc" /\ Accepted(r)
  /\ To(r, "served")
  /\ UNCHANGED <<op, cred, row, barred, store, minted, faults, known, history>>
  /\ Serves

\* 401; a key that cannot be fetched refuses as well.
Refuse(r) ==
  /\ pc[r] = "oidc"
  /\ \/ ~Accepted(r) /\ UNCHANGED faults
     \/ Accepted(r) /\ Fault
  /\ ended' = IF active THEN ended \cup Tokens(r) ELSE ended
  /\ Answered(r)
  /\ UNCHANGED <<store, minted, known, due, revoked>> /\ Serves

Served(r) ==
  /\ pc[r] = "served"
  /\ Answered(r)
  /\ UNCHANGED <<store, minted, faults, known, history>> /\ Serves

-----------------------------------------------------------------------------
(* The operator and the host.                                              *)

\* README.md: cat the file && rm it, once the gateway is up.
OperatorReads ==
  /\ gate = "up" /\ file # Missing
  /\ learned' = learned \cup ({file} \cap Generated)
  /\ file' = Missing
  /\ UNCHANGED <<store, boot, request, clock, counters, known, history>>

Tick ==
  /\ now < MaxNow
  /\ now' = now + 1 /\ latest' = IF now' > latest THEN now' ELSE latest
  /\ UNCHANGED <<store, file, boot, request, counters, people, history>>

SetBack ==
  /\ Fault
  /\ now' \in 0 .. now - 1 /\ UNCHANGED latest
  /\ UNCHANGED <<store, file, boot, request, minted, made, people, history>>

-----------------------------------------------------------------------------
Boot == Start \/ OpenStore \/ CountUsers \/ CreateFile \/ WriteFile \/ UpsertUser

Login(r)  == LookUp(r) \/ Compare(r) \/ LoginRefused(r) \/ Mint(r) \/ LoggedIn(r)
Logout(r) == Revoke(r) \/ LoggedOut(r)
View(r)   == \/ Authenticate(r) \/ CheckExpiry(r) \/ DeleteExpired(r)
             \/ VerifyOidc(r) \/ Refuse(r) \/ Served(r)

Next ==
  \/ Boot
  \/ \E r \in Request : \/ Arrive(r) \/ StoreFails(r)
                        \/ Login(r) \/ Logout(r) \/ View(r)
  \/ Crash
  \/ OperatorReads \/ Tick \/ SetBack

Spec == Init /\ [][Next]_vars

-----------------------------------------------------------------------------
(* What sign-in promises.                                                  *)

(* A session that ended stays ended: once an open store has answered a     *)
(* logout, or refused the token as expired, no request that arrives later  *)
(* is served with it, whatever is in flight, however often the gateway     *)
(* restarts and if the clock is set back (principal_for_token deletes the  *)
(* row it finds expired).                                                  *)
StaysOut == \A r \in Request : barred[r] => pc[r] # "served"

(* A client that was given a token is signed out only by a logout or by    *)
(* the clock: no crash, failed statement or other request loses a session  *)
(* whose token was handed out (create_session commits first).              *)
RefusedForCause == \A t \in ended : t \in revoked \/ due[t] < latest

(* The first user's generated password can always be found: it is in the   *)
(* file, or the operator has read it, wherever seeding was interrupted     *)
(* (_seed_admin writes the file before it stores the user).                *)
NeverLockedOut == account \in Generated => account = file \/ account \in learned

(* The user is seeded once: no later boot replaces its password, whatever  *)
(* the file or the configuration says by then.                             *)
SeededOnce == [][account # Nobody => UNCHANGED account]_vars
=============================================================================
