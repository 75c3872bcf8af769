------------------------- MODULE AdminSessionProofs -------------------------
(***************************************************************************)
(* The administrator's sessions: a refresh token is rotated at most once,  *)
(* a revoked one gives nothing any more, and a change of the password ends *)
(* every login made with the old one.                                      *)
(***************************************************************************)
EXTENDS AdminControlProofs

(* Sessions *)

Quiet == {"idle", "me", "get", "change", "update", "settings", "upload", "copy", "persist", "save"}

\* The request works on a refresh token.
Uses(r) == r.pc \in {"token", "rotate", "reload", "logout"} \/ (r.pc = "issue" /\ r.op = "refresh")

Owned ==
  /\ \A c \in Consoles : console[c].refresh <= Len(tokens)
  /\ \A s \in Slots : Uses(req[s]) => req[s].token \in 1..Len(tokens)

\* The request has read token i and may get a pair for it.
Holds(r, i) == r.op = "refresh" /\ r.pc \in {"rotate", "reload", "issue"} /\ r.token = i

\* Why a token gives one pair: the one request that holds it revokes it before it gets its
\* pair, and a token that is revoked is held by no other.
Once(i) ==
  /\ used[i] <= 1
  /\ used[i] = 1 => tokens[i].revoked /\ \A s \in Slots : ~Holds(req[s], i)
  /\ \A s, t \in Slots : Holds(req[s], i) /\ Holds(req[t], i) => s = t
  /\ \A s \in Slots : Holds(req[s], i) /\ req[s].pc # "rotate" => tokens[i].revoked

RotateInv == \A i \in 1..Len(tokens) : i \in loose \/ Once(i)

\* A token that a logout or a password change killed is revoked, and a request that began
\* afterwards cannot get past the look at it.
DeadInv ==
  /\ \A i \in dead : i \in 1..Len(tokens) /\ tokens[i].revoked
  /\ \A s \in Slots :
       /\ req[s].pc = "token" => req[s].known \subseteq dead
       /\ Holds(req[s], req[s].token) => req[s].token \notin req[s].known
       /\ req[s].pc \in {"clear", "revoke"} => req[s].known \subseteq 1..Len(tokens)

\* A login with password p read version v: no later version, and with the version of the
\* row its password.
Current(v, p) == p = NoRow \/ (v <= user.version /\ (v = user.version => p = user.pw))

LoginInv ==
  /\ \A c \in Consoles :
       console[c].access # NoRow =>
         user \in Users /\ Current(console[c].access.version, console[c].access.pw)
  /\ \A s \in Slots :
       /\ req[s].pc = "auth" => Current(req[s].claims.version, req[s].claims.pw)
       /\ req[s].pc = "issue" => Current(req[s].row.version, req[s].pw)
       /\ req[s].pc = "find" => req[s].op = "login"
       /\ req[s].pc \in {"token", "rotate", "reload"} => req[s].pw = NoRow

SessionInv == Owned /\ RotateInv /\ DeadInv /\ LoginInv

Same(r, q) == /\ r.op = q.op /\ r.pc = q.pc /\ r.token = q.token /\ r.known = q.known
              /\ r.claims = q.claims /\ r.row = q.row /\ r.pw = q.pw

\* A step that leaves the tokens, the administrator and what the consoles hold alone, and
\* moves requests only to statements that use none of them.
LEMMA NeutralStep ==
  ASSUME SessionInv, UNCHANGED <<user, tokens, used, loose, dead>>,
         \A c \in Consoles : /\ console'[c].access = console[c].access
                             /\ console'[c].refresh = console[c].refresh,
         \A t \in Slots : req'[t].pc \in Quiet \/ Same(req'[t], req[t])
  PROVE  SessionInv'
<1>1. Owned'
  BY DEF SessionInv, Owned, Uses, Same, Quiet
<1>2. RotateInv'
  <2> SUFFICES ASSUME NEW i \in 1..Len(tokens), Once(i) PROVE Once(i)'
    BY DEF SessionInv, RotateInv
  <2>1. \A t \in Slots : Holds(req'[t], i) => Holds(req[t], i) /\ req'[t].pc = req[t].pc
    BY DEF Holds, Same, Quiet
  <2> QED BY <2>1 DEF Once
<1>3. DeadInv'
  BY Zenon DEF SessionInv, DeadInv, Holds, Same, Quiet
<1>4. LoginInv'
  BY DEF SessionInv, LoginInv, Current, Same, Quiet
<1> QED BY <1>1, <1>2, <1>3, <1>4 DEF SessionInv

\* A request that ends.
LEMMA EndSession ==
  ASSUME Types, SessionInv, NEW s \in Slots, SetReq(s, Idle),
         UNCHANGED <<user, tokens, used, loose, dead, console>>
  PROVE  SessionInv'
<1>1. \A t \in Slots : req'[t] = IF t = s THEN Idle ELSE req[t]
  BY IdleTyped, Slotwise
<1>2. \A t \in Slots : req'[t].pc \in Quiet \/ Same(req'[t], req[t])
  BY <1>1 DEF Idle, Quiet, Same
<1> QED BY <1>2, NeutralStep

\* A request that is admitted changes no row and no console.
LEMMA AdmitSession ==
  ASSUME Types, SessionInv, NEW s \in Slots, NEW r \in Requests, Admit(s, r),
         Uses(r) => r.token \in 1..Len(tokens) /\ r.pc \in {"token", "logout"},
         r.pc \in Quiet \cup {"find", "token", "logout", "auth"},
         r.pc = "find" => r.op = "login",
         r.pc = "token" => r.known \subseteq dead /\ r.pw = NoRow,
         r.pc = "auth" => Current(r.claims.version, r.claims.pw)
  PROVE  SessionInv'
<1>1. /\ \A t \in Slots : req'[t] = IF t = s THEN r ELSE req[t]
      /\ UNCHANGED <<user, tokens, used, loose, dead, console>>
  BY Slotwise DEF Admit, rows, memory, clients, history
<1>2. Owned'
  BY <1>1 DEF SessionInv, Owned
<1>3. RotateInv'
  <2> SUFFICES ASSUME NEW i \in 1..Len(tokens), Once(i) PROVE Once(i)'
    BY <1>1 DEF SessionInv, RotateInv
  <2>1. \A t \in Slots : Holds(req'[t], i) => Holds(req[t], i) /\ req'[t].pc = req[t].pc
    BY <1>1 DEF Holds, Quiet
  <2> QED BY <1>1, <2>1 DEF Once
<1>4. DeadInv'
  BY Zenon, <1>1 DEF SessionInv, DeadInv, Holds, Quiet
<1>5. LoginInv'
  BY <1>1 DEF SessionInv, LoginInv, Current, Quiet
<1> QED BY <1>2, <1>3, <1>4, <1>5 DEF SessionInv

\* Every request that a console may send.
LEMMA NewRequestSession ==
  ASSUME Types, SessionInv, NEW s \in Slots, Login(s) \/ WithRefresh(s) \/ WithAccess(s)
  PROVE  SessionInv'
<1>1. CASE Login(s)
  <2>1. PICK c \in Consoles, pw \in Passwords :
          Admit(s, [Idle EXCEPT !.op = "login", !.pc = "find", !.console = c, !.pw = pw])
    BY Zenon, <1>1 DEF Login
  <2> DEFINE r == [Idle EXCEPT !.op = "login", !.pc = "find", !.console = c, !.pw = pw]
  <2>2. r \in Requests /\ r.pc = "find" /\ r.op = "login"
    BY Zenon, LoginTyped DEF Idle
  <2> HIDE DEF r
  <2> QED BY Zenon, <2>1, <2>2, AdmitSession DEF r, Uses, Quiet
<1>2. CASE WithRefresh(s)
  <2>1. PICK c \in Consoles :
          /\ console[c].refresh # 0
          /\ LET r == [Idle EXCEPT !.console = c, !.token = console[c].refresh, !.known = dead]
             IN \/ Admit(s, [r EXCEPT !.op = "refresh", !.pc = "token"])
                \/ Admit(s, [r EXCEPT !.op = "logout", !.pc = "logout"])
    BY Zenon, <1>2 DEF WithRefresh
  <2>2. console[c].refresh \in 1..Len(tokens) /\ console[c].refresh \in Nat /\ dead \in SUBSET Nat
    <3>1. console[c].refresh \in Nat /\ dead \in SUBSET Nat /\ Len(tokens) \in Nat
      BY DEF Types, Held
    <3>2. console[c].refresh <= Len(tokens)
      BY DEF SessionInv, Owned
    <3> QED BY <2>1, <3>1, <3>2
  <2> DEFINE r(op, pc) == [[Idle EXCEPT !.console = c, !.token = console[c].refresh, !.known = dead]
                             EXCEPT !.op = op, !.pc = pc]
  <2>3. r("refresh", "token") \in Requests /\ r("logout", "logout") \in Requests
    BY Zenon, <2>2, WithRefreshTyped
  <2>4. \A op \in {"refresh", "logout"} : \A pc \in {"token", "logout"} :
          /\ r(op, pc).pc = pc /\ r(op, pc).token = console[c].refresh /\ r(op, pc).known = dead
          /\ r(op, pc).pw = NoRow
    BY DEF Idle
  <2>5. Admit(s, r("refresh", "token")) \/ Admit(s, r("logout", "logout"))
    BY <2>1
  <2> HIDE DEF r
  <2>6. CASE Admit(s, r("refresh", "token"))
    BY Zenon, <2>2, <2>3, <2>4, <2>6, AdmitSession
  <2>7. CASE Admit(s, r("logout", "logout"))
    BY <2>2, <2>3, <2>4, <2>7, AdmitSession
  <2> QED BY <2>5, <2>6, <2>7
<1>3. CASE WithAccess(s)
  <2>1. PICK c \in Consoles :
          /\ console[c].access # NoRow
          /\ LET r == Behind(c, console[c].access)
             IN \/ Admit(s, [r EXCEPT !.op = "me"])
                \/ \E new \in Passwords : Admit(s, [r EXCEPT !.op = "change", !.pw = user.pw, !.new = new])
                \/ Admit(s, [r EXCEPT !.op = "get"])
                \/ \E u \in Packages : Admit(s, [r EXCEPT !.op = "upload", !.body = u])
                \/ /\ console[c].form # NoRow
                   /\ \E k \in Keys : \E v \in Offered[k] :
                        Admit(s, [r EXCEPT !.op = "settings", !.body = [console[c].form EXCEPT ![k] = v]])
    BY Zenon, <1>3 DEF WithAccess, Behind
  <2> DEFINE claims == console[c].access
             r == Behind(c, claims)
  <2>2. /\ claims \in Claims /\ console[c].form \in Settings \cup {NoRow}
        /\ Current(claims.version, claims.pw)
    BY Zenon, <2>1 DEF Types, Held, SessionInv, LoginInv
  <2>3. ASSUME NEW q \in Requests, q.pc = "auth", q.claims = claims, Admit(s, q) PROVE SessionInv'
    BY <2>2, <2>3, AdmitSession DEF Uses
  <2> HIDE DEF r, claims
  <2>4. CASE Admit(s, [r EXCEPT !.op = "me"]) \/ Admit(s, [r EXCEPT !.op = "get"])
    <3>1. ASSUME NEW op \in {"me", "get"}, Admit(s, [r EXCEPT !.op = op]) PROVE SessionInv'
      <4> DEFINE q == [r EXCEPT !.op = op]
      <4>1. q \in Requests
        BY Zenon, <2>2, WithAccessTyped DEF r
      <4>2. q.pc = "auth" /\ q.claims = claims
        BY DEF r, Behind, Idle
      <4> HIDE DEF q
      <4> QED BY Zenon, <2>3, <3>1, <4>1, <4>2 DEF q
    <3> QED BY <2>4, <3>1
  <2>5. ASSUME NEW new \in Passwords, Admit(s, [r EXCEPT !.op = "change", !.pw = user.pw, !.new = new])
        PROVE  SessionInv'
    <3>1. user.pw \in Passwords
      BY <2>5 DEF Admit, Types, Users
    <3> DEFINE q == [r EXCEPT !.op = "change", !.pw = user.pw, !.new = new]
    <3>3. q \in Requests
      BY Zenon, <2>2, <3>1, WithAccessTyped DEF r
    <3>4. q.pc = "auth" /\ q.claims = claims
      BY DEF r, Behind, Idle
    <3> HIDE DEF q
    <3> QED BY Zenon, <2>3, <2>5, <3>3, <3>4 DEF q
  <2>6. ASSUME NEW u \in Packages, Admit(s, [r EXCEPT !.op = "upload", !.body = u])
        PROVE  SessionInv'
    <3> DEFINE q == [r EXCEPT !.op = "upload", !.body = u]
    <3>3. q \in Requests
      BY Zenon, <2>2, WithAccessTyped DEF r
    <3>4. q.pc = "auth" /\ q.claims = claims
      BY DEF r, Behind, Idle
    <3> HIDE DEF q
    <3> QED BY Zenon, <2>3, <2>6, <3>3, <3>4 DEF q
  <2>7. ASSUME NEW k \in Keys, NEW v \in Offered[k], console[c].form # NoRow,
               Admit(s, [r EXCEPT !.op = "settings", !.body = [console[c].form EXCEPT ![k] = v]])
        PROVE  SessionInv'
    <3>1. v \in Values
      BY DEF Values
    <3>2. [console[c].form EXCEPT ![k] = v] \in Settings
      BY <2>2, <2>7, <3>1 DEF Settings
    <3> DEFINE q == [r EXCEPT !.op = "settings", !.body = [console[c].form EXCEPT ![k] = v]]
    <3>3. q \in Requests
      BY Zenon, <2>2, <3>2, WithAccessTyped DEF r
    <3>4. q.pc = "auth" /\ q.claims = claims
      BY DEF r, Behind, Idle
    <3> HIDE DEF q
    <3> QED BY Zenon, <2>3, <2>7, <3>3, <3>4 DEF q
  <2> QED BY Zenon, <2>1, <2>4, <2>5, <2>6, <2>7 DEF r, claims
<1> QED BY <1>1, <1>2, <1>3

\* Reading the row of the administrator, at login or for a refresh.
LEMMA RowSession ==
  ASSUME Types, SessionInv, NEW s \in Slots, CheckPassword(s) \/ GetAdminUserByID(s)
  PROVE  SessionInv'
<1> DEFINE r == req[s]
           q == [r EXCEPT !.pc = "issue", !.row = user]
<1>1. r.pc \in {"find", "reload"} /\ user \in Users /\ r \in Requests /\ user # NoRow
  <2>1. r.pc \in {"find", "reload"}
    BY Zenon DEF CheckPassword, GetAdminUserByID, At
  <2>2. user \in Users /\ r \in Requests
    BY <2>1, BusyUp
  <2> QED BY Zenon, <2>1, <2>2, RowAssumption
<1>2. UNCHANGED <<user, tokens, used, loose, dead, console>>
  BY DEF CheckPassword, GetAdminUserByID, rows, memory, clients, bounds, history
<1>3. CASE SetReq(s, Idle)
  BY <1>2, <1>3, EndSession
<1>4. CASE SetReq(s, q) /\ (r.pc = "find" => r.pw = user.pw)
  <2>1. /\ q \in Requests /\ q.row = user /\ q.pc = "issue" /\ q.op = r.op /\ q.pw = r.pw
        /\ q.token = r.token /\ q.known = r.known
    BY Zenon, <1>1, RowTyped
  <2> HIDE DEF q
  <2>2. \A t \in Slots : req'[t] = IF t = s THEN q ELSE req[t]
    BY <1>4, <2>1, Slotwise
  <2>3. r.op = "refresh" => r.pc = "reload"
    BY <1>1 DEF SessionInv, LoginInv
  <2>4. Owned'
    BY Zenon, <1>2, <2>1, <2>2, <2>3 DEF SessionInv, Owned, Uses
  <2>5. RotateInv'
    <3> SUFFICES ASSUME NEW i \in 1..Len(tokens), Once(i) PROVE Once(i)'
      BY Zenon, <1>2 DEF SessionInv, RotateInv
    <3>1. \A t \in Slots : /\ Holds(req'[t], i) => Holds(req[t], i)
                           /\ req'[t].pc = "rotate" <=> req[t].pc = "rotate"
      BY Zenon, <1>1, <2>1, <2>2, <2>3 DEF Holds
    <3> QED BY Zenon, <1>2, <3>1 DEF Once
  <2>6. DeadInv'
    BY Zenon, <1>1, <1>2, <2>1, <2>2, <2>3 DEF SessionInv, DeadInv, Holds
  <2>7. Current(user.version, r.pw)
    BY <1>1, <1>4 DEF SessionInv, LoginInv, Current, Users
  <2>8. LoginInv'
    BY <1>2, <2>1, <2>2, <2>7 DEF SessionInv, LoginInv, Current
  <2> QED BY <2>4, <2>5, <2>6, <2>8 DEF SessionInv
<1> QED BY <1>1, <1>3, <1>4 DEF CheckPassword, GetAdminUserByID, End, At

\* A look at a refresh token: a holder that has not revoked it yet makes it loose.
LEMMA LookSession ==
  ASSUME Types, SessionInv, NEW s \in Slots, GetAdminRefreshToken(s)
  PROVE  SessionInv'
<1> DEFINE r == req[s]
           i == r.token
<1>1. r.pc = "token" /\ r \in Requests /\ r \in Records /\ r.op = "refresh" /\ r.pw = NoRow
      /\ r.known \subseteq dead /\ i \in 1..Len(tokens)
  <2>1. r.pc = "token"
    BY Zenon DEF GetAdminRefreshToken, At
  <2> QED BY Zenon, <2>1, BusyUp DEF Requests, Shape, SessionInv, LoginInv, DeadInv, Owned, Uses
<1>2. UNCHANGED <<user, tokens, used, dead, console>>
  BY DEF GetAdminRefreshToken, rows, memory, clients, bounds
<1>3. CASE tokens[i].revoked
  <2>1. SetReq(s, Idle) /\ UNCHANGED loose
    BY <1>3 DEF GetAdminRefreshToken, End
  <2> QED BY <1>2, <2>1, EndSession
<1>4. CASE ~tokens[i].revoked
  <2>1. PICK pc \in {"logout", "rotate"} : SetReq(s, [r EXCEPT !.pc = pc])
    BY <1>4 DEF GetAdminRefreshToken, Goto
  <2> DEFINE q == [r EXCEPT !.pc = pc]
  <2>2. /\ q \in Requests /\ q.pc = pc /\ q.op = r.op /\ q.pw = r.pw /\ q.token = r.token
        /\ q.known = r.known
    <3>1. pc \in PCs
      BY DEF PCs
    <3>2. q \in Requests
      BY <1>1, <3>1, MovedTyped
    <3>3. q.pc = pc /\ q.op = r.op /\ q.pw = r.pw /\ q.token = r.token /\ q.known = r.known
      BY <1>1, <3>1, Moved
    <3> QED BY <3>2, <3>3
  <2> HIDE DEF q
  <2>3. \A t \in Slots : req'[t] = IF t = s THEN q ELSE req[t]
    BY Zenon, <2>1, <2>2, Slotwise DEF q
  <2>4. loose' = IF \E t \in Slots \ {s} : At(t, "rotate") /\ req[t].token = i
                 THEN loose \cup {i} ELSE loose
    BY Zenon, <1>4 DEF GetAdminRefreshToken
  <2>5. Owned'
    BY <1>1, <1>2, <2>2, <2>3 DEF SessionInv, Owned, Uses
  <2>6. RotateInv'
    <3> SUFFICES ASSUME NEW j \in 1..Len(tokens), j \notin loose' PROVE Once(j)'
      BY Zenon, <1>2 DEF RotateInv
    <3>1. Once(j)
      BY Zenon, <2>4 DEF SessionInv, RotateInv
    <3>2. CASE j # i
      <4>1. \A t \in Slots : Holds(req'[t], j) => Holds(req[t], j) /\ req'[t].pc = req[t].pc
        BY Zenon, <1>1, <2>2, <2>3, <3>2 DEF Holds
      <4> QED BY Zenon, <1>2, <3>1, <4>1 DEF Once
    <3>3. CASE j = i
      <4>1. \A t \in Slots : t # s => ~Holds(req[t], i)
        BY <1>4, <2>4, <3>1, <3>3 DEF Once, Holds, At
      <4>2. \A t \in Slots : Holds(req'[t], i) => t = s /\ req'[t].pc = "rotate"
        BY Zenon, <2>2, <2>3, <4>1 DEF Holds
      <4>3. used[i] # 1
        BY Zenon, <1>4, <3>1, <3>3 DEF Once
      <4> QED BY Zenon, <1>2, <3>1, <3>3, <4>2, <4>3 DEF Once
    <3> QED BY <3>2, <3>3
  <2>7. i \notin r.known
    BY Zenon, <1>1, <1>4 DEF SessionInv, DeadInv
  <2>8. DeadInv'
    BY Zenon, <1>1, <1>2, <2>2, <2>3, <2>7 DEF SessionInv, DeadInv, Holds
  <2>9. LoginInv'
    BY <1>1, <1>2, <2>2, <2>3 DEF SessionInv, LoginInv, Current
  <2> QED BY <2>5, <2>6, <2>8, <2>9 DEF SessionInv
<1> QED BY Zenon, <1>3, <1>4

\* A step that may revoke tokens, and kill only tokens that are revoked.
LEMMA RevokingStep ==
  ASSUME SessionInv, UNCHANGED <<user, used, loose, console>>, Len(tokens') = Len(tokens),
         \A j \in 1..Len(tokens) : tokens[j].revoked => tokens'[j].revoked,
         dead \subseteq dead', \A j \in dead' : j \in 1..Len(tokens) /\ tokens'[j].revoked,
         \A t \in Slots : req'[t].pc \in Quiet \/ Same(req'[t], req[t])
  PROVE  SessionInv'
<1>1. Owned'
  BY DEF SessionInv, Owned, Uses, Same, Quiet
<1>2. RotateInv'
  <2> SUFFICES ASSUME NEW i \in 1..Len(tokens), Once(i) PROVE Once(i)'
    BY DEF SessionInv, RotateInv
  <2>1. \A t \in Slots : Holds(req'[t], i) => Holds(req[t], i) /\ req'[t].pc = req[t].pc
    BY DEF Holds, Same, Quiet
  <2> QED BY <2>1 DEF Once
<1>3. DeadInv'
  BY Zenon DEF SessionInv, DeadInv, Holds, Same, Quiet
<1>4. LoginInv'
  BY DEF SessionInv, LoginInv, Current, Same, Quiet
<1> QED BY Zenon, <1>1, <1>2, <1>3, <1>4 DEF SessionInv

\* The revocations of a logout and of a password change.
LEMMA RevokeSession ==
  ASSUME Types, SessionInv, NEW s \in Slots, RevokeAdminRefreshToken(s) \/ RevokeAfterChange(s)
  PROVE  SessionInv'
<1> DEFINE r == req[s]
<1>1. /\ r.pc \in {"logout", "revoke"} /\ SetReq(s, Idle)
      /\ UNCHANGED <<user, used, loose, console>>
  BY DEF RevokeAdminRefreshToken, RevokeAfterChange, At, End, memory, clients, bounds
<1>2. \A t \in Slots : req'[t] = IF t = s THEN Idle ELSE req[t]
  BY <1>1, IdleTyped, Slotwise
<1>3. \A t \in Slots : req'[t].pc \in Quiet \/ Same(req'[t], req[t])
  BY <1>2 DEF Idle, Quiet, Same
<1>4. /\ tokens \in Seq(Tokens) /\ \A j \in dead : j \in 1..Len(tokens) /\ tokens[j].revoked
  BY DEF Types, SessionInv, DeadInv
<1>5. CASE RevokeAdminRefreshToken(s)
  <2>1. r.token \in 1..Len(tokens) /\ r.token \in Nat
    BY <1>5 DEF RevokeAdminRefreshToken, At, SessionInv, Owned, Uses
  <2>2. tokens' = [tokens EXCEPT ![r.token].revoked = TRUE] /\ dead' = dead \cup {r.token}
    BY <1>5 DEF RevokeAdminRefreshToken
  <2> HIDE DEF r
  <2>3. /\ Len(tokens') = Len(tokens)
        /\ \A j \in 1..Len(tokens) : tokens'[j].revoked <=> (j = r.token \/ tokens[j].revoked)
    BY <1>4, <2>1, <2>2, Revoked
  <2>4. \A j \in dead' : j \in 1..Len(tokens) /\ tokens'[j].revoked
    BY <1>4, <2>1, <2>2, <2>3
  <2>5. dead \subseteq dead'
    BY <2>2
  <2> QED BY <1>1, <1>3, <2>3, <2>4, <2>5, RevokingStep
<1>6. CASE RevokeAfterChange(s)
  <2>1. r.known \subseteq 1..Len(tokens)
    BY <1>6 DEF RevokeAfterChange, At, SessionInv, DeadInv
  <2>2. dead' = dead \cup r.known
    BY <1>6 DEF RevokeAfterChange
  <2>3. Len(tokens') = Len(tokens) /\ \A j \in 1..Len(tokens) : tokens'[j].revoked
    BY <1>4, <1>6, AllRevoked DEF RevokeAfterChange, RevokeAdminRefreshTokensByUser
  <2> HIDE DEF r
  <2>4. \A j \in dead' : j \in 1..Len(tokens) /\ tokens'[j].revoked
    BY <1>4, <2>1, <2>2, <2>3
  <2>5. dead \subseteq dead'
    BY Zenon, <2>2
  <2> QED BY <1>1, <1>3, <2>3, <2>4, <2>5, RevokingStep
<1> QED BY <1>5, <1>6

\* A token that expires is revoked as before.
LEMMA ExpirySession ==
  ASSUME Types, SessionInv, NEW i \in DOMAIN tokens, TokenExpires(i)
  PROVE  SessionInv'
<1>1. /\ tokens \in Seq(Tokens) /\ i \in 1..Len(tokens) /\ Len(tokens) \in Nat
      /\ \A j \in 1..Len(tokens) : tokens[j] \in Tokens
  BY ElementOfSeq, LenProperties DEF Types
<1> DEFINE e == [tokens[i] EXCEPT !.expired = TRUE]
<1>2. e \in Tokens /\ e.revoked = tokens[i].revoked
  BY Zenon, <1>1 DEF Tokens
<1>3. tokens' = [tokens EXCEPT ![i] = e]
  BY DEF TokenExpires
<1> HIDE DEF e
<1>4. Len(tokens') = Len(tokens) /\ \A j \in 1..Len(tokens) : tokens'[j] = IF j = i THEN e ELSE tokens[j]
  BY <1>1, <1>2, <1>3, ExceptSeq
<1>5. \A j \in 1..Len(tokens) : tokens[j].revoked => tokens'[j].revoked
  BY <1>2, <1>4
<1>6. \A j \in dead : j \in 1..Len(tokens) /\ tokens[j].revoked
  BY DEF SessionInv, DeadInv
<1>7. UNCHANGED <<user, used, loose, console, dead, req>>
  BY DEF TokenExpires, memory, clients, bounds, history
<1>8. \A t \in Slots : Same(req'[t], req[t])
  BY <1>7 DEF Same
<1>9. dead \subseteq dead' /\ \A j \in dead' : j \in 1..Len(tokens) /\ tokens'[j].revoked
  BY <1>5, <1>6, <1>7
<1> QED BY <1>4, <1>5, <1>7, <1>8, <1>9, RevokingStep

\* How a step may write the row of the administrator, and move the requests meanwhile.
RowWritten ==
  \/ user \in Users /\ user'.version = user.version /\ user'.pw = user.pw
  \/ user \in Users /\ user'.version > user.version
  \/ user = NoRow /\ \A t \in Slots : req'[t].pc = "idle"

RequestsMoved ==
  \A t \in Slots : \/ req'[t].pc \in Quiet
                   \/ Same(req'[t], req[t])
                   \/ req'[t].pc \in {"clear", "revoke"} /\ req'[t].known \subseteq 1..Len(tokens)

\* A step that writes the row of the administrator: its password changes only with a
\* version that is higher.
LEMMA UserStep ==
  ASSUME Types, SessionInv, UNCHANGED <<tokens, used, loose, dead, console>>, user' \in Users,
         RowWritten, RequestsMoved
  PROVE  SessionInv'
<1>1. Owned'
  BY DEF SessionInv, Owned, Uses, Same, Quiet, RequestsMoved
<1>2. RotateInv'
  <2> SUFFICES ASSUME NEW i \in 1..Len(tokens), Once(i) PROVE Once(i)'
    BY DEF SessionInv, RotateInv
  <2>1. \A t \in Slots : Holds(req'[t], i) => Holds(req[t], i) /\ req'[t].pc = req[t].pc
    BY DEF Holds, Same, Quiet, RequestsMoved
  <2> QED BY <2>1 DEF Once
<1>3. DeadInv'
  BY DEF SessionInv, DeadInv, Holds, Same, Quiet, RequestsMoved
<1>4. LoginInv'
  <2>1. CASE user \in Users
    <3>1. ASSUME NEW v \in Nat, NEW p, Current(v, p) PROVE Current(v, p)'
      BY <2>1, <3>1, RowAssumption DEF Current, Users, RowWritten
    <3>2. \A c \in Consoles : console[c].access # NoRow => console[c].access.version \in Nat
      BY Zenon DEF Types, Held, Claims
    <3>3. \A t \in Slots : /\ req[t].pc = "auth" => req[t].claims.version \in Nat
                           /\ req[t].pc = "issue" => req[t].row.version \in Nat
      <4> SUFFICES ASSUME NEW t \in Slots
                   PROVE  /\ req[t].pc = "auth" => req[t].claims.version \in Nat
                          /\ req[t].pc = "issue" => req[t].row.version \in Nat
        OBVIOUS
      <4>1. Shape(req[t])
        BY Zenon DEF Types, Requests
      <4> QED BY <4>1 DEF Shape, Claims, Users
    <3>4. \A c \in Consoles : console'[c].access # NoRow =>
            user' \in Users /\ Current(console[c].access.version, console[c].access.pw)'
      BY Zenon, <3>1, <3>2 DEF SessionInv, LoginInv
    <3>5. ASSUME NEW t \in Slots
          PROVE  /\ req'[t].pc = "auth" => Current(req[t].claims.version, req[t].claims.pw)'
                 /\ req'[t].pc = "issue" => Current(req[t].row.version, req[t].pw)'
                 /\ req'[t].pc = "find" => req'[t].op = "login"
                 /\ req'[t].pc \in {"token", "rotate", "reload"} => req'[t].pw = NoRow
      <4>1. CASE Same(req'[t], req[t])
        <5>1. req'[t].pc = "auth" => Current(req[t].claims.version, req[t].claims.pw)'
          <6> SUFFICES ASSUME req[t].pc = "auth" PROVE Current(req[t].claims.version, req[t].claims.pw)'
            BY Zenon, <4>1 DEF Same
          <6> DEFINE v == req[t].claims.version
                     p == req[t].claims.pw
          <6>1. v \in Nat /\ Current(v, p)
            BY <3>3 DEF SessionInv, LoginInv
          <6>2. req'[t].claims.version = v /\ req'[t].claims.pw = p
            BY <4>1 DEF Same
          <6> HIDE DEF v, p
          <6>3. p = NoRow \/ (v <= user'.version /\ (v = user'.version => p = user'.pw))
            BY <3>1, <6>1 DEF Current
          <6> QED BY Zenon, <6>2, <6>3 DEF Current
        <5>2. req'[t].pc = "issue" => Current(req[t].row.version, req[t].pw)'
          <6> SUFFICES ASSUME req[t].pc = "issue" PROVE Current(req[t].row.version, req[t].pw)'
            BY Zenon, <4>1 DEF Same
          <6> DEFINE v == req[t].row.version
                     p == req[t].pw
          <6>1. v \in Nat /\ Current(v, p)
            BY <3>3 DEF SessionInv, LoginInv
          <6>2. req'[t].row.version = v /\ req'[t].pw = p
            BY <4>1 DEF Same
          <6> HIDE DEF v, p
          <6>3. p = NoRow \/ (v <= user'.version /\ (v = user'.version => p = user'.pw))
            BY <3>1, <6>1 DEF Current
          <6> QED BY <6>2, <6>3 DEF Current
        <5> QED BY Zenon, <4>1, <5>1, <5>2 DEF SessionInv, LoginInv, Same
      <4>2. CASE ~Same(req'[t], req[t])
        BY Zenon, <4>2 DEF Quiet, RequestsMoved
      <4> QED BY Zenon, <4>1, <4>2
    <3> QED BY <3>4, <3>5 DEF LoginInv
  <2>2. CASE user = NoRow /\ \A t \in Slots : req'[t].pc = "idle"
    <3>1. NoRow \notin Users
      BY Zenon, RowAssumption
    <3> QED BY <2>2, <3>1 DEF SessionInv, LoginInv
  <2> QED BY <2>1, <2>2 DEF RowWritten
<1> QED BY Zenon, <1>1, <1>2, <1>3, <1>4 DEF SessionInv

\* The two statements of a password change that write the row of the administrator.
LEMMA PasswordSession ==
  ASSUME Types, SessionInv, NEW s \in Slots,
         UpdateAdminPassword(s) \/ ClearAdminPasswordChangeRequired(s)
  PROVE  SessionInv'
<1> DEFINE r == req[s]
<1>1. r \in Requests /\ user \in Users /\ r \in Records /\ r.pc \in {"update", "clear"} /\ Shape(r)
  <2>1. r.pc \in {"update", "clear"}
    BY DEF UpdateAdminPassword, ClearAdminPasswordChangeRequired, At
  <2> QED BY <2>1, BusyUp DEF Requests
<1>2. UNCHANGED <<tokens, used, loose, dead, console>>
  BY DEF UpdateAdminPassword, ClearAdminPasswordChangeRequired, history, clients
<1>3. user' \in Users
  <2>1. Change(s)
    BY DEF Change
  <2>2. Types'
    BY <2>1, ChangeTypes
  <2>3. user' # NoRow
    <3>1. server' = server /\ server = "up"
      BY <1>1, BusyUp DEF UpdateAdminPassword, ClearAdminPasswordChangeRequired, memory
    <3> QED BY <2>2, <3>1, RowAssumption DEF Types
  <2> QED BY <2>2, <2>3 DEF Types
<1>4. CASE UpdateAdminPassword(s)
  <2>1. user'.version > user.version
    <3>1. ASSUME NEW n PROVE [user EXCEPT !.pw = r.new, !.version = n].version = n
      BY <1>1 DEF Users
    <3>2. user' = [user EXCEPT !.pw = r.new, !.version = user.version + 1]
      BY <1>4 DEF UpdateAdminPassword
    <3>3. user'.version = user.version + 1
      BY <3>1, <3>2
    <3> QED BY <1>1, <3>3 DEF Users
  <2> DEFINE q == [r EXCEPT !.pc = "clear", !.known = DOMAIN tokens]
  <2>2. DOMAIN tokens = 1..Len(tokens) /\ DOMAIN tokens \in SUBSET Nat
    BY DEF Types
  <2>3. q \in Requests
    BY Zenon, <1>1, <2>2, KnownTyped
  <2>4. q.pc = "clear" /\ q.known = 1..Len(tokens)
    BY <1>1, <2>2 DEF Records
  <2> HIDE DEF q
  <2>5. \A t \in Slots : req'[t] = IF t = s THEN q ELSE req[t]
    BY <1>4, <2>3, Slotwise DEF UpdateAdminPassword, q
  <2>6. RowWritten
    BY <1>1, <2>1 DEF RowWritten
  <2>7. RequestsMoved
    BY <2>4, <2>5 DEF Same, RequestsMoved
  <2> QED BY <1>2, <1>3, <2>6, <2>7, UserStep
<1>5. CASE ClearAdminPasswordChangeRequired(s)
  <2>1. user'.version = user.version /\ user'.pw = user.pw
    BY <1>1, <1>5 DEF ClearAdminPasswordChangeRequired, Users
  <2> DEFINE q == [r EXCEPT !.pc = "revoke"]
  <2>2. q \in Requests
    BY <1>1, MovedTyped DEF PCs
  <2>3. q.pc = "revoke" /\ q.known = r.known
    BY <1>1, Moved DEF PCs
  <2> HIDE DEF q
  <2>4. \A t \in Slots : req'[t] = IF t = s THEN q ELSE req[t]
    BY <1>5, <2>2, Slotwise DEF ClearAdminPasswordChangeRequired, Goto, q
  <2>5. r.known \subseteq 1..Len(tokens)
    BY <1>5 DEF ClearAdminPasswordChangeRequired, At, SessionInv, DeadInv
  <2>6. RowWritten
    BY Zenon, <1>1, <2>1 DEF RowWritten
  <2>7. RequestsMoved
    BY <2>3, <2>4, <2>5 DEF Same, RequestsMoved
  <2> QED BY <1>2, <1>3, <2>6, <2>7, UserStep
<1> QED BY <1>4, <1>5

\* A start creates the administrator if there is none.
LEMMA StartSession ==
  ASSUME Types, SessionInv, StartServer
  PROVE  SessionInv'
<1>1. /\ \A t \in Slots : req[t] = Idle /\ req'[t] = req[t]
      /\ UNCHANGED <<tokens, used, loose, dead, console>>
  BY Zenon DEF StartServer, Types, clients, history
<1>2. \A t \in Slots : req'[t].pc = "idle" /\ Same(req'[t], req[t])
  BY <1>1 DEF Idle, Same
<1>3. RequestsMoved
  BY <1>2 DEF RequestsMoved
<1>4. CASE user # NoRow
  <2>1. user' = user /\ user \in Users
    BY <1>4 DEF StartServer, EnsureAdminUser, Types
  <2>2. RowWritten
    BY <2>1 DEF RowWritten
  <2> QED BY <1>1, <1>3, <2>1, <2>2, UserStep
<1>5. CASE user = NoRow
  <2>1. user' \in Users
    <3>1. user' = [pw |-> Initial, version |-> 1, force |-> TRUE]
      BY Zenon, <1>5 DEF StartServer, EnsureAdminUser, UpsertAdminUser
    <3> QED BY <3>1, RowAssumption DEF Users
  <2>2. RowWritten
    BY <1>2, <1>5 DEF RowWritten
  <2> QED BY <1>1, <1>3, <2>1, <2>2, UserStep
<1> QED BY <1>4, <1>5

\* The holder of a token revokes it, or fails to and leaves it loose.
LEMMA RotateSession ==
  ASSUME Types, SessionInv, NEW s \in Slots, Rotate(s)
  PROVE  SessionInv'
<1> DEFINE r == req[s]
           i == r.token
           q == [r EXCEPT !.pc = "reload"]
<1>1. /\ r.pc = "rotate" /\ r \in Requests /\ r \in Records /\ r.op = "refresh" /\ r.pw = NoRow
      /\ i \in 1..Len(tokens) /\ i \in Nat
  <2>1. r.pc = "rotate"
    BY DEF Rotate, At
  <2> QED BY <2>1, BusyUp DEF Requests, Records, Shape, SessionInv, LoginInv, Owned, Uses
<1>2. UNCHANGED <<user, used, dead, console>>
  BY DEF Rotate, memory, clients
<1>3. /\ q \in Requests /\ q.pc = "reload" /\ q.op = r.op /\ q.pw = r.pw /\ q.token = i
      /\ q.known = r.known
  BY Zenon, <1>1, Moved, MovedTyped DEF PCs
<1> HIDE DEF q
<1>4. \A t \in Slots : req'[t] = IF t = s THEN q ELSE req[t]
  BY <1>3, Slotwise DEF Rotate, Goto, q
<1>5. /\ Len(tokens') = Len(tokens) /\ loose \subseteq loose'
      /\ \A j \in 1..Len(tokens) : tokens[j].revoked => tokens'[j].revoked
      /\ i \in loose' \/ tokens'[i].revoked
  <2>1. CASE tokens' = [tokens EXCEPT ![i].revoked = TRUE] /\ UNCHANGED loose
    <3>1. tokens \in Seq(Tokens) /\ i \in 1..Len(tokens) /\ i \in Nat
      BY <1>1 DEF Types
    <3> HIDE DEF i
    <3> QED BY <2>1, <3>1, Revoked
  <2>2. CASE UNCHANGED tokens /\ loose' = loose \cup {i}
    BY <2>2
  <2> QED BY Zenon, <2>1, <2>2 DEF Rotate
<1>6. Owned'
  BY <1>1, <1>2, <1>3, <1>4, <1>5 DEF SessionInv, Owned, Uses
<1>7. RotateInv'
  <2> SUFFICES ASSUME NEW j \in 1..Len(tokens), j \notin loose' PROVE Once(j)'
    BY <1>5 DEF RotateInv
  <2>1. Once(j)
    BY <1>5 DEF SessionInv, RotateInv
  <2>2. \A t \in Slots : Holds(req'[t], j) => /\ Holds(req[t], j)
                                              /\ req'[t].pc # req[t].pc => t = s /\ j = i
    BY Zenon, <1>1, <1>3, <1>4 DEF Holds
  <2> QED BY <1>2, <1>5, <2>1, <2>2 DEF Once
<1>8. DeadInv'
  BY Zenon, <1>1, <1>2, <1>3, <1>4, <1>5 DEF SessionInv, DeadInv, Holds
<1>9. LoginInv'
  BY Zenon, <1>1, <1>2, <1>3, <1>4 DEF SessionInv, LoginInv, Current
<1> QED BY Zenon, <1>6, <1>7, <1>8, <1>9 DEF SessionInv

\* A new pair: the token it is given for has been revoked, and nobody else holds it.
LEMMA IssueSession ==
  ASSUME Types, SessionInv, NEW s \in Slots, IssueAdminTokenPair(s)
  PROVE  SessionInv'
<1> DEFINE r == req[s]
           n == Len(tokens)
           c == r.console
<1>1. /\ r.pc = "issue" /\ r \in Requests /\ user \in Users /\ c \in Consoles /\ r.row \in Users
      /\ Current(r.row.version, r.pw) /\ n \in Nat /\ Len(used) = n /\ r.token \in Nat
  <2>1. r.pc = "issue"
    BY Zenon DEF IssueAdminTokenPair, At
  <2>2. r \in Requests /\ user \in Users
    BY <2>1, BusyUp
  <2>3. c \in Consoles /\ r.row \in Users /\ r.token \in Nat
    BY <2>1, <2>2 DEF Requests, Records, Shape
  <2>4. Current(r.row.version, r.pw)
    BY Zenon, <2>1 DEF SessionInv, LoginInv
  <2>5. n \in Nat /\ Len(used) = n
    BY DEF Types
  <2> QED BY Zenon, <2>1, <2>2, <2>3, <2>4, <2>5
<1>2. UNCHANGED <<user, loose, dead>>
  BY Zenon DEF IssueAdminTokenPair, memory, bounds
<1>3. \A t \in Slots : req'[t] = IF t = s THEN Idle ELSE req[t]
  BY Zenon, IdleTyped, Slotwise DEF IssueAdminTokenPair, End
<1>4. /\ Len(tokens') = n + 1 /\ \A j \in 1..n : tokens'[j] = tokens[j]
  <2>1. [revoked |-> FALSE, expired |-> FALSE] \in Tokens /\ tokens \in Seq(Tokens)
    BY Zenon DEF Tokens, Types
  <2> QED BY <2>1, AppendProperties DEF IssueAdminTokenPair
<1>5. /\ used'[n + 1] = 0
      /\ \A j \in 1..n : used'[j] = IF r.op = "refresh" /\ j = r.token THEN used[j] + 1 ELSE used[j]
      /\ \A j \in 1..n : used[j] \in Nat
  <2> DEFINE u == IF r.op = "refresh" THEN [used EXCEPT ![r.token] = @ + 1] ELSE used
  <2>1. used \in Seq(Nat) /\ Len(used) = n /\ used' = Append(u, 0)
    BY Zenon, <1>1 DEF Types, IssueAdminTokenPair
  <2>2. /\ u \in Seq(Nat) /\ Len(u) = n
        /\ \A j \in 1..n : u[j] = IF r.op = "refresh" /\ j = r.token THEN used[j] + 1 ELSE used[j]
    BY <1>1, <2>1, Counted
  <2> HIDE DEF u, n
  <2>3. used'[n + 1] = 0 /\ \A j \in 1..n : used'[j] = u[j]
    BY <2>1, <2>2, AppendProperties
  <2>4. \A j \in 1..n : used[j] \in Nat
    BY Zenon, <2>1, ElementOfSeq
  <2> QED BY Zenon, <2>2, <2>3, <2>4
<1>6. \A d \in Consoles :
        /\ console'[d].refresh = IF d = c THEN n + 1 ELSE console[d].refresh
        /\ console'[d].access = IF d = c THEN [version |-> r.row.version, pw |-> r.pw]
                                ELSE console[d].access
  BY <1>1 DEF IssueAdminTokenPair, Types, Held
<1>7. Owned'
  <2>1. \A d \in Consoles : console'[d].refresh <= n + 1
    BY <1>1, <1>6 DEF SessionInv, Owned, Types, Held
  <2>2. \A t \in Slots : Uses(req'[t]) => req'[t].token \in 1..(n + 1)
    BY <1>1, <1>3 DEF SessionInv, Owned, Uses, Idle
  <2> QED BY Zenon, <1>4, <2>1, <2>2 DEF Owned
<1>8. RotateInv'
  <2> SUFFICES ASSUME NEW j \in 1..(n + 1), j \notin loose PROVE Once(j)'
    BY Zenon, <1>2, <1>4 DEF RotateInv
  <2>1. \A t \in Slots : Holds(req'[t], j) => Holds(req[t], j) /\ t # s /\ req'[t].pc = req[t].pc
    BY <1>3 DEF Holds, Idle
  <2>2. CASE j = n + 1
    <3>1. \A t \in Slots : ~Holds(req'[t], j)
      <4> SUFFICES ASSUME NEW t \in Slots, Holds(req[t], j) PROVE FALSE
        BY <2>1
      <4>1. req[t].token \in 1..n
        BY DEF Holds, SessionInv, Owned, Uses
      <4> QED BY <1>1, <2>2, <4>1 DEF Holds
    <3> QED BY <1>5, <2>2, <3>1 DEF Once
  <2>3. CASE j \in 1..n
    <3>1. Once(j)
      BY <2>3 DEF SessionInv, RotateInv
    <3>2. CASE r.op = "refresh" /\ j = r.token
      <4>1. Holds(r, j)
        BY Zenon, <1>1, <3>2 DEF Holds
      <4>2. tokens[j].revoked /\ used[j] = 0 /\ \A t \in Slots : Holds(req[t], j) => t = s
        BY <1>1, <1>5, <2>3, <3>1, <4>1 DEF Once
      <4>3. tokens'[j].revoked /\ used'[j] = 1 /\ \A t \in Slots : ~Holds(req'[t], j)
        BY <1>4, <1>5, <2>1, <2>3, <3>2, <4>2
      <4> QED BY <4>3 DEF Once
    <3>3. CASE ~(r.op = "refresh" /\ j = r.token)
      <4>1. used'[j] = used[j] /\ tokens'[j] = tokens[j]
        BY <1>4, <1>5, <2>3, <3>3
      <4> QED BY <2>1, <3>1, <4>1 DEF Once
    <3> QED BY <3>2, <3>3
  <2> QED BY <1>1, <2>2, <2>3
<1>9. DeadInv'
  <2>1. \A j \in dead : j \in 1..n /\ tokens[j].revoked
    BY Zenon DEF SessionInv, DeadInv
  <2>2. \A j \in dead' : j \in 1..Len(tokens') /\ tokens'[j].revoked
    BY <1>1, <1>2, <1>4, <2>1
  <2>3. 1..n \subseteq 1..Len(tokens')
    BY <1>1, <1>4
  <2>4. \A t \in Slots : Holds(req'[t], req'[t].token) => req'[t].token \notin req'[t].known
    BY <1>3 DEF SessionInv, DeadInv, Holds, Idle
  <2>5. \A t \in Slots : req'[t].pc = "token" => req'[t].known \subseteq dead'
    BY <1>2, <1>3 DEF SessionInv, DeadInv, Idle
  <2>6. \A t \in Slots : req'[t].pc \in {"clear", "revoke"} => req'[t].known \subseteq 1..n
    BY <1>3 DEF SessionInv, DeadInv, Idle
  <2> QED BY <2>2, <2>3, <2>4, <2>5, <2>6 DEF DeadInv
<1>10. LoginInv'
  <2>1. ASSUME NEW d \in Consoles, console'[d].access # NoRow
        PROVE  user' \in Users /\ Current(console'[d].access.version, console'[d].access.pw)
    <3>1. CASE d = c
      <4> DEFINE v == r.row.version
                 p == r.pw
      <4>1. Current(v, p) /\ user' \in Users
        BY Zenon, <1>1, <1>2
      <4>2. console'[d].access = [version |-> v, pw |-> p]
        BY Zenon, <1>1, <1>6, <3>1
      <4> HIDE DEF v, p
      <4> QED BY <4>1, <4>2
    <3>2. CASE d # c
      <4>1. console'[d].access = console[d].access
        BY <1>6, <3>2
      <4> QED BY <1>2, <2>1, <4>1 DEF SessionInv, LoginInv
    <3> QED BY <3>1, <3>2
  <2>2. ASSUME NEW t \in Slots
        PROVE  /\ req'[t].pc = "auth" => Current(req'[t].claims.version, req'[t].claims.pw)
               /\ req'[t].pc = "issue" => Current(req'[t].row.version, req'[t].pw)
               /\ req'[t].pc = "find" => req'[t].op = "login"
               /\ req'[t].pc \in {"token", "rotate", "reload"} => req'[t].pw = NoRow
    <3>1. CASE t = s
      BY <1>3, <3>1 DEF Idle
    <3>2. CASE t # s
      <4>1. req'[t] = req[t]
        BY <1>3, <3>2
      <4> QED BY <4>1 DEF SessionInv, LoginInv
    <3> QED BY <3>1, <3>2
  <2> QED BY <1>2, <2>1, <2>2 DEF LoginInv, Current
<1> QED BY <1>7, <1>8, <1>9, <1>10 DEF SessionInv

\* A request that goes on to a statement that uses no token.
LEMMA QuietSession ==
  ASSUME Types, SessionInv, NEW s \in Slots, NEW q \in Requests, q.pc \in Quiet, SetReq(s, q),
         UNCHANGED <<user, tokens, used, loose, dead, console>>
  PROVE  SessionInv'
<1>1. \A t \in Slots : req'[t] = IF t = s THEN q ELSE req[t]
  BY Slotwise
<1>2. \A t \in Slots : req'[t].pc \in Quiet \/ Same(req'[t], req[t])
  BY <1>1 DEF Same
<1> QED BY <1>2, NeutralStep

\* The statements of the handlers behind requireAdmin that read, and every failure.
LEMMA ReadSession ==
  ASSUME Types, SessionInv, NEW s \in Slots,
         RequireAdmin(s) \/ AnswerMe(s) \/ GetSettings(s) \/ Fail(s) \/ CheckChange(s)
  PROVE  SessionInv'
<1> DEFINE r == req[s]
<1>1. r \in Requests /\ r \in Records /\ Shape(r) /\ r.pc # "idle"
  <2>1. r.pc # "idle"
    BY DEF RequireAdmin, AnswerMe, GetSettings, Fail, CheckChange, At
  <2> QED BY <2>1, BusyUp DEF Requests
<1> USE DEF rows, memory, clients, bounds, history
<1>2. CASE RequireAdmin(s)
  <2>1. UNCHANGED <<user, tokens, used, loose, dead, console>>
    BY <1>2 DEF RequireAdmin
  <2>2. CASE SetReq(s, Idle)
    BY <2>1, <2>2, EndSession
  <2>3. CASE SetReq(s, [r EXCEPT !.pc = r.op])
    <3>1. r.pc = "auth" /\ r.op \in Guarded /\ Target(r) = r.op
      BY Zenon, <1>1, <1>2 DEF RequireAdmin, At, Shape, Target
    <3> DEFINE q == [r EXCEPT !.pc = r.op]
    <3>2. r.op \in Quiet /\ r.op \in PCs
      BY <3>1 DEF Guarded, Quiet, PCs
    <3>3. q \in Requests
      BY <1>1, <3>1, <3>2, MovedTyped DEF Guarded
    <3>4. q.pc \in Quiet
      BY Zenon, <1>1, <3>2, Moved
    <3> HIDE DEF q
    <3> QED BY Zenon, <2>1, <2>3, <3>3, <3>4, QuietSession DEF q
  <2> QED BY Zenon, <1>2, <2>2, <2>3 DEF RequireAdmin, End, Goto
<1>3. CASE AnswerMe(s)
  BY <1>3, EndSession DEF AnswerMe, End
<1>4. CASE GetSettings(s)
  <2>1. \A t \in Slots : req'[t] = IF t = s THEN Idle ELSE req[t]
    BY <1>4, IdleTyped, Slotwise DEF GetSettings, End
  <2>2. \A t \in Slots : req'[t].pc \in Quiet \/ Same(req'[t], req[t])
    <3>1. Idle.pc \in Quiet
      BY Zenon DEF Idle, Quiet
    <3> QED BY Zenon, <2>1, <3>1 DEF Same
  <2>3. \A c \in Consoles : /\ console'[c].access = console[c].access
                            /\ console'[c].refresh = console[c].refresh
    BY <1>4 DEF GetSettings, Types, Held
  <2>4. UNCHANGED <<user, tokens, used, loose, dead>>
    BY <1>4 DEF GetSettings
  <2> QED BY Zenon, <2>2, <2>3, <2>4, NeutralStep
<1>5. CASE Fail(s)
  BY Zenon, <1>5, EndSession DEF Fail, End
<1>6. CASE CheckChange(s)
  <2>1. UNCHANGED <<user, tokens, used, loose, dead, console>>
    BY <1>6 DEF CheckChange
  <2>2. CASE SetReq(s, Idle)
    BY <2>1, <2>2, EndSession
  <2>3. CASE SetReq(s, [r EXCEPT !.pc = "update"])
    <3>1. Target(r) = "change"
      BY <1>6 DEF CheckChange, At, Target
    <3> DEFINE q == [r EXCEPT !.pc = "update"]
    <3>2. q \in Requests /\ q.pc = "update"
      BY <1>1, <3>1, Moved, MovedTyped DEF PCs
    <3> HIDE DEF q
    <3> QED BY Zenon, <2>1, <2>3, <3>2, QuietSession DEF q, Quiet
  <2> QED BY Zenon, <1>6, <2>2, <2>3 DEF CheckChange, End, Goto
<1> QED BY Zenon, <1>2, <1>3, <1>4, <1>5, <1>6

\* The saves touch neither tokens nor the administrator.
LEMMA SaveSession ==
  ASSUME Types, SessionInv, NEW s \in Slots, Save(s)
  PROVE  SessionInv'
<1> DEFINE r == req[s]
<1>1. UNCHANGED <<user, tokens, used, loose, dead, console>>
  BY Zenon DEF Save, PatchSettings, SaveSetting, CreateFile, CopyFile, PersistReleaseUpload,
         rows, memory, clients, bounds, history
<1>2. r \in Records /\ r.pc \in Quiet /\ req \in [Slots -> Records]
  BY DEF Types, Requests, Save, PatchSettings, SaveSetting, CreateFile, CopyFile,
         PersistReleaseUpload, Saving, At, Quiet
<1>3. ASSUME NEW b, ApplyInMemory(s, b)
      PROVE  \A t \in Slots : req'[t].pc \in Quiet \/ Same(req'[t], req[t])
  <2> DEFINE others == {t \in Slots \ {s} : Saving(t)}
  <2>1. \A t \in Slots :
          req'[t] = IF t = s THEN [r EXCEPT !.pc = "save", !.body = b, !.left = DOMAIN b,
                                            !.alone = others = {}]
                    ELSE IF t \in others THEN [req[t] EXCEPT !.alone = FALSE] ELSE req[t]
    BY Zenon, <1>3 DEF ApplyInMemory
  <2>2. \A a : [r EXCEPT !.pc = "save", !.body = b, !.left = DOMAIN b, !.alone = a].pc = "save"
    BY <1>2 DEF Records
  <2>3. ASSUME NEW t \in Slots PROVE Same([req[t] EXCEPT !.alone = FALSE], req[t])
    <3>1. req[t] \in Records
      BY <1>2
    <3> QED BY <3>1 DEF Records, Same
  <2> HIDE DEF others
  <2>4. req'[s].pc = "save"
    BY Zenon, <2>1, <2>2
  <2>5. \A t \in Slots : t # s => req'[t] = [req[t] EXCEPT !.alone = FALSE] \/ req'[t] = req[t]
    BY Zenon, <2>1
  <2>6. \A t \in Slots : t # s => Same(req'[t], req[t])
    <3> SUFFICES ASSUME NEW t \in Slots, t # s PROVE Same(req'[t], req[t])
      OBVIOUS
    <3>1. CASE req'[t] = [req[t] EXCEPT !.alone = FALSE]
      BY <2>3, <3>1
    <3>2. CASE req'[t] = req[t]
      BY Zenon, <3>2 DEF Same
    <3> QED BY <2>5, <3>1, <3>2
  <2> QED BY <2>4, <2>6 DEF Quiet
<1>4. ASSUME NEW q, SetReq(s, q), q.pc \in Quiet
      PROVE  \A t \in Slots : req'[t].pc \in Quiet \/ Same(req'[t], req[t])
  <2>1. \A t \in Slots : req'[t] = IF t = s THEN q ELSE req[t]
    BY <1>2, <1>4 DEF SetReq
  <2> QED BY <1>4, <2>1 DEF Same
<1>5. ASSUME NEW pc \in Quiet PROVE [r EXCEPT !.pc = pc].pc \in Quiet
  BY Zenon, <1>2 DEF Records
<1>6. Idle.pc \in Quiet
  BY DEF Idle, Quiet
<1>7. ASSUME NEW k PROVE [r EXCEPT !.left = @ \ {k}].pc \in Quiet
  BY Zenon, <1>2 DEF Records
<1>8. CASE \E b : ApplyInMemory(s, b)
  BY Zenon, <1>1, <1>3, <1>8, NeutralStep
<1>9. CASE End(s) \/ Goto(s, "copy") \/ Goto(s, "persist")
  <2>1. "copy" \in Quiet /\ "persist" \in Quiet
    BY DEF Quiet
  <2>2. \A t \in Slots : req'[t].pc \in Quiet \/ Same(req'[t], req[t])
    BY Zenon, <1>4, <1>5, <1>6, <1>9, <2>1 DEF End, Goto
  <2> QED BY <1>1, <2>2, NeutralStep
<1>10. CASE \E k : SetReq(s, [r EXCEPT !.left = @ \ {k}])
  <2>1. \A t \in Slots : req'[t].pc \in Quiet \/ Same(req'[t], req[t])
    BY Zenon, <1>4, <1>7, <1>10
  <2> QED BY <1>1, <2>1, NeutralStep
<1> QED BY Zenon, <1>8, <1>9, <1>10
      DEF Save, PatchSettings, SaveSetting, CreateFile, CopyFile, PersistReleaseUpload

\* The start of the server, its crash and the clients.
LEMMA ServerSession ==
  ASSUME Types, SessionInv,
         \/ EnsureDefaultSettings \/ ApplySystemSettings \/ StartFails \/ Crash
         \/ FetchReleaseInfo \/ DownloadReleaseInstaller \/ LaunchUpdater
  PROVE  SessionInv'
<1>1. UNCHANGED <<user, tokens, used, loose, dead, console>>
  BY Zenon DEF EnsureDefaultSettings, ApplySystemSettings, StartFails, Crash, FetchReleaseInfo,
         DownloadReleaseInstaller, LaunchUpdater, rows, memory, clients, bounds, history
<1>2. \A t \in Slots : req'[t] = Idle \/ req'[t] = req[t]
  BY DEF EnsureDefaultSettings, ApplySystemSettings, StartFails, Crash, FetchReleaseInfo,
         DownloadReleaseInstaller, LaunchUpdater
<1>3. \A t \in Slots : req'[t].pc \in Quiet \/ Same(req'[t], req[t])
  BY <1>2 DEF Idle, Quiet, Same
<1> QED BY Zenon, <1>1, <1>3, NeutralStep

\* Before the first start there are no tokens and no requests.
LEMMA InitSession == Init => SessionInv
<1> SUFFICES ASSUME Init PROVE SessionInv
  OBVIOUS
<1>1. /\ tokens = <<>> /\ Len(tokens) = 0 /\ dead = {}
      /\ \A s \in Slots : req[s].pc = "idle"
      /\ \A c \in Consoles : console[c].access = NoRow /\ console[c].refresh = 0
  BY DEF Init, Idle
<1>2. Owned /\ RotateInv
  BY <1>1 DEF Owned, Uses, RotateInv
<1>3. DeadInv /\ LoginInv
  BY <1>1 DEF DeadInv, LoginInv, Holds
<1> QED BY <1>2, <1>3 DEF SessionInv

\* Every step keeps what the sessions rest on.
LEMMA SessionStep == Types /\ SessionInv /\ [Next]_vars => SessionInv'
<1> SUFFICES ASSUME Types, SessionInv, [Next]_vars PROVE SessionInv'
  OBVIOUS
<1>1. CASE UNCHANGED vars
  BY <1>1, NeutralStep DEF vars, rows, memory, clients, bounds, history, Same
<1>2. ASSUME NEW s \in Slots, Session(s) PROVE SessionInv'
  BY <1>2, NewRequestSession, RowSession, IssueSession, LookSession, RotateSession,
     RevokeSession, ReadSession DEF Session
<1>3. ASSUME NEW s \in Slots, Change(s) PROVE SessionInv'
  BY <1>3, ReadSession, PasswordSession, RevokeSession DEF Change
<1> QED BY <1>1, <1>2, <1>3, StartSession, SaveSession, ExpirySession, ServerSession DEF Next

\* A refresh token is exchanged for one pair at most, unless two refreshes read it before
\* either revoked it or the revocation failed, for any number of concurrent requests
\* (handleAdminRefresh).
THEOREM TokensRotateOnce == Spec => []RotatedOnce
<1>1. Types /\ SessionInv => RotatedOnce
  <2> SUFFICES ASSUME Types, SessionInv, NEW i \in DOMAIN used, i \notin loose PROVE used[i] <= 1
    BY DEF RotatedOnce
  <2>1. i \in 1..Len(tokens)
    BY DEF Types
  <2> QED BY <2>1 DEF SessionInv, RotateInv, Once
<1> QED BY <1>1, InitTypes, TypesStep, InitSession, SessionStep, PTL DEF Spec

\* No refresh that begins after a logout or a password change has ended gets a pair for a
\* token that it revoked (handleAdminLogout, handleChangePassword).
THEOREM RevokedStaysDead == Spec => RevokedGivesNothing
<1> DEFINE Step == \A s \in Slots :
             At(s, "issue") /\ req[s].op = "refresh" /\ tokens' # tokens /\ req'[s] = Idle =>
               req[s].token \notin req[s].known
<1>1. SessionInv => Step
  BY DEF SessionInv, DeadInv, Holds, At
<1> HIDE DEF Step
<1>2. Spec => [][Step]_vars
  BY <1>1, InitTypes, TypesStep, InitSession, SessionStep, PTL DEF Spec
<1> QED BY <1>2 DEF Step, RevokedGivesNothing

\* A step of one request leaves every other that is not saving alone.
LEMMA OtherSlot ==
  ASSUME Types, NEW s \in Slots, NEW t \in Slots, s # t, req[s].pc # "save",
         Session(t) \/ Change(t) \/ Save(t)
  PROVE  req'[s] = req[s]
<1>1. ASSUME NEW q, SetReq(t, q) PROVE req'[s] = req[s]
  BY <1>1 DEF SetReq, Types
<1>2. ASSUME NEW b, ApplyInMemory(t, b) PROVE req'[s] = req[s]
  BY Zenon, <1>2 DEF ApplyInMemory, Saving, At
<1>3. CASE Session(t)
  BY Zenon, <1>1, <1>3
     DEF Session, Login, WithRefresh, WithAccess, CheckPassword, IssueAdminTokenPair,
         GetAdminRefreshToken, Rotate, GetAdminUserByID, RevokeAdminRefreshToken, RequireAdmin,
         AnswerMe, GetSettings, Fail, Admit, End, Goto
<1>4. CASE Change(t)
  BY Zenon, <1>1, <1>4 DEF Change, CheckChange, UpdateAdminPassword, ClearAdminPasswordChangeRequired,
                    RevokeAfterChange, End, Goto
<1>5. CASE Save(t)
  BY Zenon, <1>1, <1>2, <1>5 DEF Save, PatchSettings, SaveSetting, CreateFile, CopyFile,
                          PersistReleaseUpload, End, Goto
<1> QED BY <1>3, <1>4, <1>5

\* A request passes requireAdmin only with the version of the row.
LEMMA PassesWithVersion ==
  ASSUME Types, [Next]_vars, NEW s \in Slots, At(s, "auth"), req'[s].pc = req[s].op
  PROVE  user \in Users /\ user.version = req[s].claims.version
<1>1. req[s].pc = "auth" /\ req[s].op \in Guarded /\ user \in Users /\ user # NoRow
  <2>1. req[s].pc = "auth"
    BY Zenon DEF At
  <2>2. req[s] \in Requests /\ user \in Users
    BY <2>1, BusyUp
  <2>3. req[s].op \in Guarded
    BY Zenon, <2>1, <2>2 DEF Requests, Shape
  <2> QED BY Zenon, <2>1, <2>2, <2>3, RowAssumption
<1>2. req'[s].pc \notin {"auth", "idle"}
  BY <1>1 DEF Guarded
<1>3. ASSUME req'[s] = req[s] \/ req'[s] = Idle PROVE FALSE
  <2>1. Idle.pc = "idle"
    BY DEF Idle
  <2>2. CASE req'[s] = req[s]
    <3>1. req'[s].pc = "auth"
      BY Zenon, <1>1, <2>2
    <3> QED BY <1>2, <3>1
  <2>3. CASE req'[s] = Idle
    <3>1. req'[s].pc = "idle"
      BY Zenon, <2>1, <2>3
    <3> QED BY <1>2, <3>1
  <2> QED BY Zenon, <1>3, <2>2, <2>3
<1>4. PICK t \in Slots : Session(t) \/ Change(t) \/ Save(t)
  <2>1. req' # req /\ ~Crash
    BY Zenon, <1>3 DEF Crash
  <2> QED BY Zenon, <2>1
      DEF Next, vars, StartServer, EnsureDefaultSettings, ApplySystemSettings, StartFails,
          TokenExpires, FetchReleaseInfo, DownloadReleaseInstaller, LaunchUpdater
<1>5. t = s
  BY <1>1, <1>3, <1>4, OtherSlot
<1>6. RequireAdmin(s) \/ Fail(s)
  <2>1. ~Change(s) /\ ~Save(s)
    BY <1>1 DEF Change, Save, CheckChange, UpdateAdminPassword, ClearAdminPasswordChangeRequired,
                RevokeAfterChange, PatchSettings, SaveSetting, CreateFile, CopyFile,
                PersistReleaseUpload, Saving, At
  <2>2. ~(Login(s) \/ WithRefresh(s) \/ WithAccess(s))
    BY <1>1 DEF Login, WithRefresh, WithAccess, Admit, At
  <2> QED BY Zenon, <1>1, <1>4, <1>5, <2>1, <2>2
          DEF Session, CheckPassword, IssueAdminTokenPair, GetAdminRefreshToken, Rotate,
              GetAdminUserByID, RevokeAdminRefreshToken, AnswerMe, GetSettings, At
<1>7. ASSUME End(s) PROVE FALSE
  <2>1. req'[s] = Idle
    BY <1>7, IdleTyped, Slotwise DEF End
  <2> QED BY <1>3, <2>1
<1> QED BY Zenon, <1>1, <1>6, <1>7 DEF RequireAdmin, Fail

\* An access token that a login issued passes requireAdmin only while the password of that
\* login is the administrator's, however logins, refreshes and password changes interleave.
THEOREM LoginsEndWithPassword == Spec => LoginEndsWithPassword
<1> DEFINE Step == \A s \in Slots :
             At(s, "auth") /\ req'[s].pc = req[s].op /\ req[s].claims.pw # NoRow =>
               req[s].claims.pw = user.pw
<1>1. Types /\ SessionInv /\ [Next]_vars => Step
  <2> SUFFICES ASSUME Types, SessionInv, [Next]_vars, NEW s \in Slots, At(s, "auth"),
                      req'[s].pc = req[s].op, req[s].claims.pw # NoRow
               PROVE  req[s].claims.pw = user.pw
    BY DEF Step
  <2>1. user.version = req[s].claims.version
    BY Zenon, PassesWithVersion
  <2>2. Current(req[s].claims.version, req[s].claims.pw)
    BY DEF SessionInv, LoginInv, At
  <2> QED BY <2>1, <2>2 DEF Current
<1> HIDE DEF Step
<1>2. Spec => [][Step]_vars
  BY <1>1, InitTypes, TypesStep, InitSession, SessionStep, PTL DEF Spec
<1> QED BY <1>2 DEF Step, LoginEndsWithPassword

=============================================================================
