------------------------- MODULE AdminControlProofs -------------------------
(***************************************************************************)
(* The types of AdminControl, for any number of consoles, requests,        *)
(* passwords, tokens, keys and packages, and any mix of requests, faults   *)
(* and crashes.  AdminSessionProofs and AdminSettingsProofs build on them. *)
(***************************************************************************)
EXTENDS AdminControl, SequenceTheorems, TLAPS

Guarded == {"me", "change", "get", "upload", "settings"}
Ops == {"none", "login", "refresh", "logout"} \cup Guarded
PCs == {"idle", "find", "issue", "token", "rotate", "reload", "logout", "auth", "update", "clear",
        "revoke", "copy", "persist", "save"} \cup Guarded

Tokens == [revoked : BOOLEAN, expired : BOOLEAN]
Claims == [version : Nat, pw : Passwords \cup {NoRow}]
Partial == UNION {[K -> Values] : K \in SUBSET Keys}
Bodies == {NoRow} \cup Packages \cup Partial
Texts == {Empty} \cup {<<v>> : v \in Values \ {Empty}}
Held == [access : Claims \cup {NoRow}, refresh : Nat, form : Settings \cup {NoRow}]

Records ==
  [op : Ops, pc : PCs, console : Consoles \cup {NoRow}, token : Nat, claims : Claims \cup {NoRow},
   pw : Passwords \cup {NoRow}, new : Passwords \cup {NoRow}, row : Users \cup {NoRow},
   body : Bodies, left : SUBSET Keys, alone : BOOLEAN, known : SUBSET Nat]

\* The handler that a request is in, or that requireAdmin passes it to.
Target(r) == IF r.pc = "auth" THEN r.op ELSE r.pc

\* What the fields of a request hold when its handler reads them.
Shape(r) ==
  /\ r.pc # "idle" => r.console \in Consoles
  /\ r.pc \in {"token", "rotate", "reload"} => r.op = "refresh"
  /\ r.pc = "auth" => r.op \in Guarded /\ r.claims \in Claims
  /\ r.pc = "issue" => r.row \in Users
  /\ Target(r) \in {"change", "update"} => r.new \in Passwords
  /\ Target(r) \in {"change", "update"} => r.claims \in Claims
  /\ Target(r) = "settings" => r.body \in Settings
  /\ Target(r) \in {"upload", "copy", "persist"} => r.body \in Packages
  /\ r.pc = "save" => r.body \in Partial /\ r.left # {} /\ r.left \subseteq DOMAIN r.body

Requests == {r \in Records : Shape(r)}

Types ==
  /\ user \in Users \cup {NoRow}
  /\ tokens \in Seq(Tokens) /\ used \in Seq(Nat) /\ Len(used) = Len(tokens)
  /\ stored \in [Keys -> Texts]
  /\ server \in {"down", "defaults", "apply", "up"} /\ left \subseteq Keys
  /\ req \in [Slots -> Requests]
  /\ console \in [Consoles -> Held]
  /\ torn \in BOOLEAN /\ split \in BOOLEAN /\ dead \subseteq Nat
  /\ server # "down" => user \in Users
  /\ server = "up" => cfg \in Settings
  /\ server # "up" => \A s \in Slots : req[s] = Idle
-----------------------------------------------------------------------------
\* A slot without a request is typed.
LEMMA IdleTyped == Idle \in Requests
BY Zenon DEF Idle, Records, Requests, Shape, Target, Ops, PCs, Guarded, Bodies

\* A request that goes on to the statement pc.
LEMMA Moved ==
  ASSUME NEW r \in Records, NEW pc \in PCs
  PROVE  /\ [r EXCEPT !.pc = pc] \in Records
         /\ [r EXCEPT !.pc = pc].pc = pc
         /\ [r EXCEPT !.pc = pc].op = r.op
         /\ [r EXCEPT !.pc = pc].console = r.console
         /\ [r EXCEPT !.pc = pc].token = r.token
         /\ [r EXCEPT !.pc = pc].claims = r.claims
         /\ [r EXCEPT !.pc = pc].pw = r.pw
         /\ [r EXCEPT !.pc = pc].new = r.new
         /\ [r EXCEPT !.pc = pc].row = r.row
         /\ [r EXCEPT !.pc = pc].body = r.body
         /\ [r EXCEPT !.pc = pc].left = r.left
         /\ [r EXCEPT !.pc = pc].known = r.known
BY DEF Records

\* A request that goes on to another statement of its handler stays typed.
LEMMA MovedTyped ==
  ASSUME NEW r \in Requests, r.pc # "idle", NEW pc \in PCs,
         pc \in {"rotate", "reload"} => r.op = "refresh",
         pc \notin {"idle", "token", "auth", "issue", "save"},
         pc \in {"change", "update", "settings", "upload", "copy", "persist"}
            => Target(r) = pc \/ <<Target(r), pc>> \in {<<"change", "update">>, <<"upload", "copy">>, <<"copy", "persist">>}
  PROVE  [r EXCEPT !.pc = pc] \in Requests
<1>1. r \in Records /\ Shape(r)
  BY DEF Requests
<1> DEFINE q == [r EXCEPT !.pc = pc]
<1>2. q \in Records /\ q.pc = pc /\ q.op = r.op /\ q.console = r.console /\ q.claims = r.claims
      /\ q.new = r.new /\ q.body = r.body
  BY <1>1, Moved
<1> HIDE DEF q
<1>3. Target(q) = pc
  BY <1>2 DEF Target
<1>4. Shape(q)
  BY <1>1, <1>2, <1>3 DEF Shape
<1> QED BY <1>2, <1>4 DEF Requests, q

-----------------------------------------------------------------------------
\* A request is under way only while the server is up.
LEMMA BusyUp ==
  ASSUME Types, NEW s \in Slots, req[s].pc # "idle"
  PROVE  server = "up" /\ user \in Users /\ cfg \in Settings /\ req[s] \in Requests
BY DEF Types, Idle

\* A step of one request leaves the other slots as they were.
LEMMA Slotwise ==
  ASSUME Types, NEW s \in Slots, NEW r \in Requests, SetReq(s, r)
  PROVE  /\ req' \in [Slots -> Requests]
         /\ \A t \in Slots : req'[t] = IF t = s THEN r ELSE req[t]
BY DEF Types, SetReq

\* A step of a request that changes no other typed variable but these.
LEMMA RequestStep ==
  ASSUME Types, NEW s \in Slots, NEW r \in Requests, SetReq(s, r), server = "up",
         user' \in Users, tokens' \in Seq(Tokens), used' \in Seq(Nat), Len(used') = Len(tokens'),
         stored' \in [Keys -> Texts], console' \in [Consoles -> Held], cfg' \in Settings,
         torn' \in BOOLEAN, dead' \subseteq Nat, UNCHANGED <<server, left, split>>
  PROVE  Types'
BY Slotwise DEF Types

\* A step that only moves the request.
LEMMA PlainStep ==
  ASSUME Types, NEW s \in Slots, NEW r \in Requests, SetReq(s, r), server = "up",
         UNCHANGED <<user, tokens, used, stored, console, cfg, torn, dead, server, left, split>>
  PROVE  Types'
BY RequestStep DEF Types

\* The request that handleLogin starts with.
LEMMA LoginTyped ==
  ASSUME NEW c \in Consoles, NEW pw \in Passwords
  PROVE  [Idle EXCEPT !.op = "login", !.pc = "find", !.console = c, !.pw = pw] \in Requests
<1> DEFINE r == [Idle EXCEPT !.op = "login", !.pc = "find", !.console = c, !.pw = pw]
<1>1. r \in Records
  BY Zenon, IdleTyped DEF Requests, Records, Ops, PCs
<1>2. r.pc = "find" /\ r.console = c
  BY DEF Idle
<1> HIDE DEF r
<1>3. Shape(r)
  BY <1>2 DEF Shape, Target
<1> QED BY <1>1, <1>3 DEF Requests, r

\* The requests that carry a refresh token.
LEMMA WithRefreshTyped ==
  ASSUME NEW c \in Consoles, NEW i \in Nat, NEW known \in SUBSET Nat,
         NEW op \in {"refresh", "logout"}, NEW pc \in {"token", "logout"},
         pc = "token" => op = "refresh"
  PROVE  [[Idle EXCEPT !.console = c, !.token = i, !.known = known]
            EXCEPT !.op = op, !.pc = pc] \in Requests
<1> DEFINE r == [[Idle EXCEPT !.console = c, !.token = i, !.known = known]
                   EXCEPT !.op = op, !.pc = pc]
<1>1. r \in Records
  BY Zenon, IdleTyped DEF Requests, Records, Ops, PCs
<1>2. r.pc = pc /\ r.console = c /\ r.op = op
  BY DEF Idle
<1> HIDE DEF r
<1>3. Shape(r)
  BY <1>2 DEF Shape, Target
<1> QED BY <1>1, <1>3 DEF Requests, r

\* A request behind requireAdmin.
Behind(c, claims) == [Idle EXCEPT !.console = c, !.pc = "auth", !.claims = claims]

\* The requests that carry an access token.
LEMMA WithAccessTyped ==
  ASSUME NEW c \in Consoles, NEW claims \in Claims
  PROVE  /\ \A op \in {"me", "get"} : [Behind(c, claims) EXCEPT !.op = op] \in Requests
         /\ \A pw, new \in Passwords :
              [Behind(c, claims) EXCEPT !.op = "change", !.pw = pw, !.new = new] \in Requests
         /\ \A u \in Packages :
              [Behind(c, claims) EXCEPT !.op = "upload", !.body = u] \in Requests
         /\ \A b \in Settings :
              [Behind(c, claims) EXCEPT !.op = "settings", !.body = b] \in Requests
<1> DEFINE r == Behind(c, claims)
<1>1. /\ r \in Records /\ r.pc = "auth" /\ r.console = c /\ r.claims = claims
  BY Zenon, IdleTyped DEF Requests, Records, PCs, Behind, Idle
<1> HIDE DEF r
<1>2. ASSUME NEW op \in {"me", "get"} PROVE [r EXCEPT !.op = op] \in Requests
  <2> DEFINE q == [r EXCEPT !.op = op]
  <2>1. q \in Records /\ q.op = op /\ q.pc = "auth" /\ q.console = c /\ q.claims = claims
    BY <1>1 DEF Records, Ops, Guarded
  <2> HIDE DEF q
  <2>2. Shape(q)
    BY <2>1 DEF Shape, Target, Guarded
  <2> QED BY <2>1, <2>2 DEF Requests, q
<1>3. ASSUME NEW pw \in Passwords, NEW new \in Passwords
      PROVE  [r EXCEPT !.op = "change", !.pw = pw, !.new = new] \in Requests
  <2> DEFINE q == [r EXCEPT !.op = "change", !.pw = pw, !.new = new]
  <2>1. q \in Records /\ q.op = "change" /\ q.pc = "auth" /\ q.console = c /\ q.claims = claims /\ q.new = new
    BY Zenon, <1>1 DEF Records, Ops, Guarded
  <2> HIDE DEF q
  <2>2. Shape(q)
    BY <2>1 DEF Shape, Target, Guarded
  <2> QED BY <2>1, <2>2 DEF Requests, q
<1>4. ASSUME NEW u \in Packages PROVE [r EXCEPT !.op = "upload", !.body = u] \in Requests
  <2> DEFINE q == [r EXCEPT !.op = "upload", !.body = u]
  <2>1. q \in Records /\ q.op = "upload" /\ q.pc = "auth" /\ q.console = c /\ q.claims = claims /\ q.body = u
    BY Zenon, <1>1 DEF Records, Ops, Guarded, Bodies
  <2> HIDE DEF q
  <2>2. Shape(q)
    BY <2>1 DEF Shape, Target, Guarded
  <2> QED BY <2>1, <2>2 DEF Requests, q
<1>5. ASSUME NEW b \in Settings PROVE [r EXCEPT !.op = "settings", !.body = b] \in Requests
  <2> DEFINE q == [r EXCEPT !.op = "settings", !.body = b]
  <2>1. b \in Bodies
    BY DEF Bodies, Partial, Settings
  <2>2. q \in Records /\ q.op = "settings" /\ q.pc = "auth" /\ q.console = c /\ q.claims = claims /\ q.body = b
    BY Zenon, <1>1, <2>1 DEF Records, Ops, Guarded
  <2> HIDE DEF q
  <2>3. Shape(q)
    BY <2>2 DEF Shape, Target, Guarded
  <2> QED BY <2>2, <2>3 DEF Requests, q
<1> QED BY Zenon, <1>2, <1>3, <1>4, <1>5 DEF r

-----------------------------------------------------------------------------
USE RowAssumption, KeyAssumption

\* A request that arrives.
LEMMA AdmitTypes ==
  ASSUME Types, NEW s \in Slots, NEW r \in Requests, Admit(s, r)
  PROVE  Types'
BY PlainStep DEF Admit, rows, memory, clients, history

\* Every request that a console may send.
LEMMA NewRequestTypes ==
  ASSUME Types, NEW s \in Slots, Login(s) \/ WithRefresh(s) \/ WithAccess(s)
  PROVE  Types'
<1>1. CASE Login(s)
  BY Zenon, <1>1, LoginTyped, AdmitTypes DEF Login
<1>2. CASE WithRefresh(s)
  <2>1. PICK c \in Consoles :
          LET r == [Idle EXCEPT !.console = c, !.token = console[c].refresh, !.known = dead]
          IN \/ Admit(s, [r EXCEPT !.op = "refresh", !.pc = "token"])
             \/ Admit(s, [r EXCEPT !.op = "logout", !.pc = "logout"])
    BY Zenon, <1>2 DEF WithRefresh
  <2>2. console[c].refresh \in Nat /\ dead \in SUBSET Nat
    BY DEF Types, Held
  <2> DEFINE r(op, pc) == [[Idle EXCEPT !.console = c, !.token = console[c].refresh, !.known = dead]
                             EXCEPT !.op = op, !.pc = pc]
  <2>3. r("refresh", "token") \in Requests /\ r("logout", "logout") \in Requests
    BY Zenon, <2>2, WithRefreshTyped
  <2>4. Admit(s, r("refresh", "token")) \/ Admit(s, r("logout", "logout"))
    BY <2>1
  <2> HIDE DEF r
  <2> QED BY <2>3, <2>4, AdmitTypes
<1>3. CASE WithAccess(s)
  <2>1. PICK c \in Consoles :
          /\ console[c].access # NoRow
          /\ LET r == Behind(c, console[c].access)
             IN \/ Admit(s, [r EXCEPT !.op = "me"])
                \/ \E new \in Passwords : Admit(s, [r EXCEPT !.op = "change", !.pw = user.pw, !.new = new])
                \/ Admit(s, [r EXCEPT !.op = "get"])
                \/ \E u \in Packages : Admit(s, [r EXCEPT !.op = "upload", !.body = u])
                \/ /\ console[c].form # NoRow
                   /\ \E k \in Keys : \E v \in Offered[k] :
                        Admit(s, [r EXCEPT !.op = "settings", !.body = [console[c].form EXCEPT ![k] = v]])
    BY Zenon, <1>3 DEF WithAccess, Behind
  <2> DEFINE r == Behind(c, console[c].access)
  <2>2. console[c].access \in Claims /\ console[c].form \in Settings \cup {NoRow}
    BY Zenon, <2>1 DEF Types, Held
  <2> HIDE DEF r
  <2>3. CASE Admit(s, [r EXCEPT !.op = "me"]) \/ Admit(s, [r EXCEPT !.op = "get"])
    BY Zenon, <2>2, <2>3, WithAccessTyped, AdmitTypes DEF r
  <2>4. ASSUME NEW new \in Passwords, Admit(s, [r EXCEPT !.op = "change", !.pw = user.pw, !.new = new])
        PROVE  Types'
    <3>1. user.pw \in Passwords
      BY <2>4 DEF Admit, Types, Users
    <3> QED BY Zenon, <2>2, <2>4, <3>1, WithAccessTyped, AdmitTypes DEF r
  <2>5. ASSUME NEW u \in Packages, Admit(s, [r EXCEPT !.op = "upload", !.body = u])
        PROVE  Types'
    BY Zenon, <2>2, <2>5, WithAccessTyped, AdmitTypes DEF r
  <2>6. ASSUME NEW k \in Keys, NEW v \in Offered[k], console[c].form # NoRow,
               Admit(s, [r EXCEPT !.op = "settings", !.body = [console[c].form EXCEPT ![k] = v]])
        PROVE  Types'
    <3>1. v \in Values
      BY DEF Values
    <3>2. [console[c].form EXCEPT ![k] = v] \in Settings
      BY <2>2, <2>6, <3>1 DEF Settings
    <3> QED BY Zenon, <2>2, <2>6, <3>2, WithAccessTyped, AdmitTypes DEF r
  <2> QED BY Zenon, <2>1, <2>3, <2>4, <2>5, <2>6 DEF r
<1> QED BY <1>1, <1>2, <1>3

\* A request that is at pc has read the row of the administrator.
LEMMA RowTyped ==
  ASSUME NEW r \in Requests, r.pc # "idle", NEW u \in Users
  PROVE  /\ [r EXCEPT !.pc = "issue", !.row = u] \in Requests
         /\ [r EXCEPT !.pc = "issue", !.row = u].row = u
         /\ [r EXCEPT !.pc = "issue", !.row = u].pc = "issue"
         /\ \A f \in {"op", "pw", "token", "known"} :
               [r EXCEPT !.pc = "issue", !.row = u][f] = r[f]
<1> DEFINE q == [r EXCEPT !.pc = "issue", !.row = u]
<1>1. r \in Records /\ Shape(r)
  BY DEF Requests
<1>2. q \in Records /\ q.pc = "issue" /\ q.row = u /\ q.console = r.console
  BY Zenon, <1>1 DEF Records, PCs
<1>3. \A f \in {"op", "pw", "token", "known"} : q[f] = r[f]
  BY Zenon, <1>1 DEF Records
<1> HIDE DEF q
<1>4. Shape(q)
  BY <1>1, <1>2 DEF Shape, Target
<1> QED BY <1>2, <1>3, <1>4 DEF Requests, q

\* A password change notes the tokens there are.
LEMMA KnownTyped ==
  ASSUME NEW r \in Requests, r.pc # "idle", NEW k \in SUBSET Nat
  PROVE  [r EXCEPT !.pc = "clear", !.known = k] \in Requests
<1> DEFINE q == [r EXCEPT !.pc = "clear", !.known = k]
<1>1. r \in Records /\ Shape(r)
  BY DEF Requests
<1>2. q \in Records /\ q.pc = "clear" /\ q.console = r.console
  BY Zenon, <1>1 DEF Records, PCs
<1> HIDE DEF q
<1>3. Shape(q)
  BY <1>1, <1>2 DEF Shape, Target
<1> QED BY <1>2, <1>3 DEF Requests, q

\* Revoking a token, also one that is not there.
LEMMA Revoked ==
  ASSUME NEW q \in Seq(Tokens), NEW i \in Nat
  PROVE  /\ [q EXCEPT ![i].revoked = TRUE] \in Seq(Tokens)
         /\ Len([q EXCEPT ![i].revoked = TRUE]) = Len(q)
         /\ \A j \in 1..Len(q) :
              [q EXCEPT ![i].revoked = TRUE][j].revoked <=> (j = i \/ q[j].revoked)
<1>1. DOMAIN q = 1..Len(q) /\ Len(q) \in Nat /\ \A j \in 1..Len(q) : q[j] \in Tokens
  BY ElementOfSeq, LenProperties
<1>2. CASE i \in 1..Len(q)
  <2>1. [q[i] EXCEPT !.revoked = TRUE] \in Tokens /\ [q[i] EXCEPT !.revoked = TRUE].revoked = TRUE
    BY Zenon, <1>1, <1>2 DEF Tokens
  <2> DEFINE e == [q[i] EXCEPT !.revoked = TRUE]
  <2> HIDE DEF e
  <2>2. /\ [q EXCEPT ![i] = e] \in Seq(Tokens) /\ Len([q EXCEPT ![i] = e]) = Len(q)
        /\ \A j \in 1..Len(q) : [q EXCEPT ![i] = e][j] = IF j = i THEN e ELSE q[j]
    BY <1>2, <2>1, ExceptSeq DEF e
  <2>3. [q EXCEPT ![i].revoked = TRUE] = [q EXCEPT ![i] = e]
    BY DEF e
  <2> DEFINE t == [q EXCEPT ![i] = e]
  <2> HIDE DEF t
  <2>4. ASSUME NEW j \in 1..Len(q) PROVE t[j].revoked <=> (j = i \/ q[j].revoked)
    <3>1. CASE j = i
      BY <2>1, <2>2, <3>1 DEF e, t
    <3>2. CASE j # i
      <4>1. t[j] = q[j]
        BY <2>2, <3>2 DEF t
      <4> QED BY <3>2, <4>1
    <3> QED BY <3>1, <3>2
  <2>5. [q EXCEPT ![i].revoked = TRUE] = t /\ t \in Seq(Tokens) /\ Len(t) = Len(q)
    BY <2>2, <2>3 DEF t
  <2> QED BY Zenon, <2>4, <2>5
<1>3. CASE i \notin 1..Len(q)
  <2>1. [q EXCEPT ![i].revoked = TRUE] = q
    BY <1>1, <1>3
  <2>2. \A j \in 1..Len(q) : j # i /\ q[j].revoked \in BOOLEAN
    BY <1>1, <1>3 DEF Tokens
  <2> QED BY Zenon, <2>1, <2>2
<1> QED BY Zenon, <1>2, <1>3

\* Revoking all of them.
LEMMA AllRevoked ==
  ASSUME NEW q \in Seq(Tokens)
  PROVE  LET p == [i \in DOMAIN q |-> [q[i] EXCEPT !.revoked = TRUE]]
         IN  /\ p \in Seq(Tokens) /\ Len(p) = Len(q)
             /\ \A i \in 1..Len(q) : p[i].revoked
<1>1. DOMAIN q = 1..Len(q) /\ Len(q) \in Nat /\ \A j \in 1..Len(q) : q[j] \in Tokens
  BY ElementOfSeq, LenProperties
<1>2. \A j \in 1..Len(q) :
        [q[j] EXCEPT !.revoked = TRUE] \in Tokens /\ [q[j] EXCEPT !.revoked = TRUE].revoked = TRUE
  BY Zenon, <1>1 DEF Tokens
<1> DEFINE e(i) == [q[i] EXCEPT !.revoked = TRUE]
           p == [i \in 1..Len(q) |-> e(i)]
<1>3. \A j \in 1..Len(q) : e(j) \in Tokens /\ e(j).revoked
  BY <1>2
<1> HIDE DEF e
<1>4. p \in Seq(Tokens) /\ Len(p) = Len(q) /\ \A j \in 1..Len(q) : p[j] = e(j)
  BY <1>1, <1>3, IsASeq
<1>5. p = [i \in DOMAIN q |-> [q[i] EXCEPT !.revoked = TRUE]]
  BY <1>1 DEF e
<1> HIDE DEF p
<1> QED BY <1>3, <1>4, <1>5

\* Counting a pair for a token.
LEMMA Counted ==
  ASSUME NEW q \in Seq(Nat), NEW i \in Nat
  PROVE  /\ [q EXCEPT ![i] = @ + 1] \in Seq(Nat)
         /\ Len([q EXCEPT ![i] = @ + 1]) = Len(q)
         /\ \A j \in 1..Len(q) : [q EXCEPT ![i] = @ + 1][j] = IF j = i THEN q[j] + 1 ELSE q[j]
<1>1. DOMAIN q = 1..Len(q) /\ Len(q) \in Nat /\ \A j \in 1..Len(q) : q[j] \in Nat
  BY ElementOfSeq, LenProperties
<1>2. CASE i \in 1..Len(q)
  <2>1. q[i] + 1 \in Nat
    BY <1>1, <1>2
  <2> QED BY <1>2, <2>1, ExceptSeq
<1>3. CASE i \notin 1..Len(q)
  <2>1. [q EXCEPT ![i] = @ + 1] = q
    BY <1>1, <1>3
  <2> QED BY Zenon, <1>3, <2>1
<1> QED BY <1>2, <1>3

\* The statements of login, refresh and logout.
LEMMA SessionTypes ==
  ASSUME Types, NEW s \in Slots,
         \/ CheckPassword(s) \/ IssueAdminTokenPair(s) \/ GetAdminRefreshToken(s) \/ Rotate(s)
         \/ GetAdminUserByID(s) \/ RevokeAdminRefreshToken(s) \/ RequireAdmin(s) \/ AnswerMe(s)
         \/ GetSettings(s) \/ Fail(s)
  PROVE  Types'
<1> DEFINE r == req[s]
<1>1. /\ server = "up" /\ user \in Users /\ cfg \in Settings /\ r \in Requests /\ r.pc # "idle"
      /\ r \in Records /\ Shape(r)
  <2>1. r.pc # "idle"
    BY DEF CheckPassword, IssueAdminTokenPair, GetAdminRefreshToken, Rotate, GetAdminUserByID,
           RevokeAdminRefreshToken, RequireAdmin, AnswerMe, GetSettings, Fail, At
  <2> QED BY Zenon, <2>1, BusyUp DEF Requests
<1>2. user # NoRow
  BY <1>1
<1> USE DEF rows, memory, clients, bounds, history
<1>3. CASE CheckPassword(s)
  BY Zenon, <1>1, <1>2, <1>3, RowTyped, IdleTyped, PlainStep DEF CheckPassword, End
<1>4. CASE IssueAdminTokenPair(s)
  <2>1. tokens' \in Seq(Tokens) /\ Len(tokens') = Len(tokens) + 1
    BY <1>4 DEF IssueAdminTokenPair, Types, Tokens
  <2>2. used' \in Seq(Nat) /\ Len(used') = Len(used) + 1
    <3>1. r.token \in Nat /\ used \in Seq(Nat)
      BY <1>1 DEF Types, Records
    <3> DEFINE u == IF r.op = "refresh" THEN [used EXCEPT ![r.token] = @ + 1] ELSE used
    <3>2. u \in Seq(Nat) /\ Len(u) = Len(used)
      BY Zenon, <3>1, Counted
    <3>3. used' = Append(u, 0)
      BY <1>4 DEF IssueAdminTokenPair
    <3> HIDE DEF u
    <3> QED BY <3>2, <3>3
  <2>3. console' \in [Consoles -> Held]
    <3>1. r.console \in Consoles /\ r.row.version \in Nat /\ r.pw \in Passwords \cup {NoRow}
      BY Zenon, <1>1, <1>4 DEF IssueAdminTokenPair, At, Shape, Users, Records
    <3>2. [version |-> r.row.version, pw |-> r.pw] \in Claims
      BY <3>1 DEF Claims
    <3>3. Len(tokens) + 1 \in Nat
      BY DEF Types
    <3> QED BY Zenon, <1>4, <3>1, <3>2, <3>3 DEF IssueAdminTokenPair, Types, Held
  <2> QED BY Zenon, <1>1, <1>4, <2>1, <2>2, <2>3, IdleTyped, RequestStep DEF IssueAdminTokenPair, End, Types
<1>5. CASE GetAdminRefreshToken(s)
  <2>1. \A pc \in {"logout", "rotate"} : [r EXCEPT !.pc = pc] \in Requests
    BY Zenon, <1>1, <1>5, MovedTyped DEF GetAdminRefreshToken, At, Shape, PCs
  <2> QED BY Zenon, <1>1, <1>5, <2>1, IdleTyped, PlainStep DEF GetAdminRefreshToken, End, Goto
<1>6. CASE Rotate(s)
  <2>1. [r EXCEPT !.pc = "reload"] \in Requests
    BY <1>1, <1>6, MovedTyped DEF Rotate, At, Shape, PCs
  <2>2. tokens' \in Seq(Tokens) /\ Len(tokens') = Len(tokens)
    <3>1. r.token \in Nat /\ tokens \in Seq(Tokens)
      BY <1>1 DEF Types, Records
    <3>2. tokens' = tokens \/ tokens' = [tokens EXCEPT ![r.token].revoked = TRUE]
      BY <1>6 DEF Rotate
    <3> HIDE DEF r
    <3> QED BY <3>1, <3>2, Revoked
  <2> QED BY Zenon, <1>1, <1>6, <2>1, <2>2, RequestStep DEF Rotate, Goto, Types
<1>7. CASE GetAdminUserByID(s)
  BY Zenon, <1>1, <1>2, <1>7, RowTyped, IdleTyped, PlainStep DEF GetAdminUserByID, End
<1>8. CASE RevokeAdminRefreshToken(s)
  <2>1. tokens' \in Seq(Tokens) /\ Len(tokens') = Len(tokens)
    <3>1. r.token \in Nat /\ tokens \in Seq(Tokens)
      BY <1>1 DEF Types, Records
    <3>2. tokens' = [tokens EXCEPT ![r.token].revoked = TRUE]
      BY <1>8 DEF RevokeAdminRefreshToken
    <3> HIDE DEF r
    <3> QED BY Zenon, <3>1, <3>2, Revoked
  <2>2. dead' \subseteq Nat
    BY <1>1, <1>8 DEF RevokeAdminRefreshToken, Types, Records
  <2> QED BY Zenon, <1>1, <1>8, <2>1, <2>2, IdleTyped, RequestStep DEF RevokeAdminRefreshToken, End, Types
<1>9. CASE RequireAdmin(s)
  <2>1. At(s, "auth") => [r EXCEPT !.pc = r.op] \in Requests
    <3> SUFFICES ASSUME r.pc = "auth" PROVE [r EXCEPT !.pc = r.op] \in Requests
      BY Zenon DEF At
    <3>1. r.op \in Guarded /\ Target(r) = r.op
      BY Zenon, <1>1 DEF Shape, Target
    <3> QED BY Zenon, <1>1, <3>1, MovedTyped DEF Guarded, PCs
  <2> QED BY <1>1, <1>9, <2>1, IdleTyped, PlainStep DEF RequireAdmin, End, Goto
<1>10. CASE AnswerMe(s)
  BY Zenon, <1>1, <1>10, IdleTyped, PlainStep DEF AnswerMe, End
<1>11. CASE GetSettings(s)
  <2>1. console' \in [Consoles -> Held]
    BY Zenon, <1>1, <1>11 DEF GetSettings, At, Shape, Types, Held
  <2> QED BY <1>1, <1>11, <2>1, IdleTyped, RequestStep DEF GetSettings, End, Types
<1>12. CASE Fail(s)
  BY <1>1, <1>12, IdleTyped, RequestStep DEF Fail, End, Types
<1> QED BY <1>3, <1>4, <1>5, <1>6, <1>7, <1>8, <1>9, <1>10, <1>11, <1>12

\* The statements of a password change.
LEMMA ChangeTypes ==
  ASSUME Types, NEW s \in Slots, Change(s)
  PROVE  Types'
<1> DEFINE r == req[s]
<1>1. /\ server = "up" /\ user \in Users /\ cfg \in Settings /\ r \in Requests /\ r.pc # "idle"
      /\ r \in Records /\ Shape(r)
  <2>1. r.pc # "idle"
    BY DEF Change, CheckChange, UpdateAdminPassword, ClearAdminPasswordChangeRequired,
           RevokeAfterChange, At
  <2> QED BY <2>1, BusyUp DEF Requests
<1> USE DEF rows, memory, clients, bounds, history
<1>2. CASE CheckChange(s)
  <2>1. [r EXCEPT !.pc = "update"] \in Requests
    <3>1. Target(r) = "change"
      BY <1>2 DEF CheckChange, At, Target
    <3> QED BY <1>1, <3>1, MovedTyped DEF PCs
  <2> QED BY <1>1, <1>2, <2>1, IdleTyped, PlainStep DEF CheckChange, End, Goto
<1>3. CASE UpdateAdminPassword(s)
  <2>1. r.new \in Passwords
    BY <1>1, <1>3 DEF UpdateAdminPassword, At, Shape, Target
  <2>2. user' \in Users
    <3>1. ASSUME NEW n \in Nat \ {0} PROVE [user EXCEPT !.pw = r.new, !.version = n] \in Users
      BY Zenon, <1>1, <2>1 DEF Users
    <3>2. user.version + 1 \in Nat \ {0}
      BY <1>1 DEF Users
    <3> HIDE DEF r
    <3> QED BY Zenon, <1>3, <3>1, <3>2 DEF UpdateAdminPassword, r
  <2>3. DOMAIN tokens \in SUBSET Nat
    BY DEF Types
  <2> QED BY Zenon, <1>1, <1>3, <2>2, <2>3, KnownTyped, RequestStep DEF UpdateAdminPassword, Types
<1>4. CASE ClearAdminPasswordChangeRequired(s)
  <2>1. [r EXCEPT !.pc = "revoke"] \in Requests
    BY <1>1, MovedTyped DEF PCs
  <2>2. user' \in Users
    BY Zenon, <1>1, <1>4 DEF ClearAdminPasswordChangeRequired, Users
  <2> QED BY Zenon, <1>1, <1>4, <2>1, <2>2, RequestStep DEF ClearAdminPasswordChangeRequired, Goto, Types
<1>5. CASE RevokeAfterChange(s)
  <2>1. tokens' \in Seq(Tokens) /\ Len(tokens') = Len(tokens)
    BY Zenon, <1>5, AllRevoked DEF RevokeAfterChange, Types, RevokeAdminRefreshTokensByUser
  <2>2. dead' \subseteq Nat
    BY Zenon, <1>1, <1>5 DEF RevokeAfterChange, Types, Records
  <2> QED BY Zenon, <1>1, <1>5, <2>1, <2>2, IdleTyped, RequestStep DEF RevokeAfterChange, End, Types
<1> QED BY <1>2, <1>3, <1>4, <1>5 DEF Change

\* The settings of an upload.
LEMMA UploadTyped ==
  ASSUME NEW u \in Packages
  PROVE  /\ DOMAIN UploadSettings(u) = {"url", "file", "sha"} /\ UploadSettings(u) \in Partial
         /\ UploadSettings(u)["sha"] = u /\ UploadSettings(u)["file"] = u
<1>1. UploadSettings(u) = [k \in {"url", "file", "sha"} |-> IF k = "url" THEN Empty ELSE u]
  BY DEF UploadSettings
<1>2. u \in Values /\ Empty \in Values
  BY DEF Values
<1>3. UploadSettings(u) \in [{"url", "file", "sha"} -> Values]
  BY <1>1, <1>2
<1>4. {"url", "file", "sha"} \in SUBSET Keys
  OBVIOUS
<1> HIDE DEF UploadSettings
<1>5. UploadSettings(u) \in Partial
  BY <1>3, <1>4 DEF Partial
<1> QED BY <1>1, <1>5

\* The memory with a body taken over.
Taken(c, b) == [k \in Keys |-> IF k \in DOMAIN b THEN b[k] ELSE c[k]]

\* Settings taken into the memory are settings.
LEMMA MemoryTyped ==
  ASSUME NEW c \in Settings, NEW b \in Partial
  PROVE  Taken(c, b) \in Settings /\ DOMAIN b \in SUBSET Keys
<1>1. PICK K \in SUBSET Keys : b \in [K -> Values]
  BY DEF Partial
<1> QED BY <1>1 DEF Settings, Taken

\* A request that begins to write its keys.
LEMMA SavingTyped ==
  ASSUME NEW r \in Requests, r.pc # "idle", NEW b \in Partial, NEW K \in SUBSET Keys, K # {}, K \subseteq DOMAIN b,
         NEW a \in BOOLEAN
  PROVE  [r EXCEPT !.pc = "save", !.body = b, !.left = K, !.alone = a] \in Requests
<1> DEFINE q == [r EXCEPT !.pc = "save", !.body = b, !.left = K, !.alone = a]
<1>1. r \in Records /\ Shape(r) /\ b \in Bodies
  BY DEF Requests, Bodies
<1>2. q \in Records /\ q.pc = "save" /\ q.body = b /\ q.left = K /\ q.console = r.console
  BY Zenon, <1>1 DEF Records, PCs
<1> HIDE DEF q
<1>3. Shape(q)
  BY <1>1, <1>2 DEF Shape, Target
<1> QED BY <1>2, <1>3 DEF Requests, q

\* A save that another one has overlapped.
LEMMA NotAloneTyped ==
  ASSUME NEW r \in Requests
  PROVE  [r EXCEPT !.alone = FALSE] \in Requests
<1> DEFINE q == [r EXCEPT !.alone = FALSE]
<1>1. r \in Records /\ Shape(r)
  BY DEF Requests
<1>2. q \in Records /\ q.pc = r.pc /\ q.op = r.op /\ q.body = r.body /\ q.left = r.left /\ q.console = r.console
      /\ q.claims = r.claims /\ q.row = r.row /\ q.new = r.new
  BY Zenon, <1>1 DEF Records
<1> HIDE DEF q
<1>3. Shape(q)
  BY <1>1, <1>2 DEF Shape, Target
<1> QED BY <1>2, <1>3 DEF Requests, q

\* A save with fewer keys left.
LEMMA LeftTyped ==
  ASSUME NEW r \in Requests, r.pc = "save", NEW K \in SUBSET Keys, K # {}, K \subseteq r.left
  PROVE  [r EXCEPT !.left = K] \in Requests
<1> DEFINE q == [r EXCEPT !.left = K]
<1>1. r \in Records /\ Shape(r)
  BY DEF Requests
<1>2. q \in Records /\ q.pc = r.pc /\ q.op = r.op /\ q.body = r.body /\ q.left = K /\ q.console = r.console
      /\ q.claims = r.claims /\ q.row = r.row /\ q.new = r.new
  BY <1>1 DEF Records
<1> HIDE DEF q
<1>3. Shape(q)
  BY <1>1, <1>2 DEF Shape, Target
<1> QED BY <1>2, <1>3 DEF Requests, q

\* applySystemSettingsLocked of a PATCH or an upload.
LEMMA MemoryTypes ==
  ASSUME Types, NEW s \in Slots, req[s].pc # "idle", NEW b \in Partial, DOMAIN b # {},
         ApplyInMemory(s, b),
         UNCHANGED <<user, tokens, used, stored, console, dead, server, left, split>>
  PROVE  Types'
<1>1. /\ server = "up" /\ user \in Users /\ cfg \in Settings /\ req \in [Slots -> Requests]
  BY BusyUp DEF Types
<1>2. cfg' \in Settings /\ DOMAIN b \in SUBSET Keys
  BY Zenon, <1>1, MemoryTyped DEF ApplyInMemory, Taken
<1>3. req' \in [Slots -> Requests]
  <2> DEFINE others == {t \in Slots \ {s} : Saving(t)}
             new(t) == IF t = s THEN [req[t] EXCEPT !.pc = "save", !.body = b, !.left = DOMAIN b,
                                          !.alone = others = {}]
                       ELSE IF t \in others THEN [req[t] EXCEPT !.alone = FALSE] ELSE req[t]
  <2>1. req' = [t \in Slots |-> new(t)]
    BY Zenon DEF ApplyInMemory
  <2>2. ASSUME NEW t \in Slots PROVE new(t) \in Requests
    <3>1. ASSUME NEW a \in BOOLEAN
          PROVE [req[s] EXCEPT !.pc = "save", !.body = b, !.left = DOMAIN b, !.alone = a] \in Requests
      BY Zenon, <1>1, <1>2, SavingTyped
    <3>2. [req[t] EXCEPT !.alone = FALSE] \in Requests /\ req[t] \in Requests
      BY <1>1, NotAloneTyped
    <3>3. (others = {}) \in BOOLEAN
      OBVIOUS
    <3> HIDE DEF others
    <3>4. CASE t = s
      BY Zenon, <3>1, <3>3, <3>4
    <3>5. CASE t # s
      BY <3>2, <3>5
    <3> QED BY <3>4, <3>5
  <2> HIDE DEF new
  <2> QED BY <2>1, <2>2
<1>4. torn' \in BOOLEAN
  BY Zenon DEF ApplyInMemory, Types
<1> QED BY <1>1, <1>2, <1>3, <1>4 DEF Types

\* The text that a value is stored as.
LEMMA TextTyped ==
  ASSUME NEW v \in Values
  PROVE  Text(v) \in Texts
BY DEF Text, Texts

\* The statements of a PATCH of the settings and of an upload.
LEMMA SaveTypes ==
  ASSUME Types, NEW s \in Slots, Save(s)
  PROVE  Types'
<1> DEFINE r == req[s]
<1>1. /\ server = "up" /\ user \in Users /\ cfg \in Settings /\ r \in Requests /\ r.pc # "idle"
      /\ r \in Records /\ Shape(r)
  <2>1. r.pc # "idle"
    BY DEF Save, PatchSettings, SaveSetting, CreateFile, CopyFile, PersistReleaseUpload, Saving, At
  <2> QED BY <2>1, BusyUp DEF Requests
<1> USE DEF rows, memory, clients, bounds, history
<1>2. CASE PatchSettings(s)
  <2>1. r.body \in Settings /\ r.body \in Partial /\ DOMAIN r.body # {}
    <3>1. r.body \in Settings
      BY <1>1, <1>2 DEF PatchSettings, At, Shape, Target
    <3> QED BY <3>1 DEF Settings, Partial
  <2>2. CASE TooShort(r.body)
    BY Zenon, <1>1, <1>2, <2>2, IdleTyped, PlainStep DEF PatchSettings, End
  <2>3. CASE ~TooShort(r.body)
    BY <1>1, <1>2, <2>1, <2>3, MemoryTypes DEF PatchSettings
  <2> QED BY <2>2, <2>3
<1>3. CASE PersistReleaseUpload(s)
  <2>1. r.body \in Packages
    BY <1>1, <1>3 DEF PersistReleaseUpload, At, Shape, Target
  <2>2. UploadSettings(r.body) \in Partial /\ DOMAIN UploadSettings(r.body) # {}
    BY <2>1, UploadTyped
  <2> QED BY <1>1, <1>3, <2>2, MemoryTypes DEF PersistReleaseUpload
<1>4. CASE CreateFile(s)
  <2>1. At(s, "upload") => [r EXCEPT !.pc = "copy"] \in Requests
    BY <1>1, MovedTyped DEF At, Target, PCs
  <2> QED BY <1>1, <1>4, <2>1, IdleTyped, PlainStep DEF CreateFile, End, Goto
<1>5. CASE CopyFile(s)
  <2>1. At(s, "copy") => [r EXCEPT !.pc = "persist"] \in Requests
    BY <1>1, MovedTyped DEF At, Target, PCs
  <2> QED BY <1>1, <1>5, <2>1, IdleTyped, PlainStep DEF CopyFile, End, Goto
<1>6. CASE SaveSetting(s)
  <2>1. r.pc = "save" /\ r.body \in Partial /\ r.left \subseteq DOMAIN r.body /\ r.left \subseteq Keys
    BY <1>1, <1>6 DEF SaveSetting, Saving, At, Shape, Records
  <2>2. PICK k \in r.left :
         /\ PutSystemSetting(k, r.body[k])
         /\ IF r.left # {k}
            THEN SetReq(s, [r EXCEPT !.left = r.left \ {k}]) /\ UNCHANGED torn
            ELSE /\ End(s)
                 /\ torn' = (torn /\ ~(r.alone /\ DOMAIN r.body = Keys))
    BY Zenon, <1>6 DEF SaveSetting
  <2>3. r.body[k] \in Values
    BY <2>1, <2>2 DEF Partial
  <2>4. stored' \in [Keys -> Texts]
    BY <2>1, <2>2, <2>3, TextTyped DEF PutSystemSetting, Types
  <2>5. torn' \in BOOLEAN
    BY Zenon, <2>2 DEF Types
  <2>6. CASE r.left # {k}
    <3>1. [r EXCEPT !.left = r.left \ {k}] \in Requests
      BY Zenon, <1>1, <2>1, <2>2, <2>6, LeftTyped
    <3> QED BY <1>1, <1>6, <2>2, <2>4, <2>5, <2>6, <3>1, RequestStep DEF SaveSetting, Types
  <2>7. CASE r.left = {k}
    BY <1>1, <1>6, <2>2, <2>4, <2>5, <2>7, IdleTyped, RequestStep DEF SaveSetting, Types, End
  <2> QED BY <2>6, <2>7
<1> QED BY <1>2, <1>3, <1>4, <1>5, <1>6 DEF Save

\* The start of the server, its crash, the expiry of tokens, and the clients.
LEMMA ServerTypes ==
  ASSUME Types,
         \/ StartServer \/ EnsureDefaultSettings \/ ApplySystemSettings \/ StartFails \/ Crash
         \/ \E i \in DOMAIN tokens : TokenExpires(i)
         \/ FetchReleaseInfo \/ DownloadReleaseInstaller \/ LaunchUpdater
  PROVE  Types'
<1> USE DEF rows, memory, clients, bounds, history
<1>1. CASE StartServer
  <2>1. [pw |-> Initial, version |-> 1, force |-> TRUE] \in Users
    BY DEF Users
  <2>2. user' \in Users
    BY Zenon, <1>1, <2>1 DEF StartServer, EnsureAdminUser, UpsertAdminUser, Types
  <2> QED BY <1>1, <2>2 DEF StartServer, Types
<1>2. CASE EnsureDefaultSettings
  <2>1. ASSUME NEW k \in Keys PROVE DefaultText(k) \in Texts
    <3>1. Defaults[k] \in Values /\ stored[k] \in Texts
      BY DEF Values, Types
    <3>2. Legacies[k] # Empty => Legacies[k] \in Texts
      BY LegacyAssumption DEF Texts, Values
    <3> QED BY <3>1, <3>2, TextTyped DEF DefaultText
  <2> QED BY <1>2, <2>1 DEF EnsureDefaultSettings, Types
<1>3. CASE ApplySystemSettings
  <2>1. ASSUME NEW k \in Keys
        PROVE  (IF stored[k] = Empty /\ Kind[k] # "string" THEN Defaults[k] ELSE Value(stored[k])) \in Values
    <3>1. Defaults[k] \in Values /\ Empty \in Values
      BY DEF Values
    <3>2. stored[k] # Empty => \E v \in Values : stored[k] = <<v>>
      BY DEF Types, Texts
    <3> QED BY <3>1, <3>2 DEF Value
  <2>2. cfg' \in Settings
    BY <1>3, <2>1 DEF ApplySystemSettings, Settings
  <2> QED BY Zenon, <1>3, <2>2 DEF ApplySystemSettings, Types
<1>4. CASE StartFails
  BY Zenon, <1>4 DEF StartFails, Types
<1>5. CASE Crash
  BY <1>5, IdleTyped DEF Crash, Types
<1>6. ASSUME NEW i \in DOMAIN tokens, TokenExpires(i) PROVE Types'
  <2>1. tokens \in Seq(Tokens)
    BY DEF Types
  <2>2. i \in 1..Len(tokens) /\ tokens[i] \in Tokens
    BY <2>1
  <2>3. [tokens[i] EXCEPT !.expired = TRUE] \in Tokens
    BY Zenon, <2>2 DEF Tokens
  <2>4. tokens' \in Seq(Tokens) /\ Len(tokens') = Len(tokens)
    BY <1>6, <2>1, <2>2, <2>3, ExceptSeq DEF TokenExpires
  <2> QED BY <1>6, <2>4 DEF TokenExpires, Types
<1>7. CASE FetchReleaseInfo \/ DownloadReleaseInstaller \/ LaunchUpdater
  BY <1>7 DEF FetchReleaseInfo, DownloadReleaseInstaller, LaunchUpdater, Types
<1> QED BY <1>1, <1>2, <1>3, <1>4, <1>5, <1>6, <1>7

\* The types hold before the first start.
LEMMA InitTypes == Init => Types
<1> SUFFICES ASSUME Init PROVE Types
  OBVIOUS
<1>1. user \in Users \cup {NoRow} /\ torn \in BOOLEAN /\ split \in BOOLEAN /\ dead \subseteq Nat
  BY Zenon DEF Init
<1>2. tokens \in Seq(Tokens) /\ used \in Seq(Nat) /\ Len(used) = Len(tokens)
  BY DEF Init
<1>3. stored \in [Keys -> Texts]
  BY DEF Init, Texts
<1>4. req \in [Slots -> Requests] /\ \A s \in Slots : req[s] = Idle
  BY IdleTyped DEF Init
<1>5. console \in [Consoles -> Held]
  BY DEF Init, Held
<1>6. server = "down" /\ left \subseteq Keys
  BY DEF Init
<1> QED BY <1>1, <1>2, <1>3, <1>4, <1>5, <1>6 DEF Types

\* Every step keeps the types.
LEMMA TypesStep == Types /\ [Next]_vars => Types'
<1> SUFFICES ASSUME Types, [Next]_vars PROVE Types'
  OBVIOUS
<1>1. CASE UNCHANGED vars
  BY <1>1 DEF vars, rows, memory, clients, bounds, history, Types
<1>2. ASSUME NEW s \in Slots, Session(s) \/ Change(s) \/ Save(s) PROVE Types'
  BY <1>2, NewRequestTypes, SessionTypes, ChangeTypes, SaveTypes DEF Session
<1> QED BY <1>1, <1>2, ServerTypes DEF Next

\* The tables, the settings and the requests keep their types, and a request holds what its
\* next statement reads, for any number of requests, tokens, faults and crashes.
THEOREM TypeCorrect == Spec => []Types
BY InitTypes, TypesStep, PTL DEF Spec

=============================================================================
