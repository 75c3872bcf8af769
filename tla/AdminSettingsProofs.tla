------------------------ MODULE AdminSettingsProofs -------------------------
(***************************************************************************)
(* The settings in memory and in their rows, and the releases they name.   *)
(***************************************************************************)
EXTENDS AdminControlProofs

(* Settings *)

\* A save that has been alone since it began: nobody else saves, the memory holds its
\* values, and the keys it has written hold their texts.
AloneInv ==
  \A s \in Slots : Saving(s) /\ req[s].alone =>
    /\ \A t \in Slots : Saving(t) => t = s
    /\ \A k \in DOMAIN req[s].body :
         cfg[k] = req[s].body[k] /\ (k \in req[s].left \/ stored[k] = Text(cfg[k]))

\* Unless the rows are torn, only a save that is alone may have keys left to write.
TidyInv ==
  server = "up" /\ ~torn =>
    /\ \A s \in Slots : Saving(s) => req[s].alone
    /\ \A k \in Keys : stored[k] = Text(cfg[k]) \/ \E s \in Slots : Saving(s) /\ k \in req[s].left

\* A start has given each key that it has passed a text, if there is one.
StartInv ==
  /\ server \in {"defaults", "apply"} =>
       \A k \in Keys : k \in left \/ stored[k] # Empty \/ Defaults[k] = Empty
  /\ server = "apply" => left = {}

\* While the server is away, the rows hold what it had in memory.
BeforeInv ==
  server # "up" /\ before # NoRow =>
    \A k \in Keys : before[k] # Empty => stored[k] # Empty /\ stored[k] = Text(before[k])

SettingsInv == AloneInv /\ TidyInv /\ StartInv /\ BeforeInv

\* Reading the text of a value gives it back.
LEMMA TextValue ==
  /\ \A v \in Values : Value(Text(v)) = v /\ (Text(v) = Empty => v = Empty)
  /\ \A t \in Texts : Text(Value(t)) = t
<1>1. ASSUME NEW v \in Values \ {Empty} PROVE <<v>> # Empty
  BY TextAssumption, LegacyAssumption DEF Values
<1>2. \A v \in Values : Value(Text(v)) = v /\ (Text(v) = Empty => v = Empty)
  BY <1>1 DEF Text, Value
<1>3. ASSUME NEW t \in Texts PROVE Text(Value(t)) = t
  <2>1. CASE t = Empty
    BY <2>1 DEF Text, Value
  <2>2. CASE t # Empty
    <3>1. PICK v \in Values \ {Empty} : t = <<v>>
      BY <2>2 DEF Texts
    <3> QED BY <2>2, <3>1 DEF Text, Value
  <2> QED BY <2>1, <2>2
<1> QED BY Zenon, <1>2, <1>3

\* As far as saves go, the request is what it was.
SameSave(q, r) ==
  /\ q.pc = "save" <=> r.pc = "save"
  /\ r.pc = "save" => q.body = r.body /\ q.left = r.left /\ q.alone = r.alone

\* A step that neither begins, moves nor ends a save, nor touches a setting.
LEMMA UnsavedStep ==
  ASSUME SettingsInv, UNCHANGED <<stored, cfg, server, left, torn, before>>,
         \A t \in Slots : SameSave(req'[t], req[t])
  PROVE  SettingsInv'
<1>1. AloneInv'
  BY Zenon DEF SettingsInv, AloneInv, Saving, At, SameSave
<1>2. TidyInv'
  BY Zenon DEF SettingsInv, TidyInv, Saving, At, SameSave
<1>3. StartInv' /\ BeforeInv'
  BY Zenon DEF SettingsInv, StartInv, BeforeInv
<1> QED BY Zenon, <1>1, <1>2, <1>3 DEF SettingsInv

\* What the statement of a request does to its slot, when it is none of a save.
LEMMA UnsavedSlot ==
  ASSUME Types, NEW s \in Slots, req[s].pc # "save",
         Session(s) \/ Change(s) \/ CreateFile(s) \/ CopyFile(s)
  PROVE  req'[s].pc # "save"
<1> DEFINE r == req[s]
<1>1. ASSUME NEW q, SetReq(s, q), q.pc # "save" PROVE req'[s].pc # "save"
  BY Zenon, <1>1 DEF SetReq, Types
<1>2. r \in Records /\ Idle.pc # "save"
  BY DEF Types, Requests, Idle
<1>3. ASSUME NEW pc, pc # "save", Goto(s, pc) PROVE req'[s].pc # "save"
  <2>1. [r EXCEPT !.pc = pc].pc = pc
    BY Zenon, <1>2 DEF Records
  <2> QED BY Zenon, <1>1, <1>3, <2>1 DEF Goto
<1>4. ASSUME End(s) PROVE req'[s].pc # "save"
  BY Zenon, <1>1, <1>2, <1>4 DEF End
<1>5. CASE Login(s) \/ WithRefresh(s) \/ WithAccess(s)
  <2>1. ASSUME NEW q, Admit(s, q), q.pc # "save" PROVE req'[s].pc # "save"
    BY <1>1, <2>1 DEF Admit
  <2>2. \A c, pw : [Idle EXCEPT !.op = "login", !.pc = "find", !.console = c, !.pw = pw].pc # "save"
    BY DEF Idle
  <2>3. ASSUME NEW c, NEW i, NEW d
        PROVE  LET q == [Idle EXCEPT !.console = c, !.token = i, !.known = d]
               IN  /\ [q EXCEPT !.op = "refresh", !.pc = "token"].pc # "save"
                   /\ [q EXCEPT !.op = "logout", !.pc = "logout"].pc # "save"
    BY DEF Idle
  <2>4. ASSUME NEW c, NEW a
        PROVE  LET q == [Idle EXCEPT !.console = c, !.pc = "auth", !.claims = a]
               IN  /\ [q EXCEPT !.op = "me"].pc # "save" /\ [q EXCEPT !.op = "get"].pc # "save"
                   /\ \A p, n : [q EXCEPT !.op = "change", !.pw = p, !.new = n].pc # "save"
                   /\ \A b : [q EXCEPT !.op = "upload", !.body = b].pc # "save"
                   /\ \A b : [q EXCEPT !.op = "settings", !.body = b].pc # "save"
    BY DEF Idle
  <2>5. CASE Login(s)
    BY Zenon, <2>1, <2>2, <2>5 DEF Login
  <2>6. CASE WithRefresh(s)
    <3>1. PICK c \in Consoles :
            LET q == [Idle EXCEPT !.console = c, !.token = console[c].refresh, !.known = dead]
            IN \/ Admit(s, [q EXCEPT !.op = "refresh", !.pc = "token"])
               \/ Admit(s, [q EXCEPT !.op = "logout", !.pc = "logout"])
      BY Zenon, <2>6 DEF WithRefresh
    <3> DEFINE q1 == [[Idle EXCEPT !.console = c, !.token = console[c].refresh, !.known = dead]
                        EXCEPT !.op = "refresh", !.pc = "token"]
               q2 == [[Idle EXCEPT !.console = c, !.token = console[c].refresh, !.known = dead]
                        EXCEPT !.op = "logout", !.pc = "logout"]
    <3>2. q1.pc # "save" /\ q2.pc # "save"
      BY <2>3
    <3>3. Admit(s, q1) \/ Admit(s, q2)
      BY <3>1
    <3> HIDE DEF q1, q2
    <3> QED BY <2>1, <3>2, <3>3
  <2>7. CASE WithAccess(s)
    <3>1. PICK c \in Consoles :
            LET q == Behind(c, console[c].access)
            IN \/ Admit(s, [q EXCEPT !.op = "me"])
               \/ \E new \in Passwords : Admit(s, [q EXCEPT !.op = "change", !.pw = user.pw, !.new = new])
               \/ Admit(s, [q EXCEPT !.op = "get"])
               \/ \E u \in Packages : Admit(s, [q EXCEPT !.op = "upload", !.body = u])
               \/ \E k \in Keys : \E v \in Offered[k] :
                    Admit(s, [q EXCEPT !.op = "settings", !.body = [console[c].form EXCEPT ![k] = v]])
      BY Zenon, <2>7 DEF WithAccess, Behind
    <3> DEFINE q == Behind(c, console[c].access)
    <3>2. /\ [q EXCEPT !.op = "me"].pc # "save" /\ [q EXCEPT !.op = "get"].pc # "save"
          /\ \A p, n : [q EXCEPT !.op = "change", !.pw = p, !.new = n].pc # "save"
          /\ \A b : [q EXCEPT !.op = "upload", !.body = b].pc # "save"
          /\ \A b : [q EXCEPT !.op = "settings", !.body = b].pc # "save"
      BY <2>4 DEF Behind
    <3> HIDE DEF q
    <3> QED BY Zenon, <2>1, <3>1, <3>2 DEF q
  <2> QED BY Zenon, <1>5, <2>5, <2>6, <2>7
<1>6. CASE CheckPassword(s) \/ GetAdminUserByID(s)
  <2>1. [r EXCEPT !.pc = "issue", !.row = user].pc # "save"
    BY Zenon, <1>2 DEF Records
  <2> QED BY Zenon, <1>1, <1>4, <1>6, <2>1 DEF CheckPassword, GetAdminUserByID
<1>7. CASE RequireAdmin(s)
  <2>1. r.op # "save"
    BY Zenon, <1>2 DEF Records, Ops, Guarded
  <2> QED BY Zenon, <1>3, <1>4, <1>7, <2>1 DEF RequireAdmin
<1>8. CASE \/ IssueAdminTokenPair(s) \/ GetAdminRefreshToken(s) \/ Rotate(s)
           \/ RevokeAdminRefreshToken(s) \/ AnswerMe(s) \/ GetSettings(s) \/ Fail(s)
  BY <1>3, <1>4, <1>8 DEF IssueAdminTokenPair, GetAdminRefreshToken, Rotate,
                          RevokeAdminRefreshToken, AnswerMe, GetSettings, Fail
<1>9. CASE Change(s)
  <2>1. [r EXCEPT !.pc = "clear", !.known = DOMAIN tokens].pc # "save"
    BY Zenon, <1>2 DEF Records
  <2> QED BY Zenon, <1>1, <1>3, <1>4, <1>9, <2>1
          DEF Change, CheckChange, UpdateAdminPassword, ClearAdminPasswordChangeRequired,
              RevokeAfterChange
<1>10. CASE CreateFile(s) \/ CopyFile(s)
  BY <1>3, <1>4, <1>10 DEF CreateFile, CopyFile
<1> QED BY Zenon, <1>5, <1>6, <1>7, <1>8, <1>9, <1>10 DEF Session

\* The requests that save nothing.
LEMMA UnsavedSettings ==
  ASSUME Types, SettingsInv, NEW s \in Slots, req[s].pc # "save",
         Session(s) \/ Change(s) \/ CreateFile(s) \/ CopyFile(s)
  PROVE  SettingsInv'
<1>1. \A t \in Slots : t # s => req'[t] = req[t]
  BY Zenon DEF Session, Change, Login, WithRefresh, WithAccess, CheckPassword, IssueAdminTokenPair,
         GetAdminRefreshToken, Rotate, GetAdminUserByID, RevokeAdminRefreshToken, RequireAdmin,
         AnswerMe, GetSettings, Fail, Admit, CheckChange, UpdateAdminPassword,
         ClearAdminPasswordChangeRequired, RevokeAfterChange, CreateFile, CopyFile,
         End, Goto, SetReq, Types
<1>2. UNCHANGED <<stored, cfg, server, left, torn, before>>
  <2>1. CASE Fail(s)
    BY Zenon, <2>1 DEF Fail, Saving, At, rows, memory, Types
  <2>2. CASE Session(s) /\ ~Fail(s)
    BY Zenon, <2>2 DEF Session, Login, WithRefresh, WithAccess, CheckPassword, IssueAdminTokenPair,
           GetAdminRefreshToken, Rotate, GetAdminUserByID, RevokeAdminRefreshToken, RequireAdmin,
           AnswerMe, GetSettings, Admit, rows, memory, history
  <2>3. CASE Change(s) \/ CreateFile(s) \/ CopyFile(s)
    BY <2>3 DEF Change, CheckChange, UpdateAdminPassword, ClearAdminPasswordChangeRequired,
           RevokeAfterChange, CreateFile, CopyFile, rows, memory, history
  <2> QED BY <2>1, <2>2, <2>3
<1>3. req'[s].pc # "save"
  BY UnsavedSlot
<1>4. \A t \in Slots : SameSave(req'[t], req[t])
  BY <1>1, <1>3 DEF SameSave
<1> QED BY Zenon, <1>2, <1>4, UnsavedStep

\* A save that begins: whoever saves already is not alone any more, and nor is it.
LEMMA BeginSettings ==
  ASSUME Types, SettingsInv, NEW s \in Slots, req[s].pc \notin {"idle", "save"}, NEW b \in Partial,
         ApplyInMemory(s, b), UNCHANGED <<stored, server, left, before>>
  PROVE  SettingsInv'
<1> DEFINE others == {t \in Slots \ {s} : Saving(t)}
           q == [req[s] EXCEPT !.pc = "save", !.body = b, !.left = DOMAIN b, !.alone = others = {}]
<1>1. server = "up" /\ cfg \in Settings /\ req \in [Slots -> Records] /\ DOMAIN b \subseteq Keys
  BY BusyUp DEF Types, Requests, Partial
<1>2. \A k \in Keys : cfg'[k] = IF k \in DOMAIN b THEN b[k] ELSE cfg[k]
  BY Zenon DEF ApplyInMemory
<1>3. \A t \in Slots : req'[t] = IF t = s THEN q
                                ELSE IF t \in others THEN [req[t] EXCEPT !.alone = FALSE] ELSE req[t]
  BY Zenon DEF ApplyInMemory
<1>4. torn' = (torn \/ others # {})
  BY Zenon DEF ApplyInMemory
<1>5. q.pc = "save" /\ q.body = b /\ q.left = DOMAIN b /\ (q.alone <=> others = {})
  <2>1. ASSUME NEW a
        PROVE  LET p == [req[s] EXCEPT !.pc = "save", !.body = b, !.left = DOMAIN b, !.alone = a]
               IN  p.pc = "save" /\ p.body = b /\ p.left = DOMAIN b /\ p.alone = a
    BY <1>1 DEF Records
  <2> QED BY Zenon, <2>1
<1> HIDE DEF q
<1>6. \A t \in Slots \ {s} :
        /\ Saving(t)' <=> t \in others
        /\ t \in others => req'[t].alone = FALSE
  <2> SUFFICES ASSUME NEW t \in Slots \ {s}
               PROVE  (Saving(t)' <=> t \in others) /\ (t \in others => req'[t].alone = FALSE)
    BY Zenon
  <2>1. CASE t \in others
    <3>1. req'[t] = [req[t] EXCEPT !.alone = FALSE] /\ req[t] \in Records /\ req[t].pc = "save"
      BY <1>1, <1>3, <2>1 DEF Saving, At
    <3>2. req'[t].pc = "save" /\ req'[t].alone = FALSE
      BY <3>1 DEF Records
    <3> QED BY <2>1, <3>2 DEF Saving, At
  <2>2. CASE t \notin others
    BY Zenon, <1>3, <2>2 DEF Saving, At
  <2> QED BY Zenon, <2>1, <2>2
<1>7. Saving(s)' /\ req'[s] = q
  BY Zenon, <1>3, <1>5 DEF Saving, At
<1> HIDE DEF others
<1>8. AloneInv'
  <2> SUFFICES ASSUME NEW t \in Slots, Saving(t)', req'[t].alone
               PROVE  /\ \A u \in Slots : Saving(u)' => u = t
                      /\ \A k \in DOMAIN req'[t].body :
                           /\ cfg'[k] = req'[t].body[k]
                           /\ k \in req'[t].left \/ stored'[k] = Text(cfg'[k])
    BY DEF AloneInv, Text
  <2>1. t = s /\ others = {}
    BY <1>5, <1>6, <1>7
  <2> QED BY <1>1, <1>2, <1>5, <1>6, <1>7, <2>1
<1>9. TidyInv'
  <2> SUFFICES ASSUME ~torn'
               PROVE  /\ \A t \in Slots : Saving(t)' => req'[t].alone
                      /\ \A k \in Keys : stored'[k] = Text(cfg'[k])
                                         \/ \E t \in Slots : Saving(t)' /\ k \in req'[t].left
    BY DEF TidyInv, Text
  <2>1. ~torn /\ others = {}
    BY Zenon, <1>4
  <2>2. \A t \in Slots : Saving(t)' => req'[t].alone
    BY <1>5, <1>6, <1>7, <2>1
  <2>3. ASSUME NEW k \in Keys, k \notin DOMAIN b PROVE stored'[k] = Text(cfg'[k])
    <3>1. \A t \in Slots : ~Saving(t)
      BY <2>1 DEF others, Saving, At
    <3>2. stored[k] = Text(cfg[k])
      BY <1>1, <2>1, <3>1 DEF SettingsInv, TidyInv
    <3> QED BY <1>2, <2>3, <3>2
  <2>4. \A k \in DOMAIN b : Saving(s)' /\ k \in req'[s].left
    BY <1>5, <1>7
  <2> QED BY <2>2, <2>3, <2>4
<1>10. StartInv' /\ BeforeInv'
  BY <1>1 DEF StartInv, BeforeInv
<1> QED BY <1>8, <1>9, <1>10 DEF SettingsInv

\* A key that is written; with the last one the save ends.
LEMMA WriteSettings ==
  ASSUME Types, SettingsInv, NEW s \in Slots, SaveSetting(s)
  PROVE  SettingsInv'
<1> DEFINE r == req[s]
<1>1. /\ r.pc = "save" /\ r \in Records /\ r.left \subseteq DOMAIN r.body /\ r.left \subseteq Keys
      /\ r.body \in Partial /\ server = "up" /\ r \in Requests
  <2>1. r.pc = "save"
    BY DEF SaveSetting, Saving, At
  <2> QED BY <2>1, BusyUp DEF Requests, Shape, Records
<1>2. UNCHANGED <<cfg, server, left, before>>
  BY DEF SaveSetting, memory
<1>3. PICK k \in r.left :
        /\ PutSystemSetting(k, r.body[k])
        /\ IF r.left # {k}
           THEN SetReq(s, [r EXCEPT !.left = r.left \ {k}]) /\ UNCHANGED torn
           ELSE /\ End(s)
                /\ torn' = (torn /\ ~(r.alone /\ DOMAIN r.body = Keys))
  BY Zenon DEF SaveSetting
<1>4. /\ stored'[k] = Text(r.body[k])
      /\ \A j \in Keys : j # k => stored'[j] = stored[j]
  BY <1>1, <1>3 DEF PutSystemSetting, Types
<1>5. \A t \in Slots : t # s => req'[t] = req[t]
  BY Zenon, <1>3 DEF SetReq, End, Types
<1>6. r.alone => /\ \A t \in Slots : Saving(t) => t = s
                 /\ \A j \in DOMAIN r.body : cfg[j] = r.body[j]
                 /\ \A j \in DOMAIN r.body : j \in r.left \/ stored[j] = Text(cfg[j])
  BY <1>1 DEF SettingsInv, AloneInv, Saving, At
<1>7. \A t \in Slots : t # s /\ Saving(t) => ~req[t].alone
  BY Zenon, <1>1 DEF SettingsInv, AloneInv, Saving, At
<1>8. ~torn => /\ r.alone
               /\ \A j \in Keys : stored[j] = Text(cfg[j]) \/ j \in r.left
  <2> SUFFICES ASSUME ~torn
               PROVE  r.alone /\ \A j \in Keys : stored[j] = Text(cfg[j]) \/ j \in r.left
    OBVIOUS
  <2>1. r.alone
    BY Zenon, <1>1 DEF SettingsInv, TidyInv, Saving, At
  <2> QED BY Zenon, <1>1, <1>6, <2>1 DEF SettingsInv, TidyInv
<1>9. DOMAIN r.body \subseteq Keys
  BY Zenon, <1>1 DEF Partial
<1>10. CASE r.left # {k}
  <2>1. /\ req'[s].pc = "save" /\ req'[s].body = r.body /\ req'[s].left = r.left \ {k}
        /\ req'[s].alone = r.alone /\ torn' = torn
    <3>1. req'[s] = [r EXCEPT !.left = r.left \ {k}] /\ torn' = torn
      BY Zenon, <1>3, <1>10 DEF SetReq, Types
    <3> QED BY <1>1, <3>1 DEF Records
  <2> HIDE DEF r
  <2>2. AloneInv'
    <3> SUFFICES ASSUME NEW t \in Slots, Saving(t)', req'[t].alone
                 PROVE  /\ \A u \in Slots : Saving(u)' => u = t
                        /\ \A j \in DOMAIN req'[t].body :
                             /\ cfg'[j] = req'[t].body[j]
                             /\ j \in req'[t].left \/ stored'[j] = Text(cfg'[j])
      BY DEF AloneInv, Text
    <3>1. t = s /\ r.alone
      BY Zenon, <1>5, <1>7, <2>1 DEF Saving, At, r
    <3>2. \A u \in Slots : Saving(u)' => u = t
      BY Zenon, <1>5, <1>6, <3>1 DEF Saving, At
    <3>3. \A j \in DOMAIN r.body : cfg[j] = r.body[j] /\ (j \in r.left \ {k} \/ stored'[j] = Text(cfg[j]))
      BY Zenon, <1>4, <1>6, <1>9, <3>1
    <3> QED BY <1>2, <2>1, <3>1, <3>2, <3>3
  <2>3. TidyInv'
    <3> SUFFICES ASSUME ~torn
                 PROVE  /\ \A t \in Slots : Saving(t)' => req'[t].alone
                        /\ \A j \in Keys : stored'[j] = Text(cfg'[j])
                                           \/ \E t \in Slots : Saving(t)' /\ j \in req'[t].left
      BY Zenon, <2>1 DEF TidyInv, Text
    <3>1. \A t \in Slots : Saving(t)' => req'[t].alone
      BY <1>5, <1>6, <1>8, <2>1 DEF Saving, At, r
    <3>2. \A j \in Keys : stored'[j] = Text(cfg[j]) \/ j \in r.left \ {k}
      BY Zenon, <1>1, <1>3, <1>4, <1>6, <1>8
    <3> QED BY <1>2, <2>1, <3>1, <3>2 DEF Saving, At
  <2> QED BY <1>1, <1>2, <2>2, <2>3 DEF SettingsInv, StartInv, BeforeInv
<1>11. CASE r.left = {k}
  <2>1. req'[s].pc = "idle" /\ torn' = (torn /\ ~(r.alone /\ DOMAIN r.body = Keys))
    BY <1>3, <1>11 DEF End, SetReq, Types, Idle
  <2> HIDE DEF r
  <2>2. AloneInv'
    <3>1. \A t \in Slots : ~(Saving(t)' /\ req'[t].alone)
      BY <1>5, <1>7, <2>1 DEF Saving, At
    <3> QED BY <3>1 DEF AloneInv
  <2>3. TidyInv'
    <3> SUFFICES ASSUME ~torn'
                 PROVE  /\ \A t \in Slots : ~Saving(t)'
                        /\ \A j \in Keys : stored'[j] = Text(cfg'[j])
      BY DEF TidyInv, Text
    <3>1. r.alone
      BY Zenon, <1>8, <2>1
    <3>2. \A t \in Slots : ~Saving(t)'
      BY <1>5, <1>6, <2>1, <3>1 DEF Saving, At
    <3>3. \A j \in Keys : stored[j] = Text(cfg[j]) \/ j = k
      BY Zenon, <1>6, <1>8, <1>11, <2>1, <3>1
    <3>4. stored'[k] = Text(cfg[k])
      BY Zenon, <1>1, <1>3, <1>4, <1>6, <3>1
    <3> QED BY <1>2, <1>4, <3>2, <3>3, <3>4
  <2> QED BY <1>1, <1>2, <2>2, <2>3 DEF SettingsInv, StartInv, BeforeInv
<1> QED BY Zenon, <1>10, <1>11

\* A save that fails leaves the rows torn.
LEMMA FailSettings ==
  ASSUME Types, SettingsInv, NEW s \in Slots, req[s].pc = "save", Fail(s)
  PROVE  SettingsInv'
<1>1. /\ torn' /\ UNCHANGED <<stored, cfg, server, left, before>> /\ server = "up"
      /\ \A t \in Slots : req'[t] = IF t = s THEN Idle ELSE req[t]
  BY Zenon, BusyUp DEF Fail, Saving, At, End, SetReq, Types, rows, memory
<1>2. AloneInv'
  BY <1>1 DEF SettingsInv, AloneInv, Saving, At, Idle
<1> QED BY <1>1, <1>2 DEF SettingsInv, TidyInv, StartInv, BeforeInv

\* The statements of a start.
LEMMA StartSettings ==
  ASSUME Types, SettingsInv, StartServer \/ EnsureDefaultSettings \/ StartFails
  PROVE  SettingsInv'
<1>1. server # "up" /\ UNCHANGED <<req, cfg, torn, before>> /\ server' # "up"
  BY Zenon DEF StartServer, EnsureDefaultSettings, StartFails, history
<1>2. \A s \in Slots : req[s].pc = "idle"
  BY <1>1 DEF Types, Idle
<1>3. AloneInv' /\ TidyInv'
  BY Zenon, <1>1, <1>2 DEF AloneInv, TidyInv, Saving, At
<1>4. CASE StartServer \/ StartFails
  <2>1. UNCHANGED stored /\ (server' = "down" \/ (server' = "defaults" /\ left' = Keys))
    BY Zenon, <1>4 DEF StartServer, StartFails, rows
  <2> QED BY <1>1, <1>3, <2>1 DEF SettingsInv, StartInv, BeforeInv
<1>5. CASE EnsureDefaultSettings /\ left = {}
  <2>1. server = "defaults" /\ server' = "apply" /\ UNCHANGED <<stored, left>>
    BY <1>5 DEF EnsureDefaultSettings
  <2> QED BY <1>1, <1>3, <1>5, <2>1 DEF SettingsInv, StartInv, BeforeInv
<1>6. CASE EnsureDefaultSettings /\ left # {}
  <2>1. PICK k \in left : stored' = [stored EXCEPT ![k] = DefaultText(k)] /\ left' = left \ {k}
    BY <1>6 DEF EnsureDefaultSettings
  <2>2. server = "defaults" /\ server' = "defaults"
    BY <1>6 DEF EnsureDefaultSettings
  <2>3. k \in Keys /\ stored'[k] = DefaultText(k) /\ \A j \in Keys : j # k => stored'[j] = stored[j]
    BY Zenon, <2>1 DEF Types
  <2>4. /\ stored[k] # Empty => DefaultText(k) = stored[k]
        /\ DefaultText(k) # Empty \/ Defaults[k] = Empty
    <3>1. Defaults[k] \in Values
      BY <2>3 DEF Values
    <3> QED BY Zenon, <3>1, TextValue DEF DefaultText
  <2>5. StartInv'
    BY Zenon, <2>1, <2>2, <2>3, <2>4 DEF SettingsInv, StartInv
  <2>6. BeforeInv'
    <3>1. \A j \in Keys : stored[j] # Empty => stored'[j] = stored[j]
      BY <2>3, <2>4
    <3> QED BY <1>1, <3>1 DEF SettingsInv, BeforeInv, Text
  <2> QED BY <1>3, <2>5, <2>6 DEF SettingsInv
<1> QED BY <1>4, <1>5, <1>6

\* The memory is filled from the rows.
LEMMA ApplySettings ==
  ASSUME Types, SettingsInv, ApplySystemSettings
  PROVE  SettingsInv'
<1>1. server = "apply" /\ server' = "up" /\ UNCHANGED <<stored, left, req>>
  BY DEF ApplySystemSettings, rows
<1>2. \A s \in Slots : req[s].pc = "idle"
  BY <1>1 DEF Types, Idle
<1>3. ASSUME NEW k \in Keys PROVE stored[k] = Text(cfg'[k])
  <2>1. stored[k] = Empty => Defaults[k] = Empty
    BY <1>1 DEF SettingsInv, StartInv
  <2>2. cfg'[k] = IF stored[k] = Empty /\ Kind[k] # "string" THEN Defaults[k] ELSE Value(stored[k])
    BY DEF ApplySystemSettings
  <2>3. stored[k] \in Texts
    BY DEF Types
  <2> QED BY <2>1, <2>2, <2>3, TextValue DEF Text, Value
<1>4. TidyInv'
  BY Zenon, <1>1, <1>2, <1>3 DEF TidyInv, Saving, At, Text
<1> QED BY <1>1, <1>2, <1>4 DEF SettingsInv, AloneInv, StartInv, BeforeInv, Saving, At

\* With nothing torn and nobody saving, the rows hold the memory when it is lost.
LEMMA CrashSettings ==
  ASSUME Types, SettingsInv, Crash
  PROVE  SettingsInv'
<1>1. server = "up" /\ server' = "down" /\ UNCHANGED <<stored, left>> /\ \A s \in Slots : req'[s] = Idle
  BY DEF Crash, rows
<1>2. before' = IF torn \/ \E s \in Slots : Saving(s) THEN NoRow ELSE cfg
  BY DEF Crash
<1>3. BeforeInv'
  <2> SUFFICES ASSUME before' # NoRow, NEW k \in Keys, before'[k] # Empty
               PROVE  stored'[k] # Empty /\ stored'[k] = Text(before'[k])
    BY DEF BeforeInv, Text
  <2>1. ~torn /\ (\A s \in Slots : ~Saving(s)) /\ before' = cfg /\ cfg[k] \in Values
    BY <1>1, <1>2 DEF Types, Settings
  <2>2. stored[k] = Text(cfg[k])
    BY <1>1, <2>1 DEF SettingsInv, TidyInv
  <2> QED BY <1>1, <2>1, <2>2, TextValue
<1> QED BY <1>1, <1>3 DEF SettingsInv, AloneInv, TidyInv, StartInv, Saving, At, Idle

\* Before the first start no row has a text and nothing is in memory.
LEMMA InitSettings == Init => SettingsInv
<1> SUFFICES ASSUME Init PROVE SettingsInv
  OBVIOUS
<1>1. server = "down" /\ before = NoRow /\ \A s \in Slots : req[s].pc = "idle"
  BY DEF Init, Idle
<1> QED BY <1>1 DEF SettingsInv, AloneInv, TidyInv, StartInv, BeforeInv, Saving, At

\* Every step keeps the order of rows and memory.
LEMMA SettingsStep == Types /\ SettingsInv /\ [Next]_vars => SettingsInv'
<1> SUFFICES ASSUME Types, SettingsInv, [Next]_vars PROVE SettingsInv'
  OBVIOUS
<1>1. CASE UNCHANGED vars \/ (\E i \in DOMAIN tokens : TokenExpires(i))
           \/ FetchReleaseInfo \/ DownloadReleaseInstaller \/ LaunchUpdater
  <2>1. UNCHANGED <<stored, cfg, server, left, torn, before, req>>
    BY <1>1 DEF vars, TokenExpires, FetchReleaseInfo, DownloadReleaseInstaller, LaunchUpdater,
                rows, memory, bounds, history
  <2>2. \A t \in Slots : SameSave(req'[t], req[t])
    BY <2>1 DEF SameSave
  <2> QED BY Zenon, <2>1, <2>2, UnsavedStep
<1>2. ASSUME NEW s \in Slots, Session(s) \/ Change(s) \/ CreateFile(s) \/ CopyFile(s) PROVE SettingsInv'
  <2>1. CASE req[s].pc = "save"
    <3>1. Fail(s)
      BY <1>2, <2>1
         DEF Session, Change, Login, WithRefresh, WithAccess, CheckPassword, IssueAdminTokenPair,
             GetAdminRefreshToken, Rotate, GetAdminUserByID, RevokeAdminRefreshToken, RequireAdmin,
             AnswerMe, GetSettings, Admit, CheckChange, UpdateAdminPassword,
             ClearAdminPasswordChangeRequired, RevokeAfterChange, CreateFile, CopyFile, At
    <3> QED BY Zenon, <2>1, <3>1, FailSettings
  <2>2. CASE req[s].pc # "save"
    BY <1>2, <2>2, UnsavedSettings
  <2> QED BY <2>1, <2>2
<1>3. ASSUME NEW s \in Slots, PatchSettings(s) PROVE SettingsInv'
  <2>1. req[s].pc = "settings" /\ UNCHANGED <<stored, server, left, before>>
    BY Zenon, <1>3 DEF PatchSettings, At, rows
  <2>2. CASE TooShort(req[s].body)
    <3>1. UNCHANGED <<cfg, torn>> /\ \A t \in Slots : req'[t] = IF t = s THEN Idle ELSE req[t]
      BY Zenon, <1>3, <2>2 DEF PatchSettings, End, SetReq, Types
    <3>2. \A t \in Slots : SameSave(req'[t], req[t])
      BY <2>1, <3>1 DEF SameSave, Idle
    <3> QED BY Zenon, <2>1, <3>1, <3>2, UnsavedStep
  <2>3. CASE ~TooShort(req[s].body)
    <3>1. req[s].body \in Partial
      <4>1. Shape(req[s])
        BY Zenon DEF Types, Requests
      <4>2. req[s].body \in Settings
        BY Zenon, <2>1, <4>1 DEF Shape, Target
      <4> QED BY <4>2 DEF Settings, Partial
    <3> QED BY Zenon, <1>3, <2>1, <2>3, <3>1, BeginSettings DEF PatchSettings
  <2> QED BY <2>2, <2>3
<1>4. ASSUME NEW s \in Slots, PersistReleaseUpload(s) PROVE SettingsInv'
  <2>1. req[s].pc = "persist" /\ UNCHANGED <<stored, server, left, before>>
    BY Zenon, <1>4 DEF PersistReleaseUpload, At, rows
  <2>2. UploadSettings(req[s].body) \in Partial
    <3>1. Shape(req[s])
      BY DEF Types, Requests
    <3> QED BY <2>1, <3>1, UploadTyped DEF Shape, Target
  <2> QED BY <1>4, <2>1, <2>2, BeginSettings DEF PersistReleaseUpload
<1> QED BY <1>1, <1>2, <1>3, <1>4, WriteSettings, StartSettings, ApplySettings, CrashSettings
    DEF Next, Save

\* Once no save is under way the rows hold what the server works with, unless a save
\* failed or two of them overlapped, for any number of saves and keys in any order
\* (handleSettings, persistReleaseUpload).
THEOREM RowsFollowMemory == Spec => []StoredMatchesMemory
<1>1. SettingsInv => StoredMatchesMemory
  BY DEF SettingsInv, TidyInv, StoredMatchesMemory
<1> QED BY <1>1, InitTypes, TypesStep, InitSettings, SettingsStep, PTL DEF Spec

\* A restart gives back the settings the server had, those with an empty text apart, and
\* leaves the administrator it finds, through any number of crashes and failed starts
\* (ensureDefaultSettings, applySystemSettingsLocked, ensureAdminUser).
THEOREM RestartKeepsSettings == Spec => SettingsKept
<1> DEFINE Step == /\ server = "apply" /\ server' = "up" /\ before # NoRow =>
                        \A k \in Keys : before[k] # Empty => cfg'[k] = before[k]
                   /\ server # "up" /\ user # NoRow => user' = user
<1>1. Types /\ SettingsInv /\ [Next]_vars => [Step]_vars
  <2> SUFFICES ASSUME Types, SettingsInv, Next PROVE Step
    OBVIOUS
  <2>1. ASSUME server # "up", NEW s \in Slots, Session(s) \/ Change(s) \/ Save(s) PROVE FALSE
    <3>1. req[s].pc = "idle"
      BY <2>1 DEF Types, Idle
    <3> QED BY Zenon, <2>1, <3>1
        DEF Session, Change, Save, Login, WithRefresh, WithAccess, CheckPassword,
            IssueAdminTokenPair, GetAdminRefreshToken, Rotate, GetAdminUserByID,
            RevokeAdminRefreshToken, RequireAdmin, AnswerMe, GetSettings, Fail, Admit, CheckChange,
            UpdateAdminPassword, ClearAdminPasswordChangeRequired, RevokeAfterChange, CreateFile,
            CopyFile, PatchSettings, PersistReleaseUpload, SaveSetting, Saving, At
  <2>2. ASSUME server # "up", user # NoRow PROVE user' = user
    BY Zenon, <2>1, <2>2 DEF Next, StartServer, EnsureAdminUser, EnsureDefaultSettings, ApplySystemSettings,
       StartFails, Crash, TokenExpires, FetchReleaseInfo, DownloadReleaseInstaller, LaunchUpdater, rows
  <2>3. ASSUME server = "apply", server' = "up", before # NoRow, NEW k \in Keys, before[k] # Empty
        PROVE  cfg'[k] = before[k]
    <3>1. ApplySystemSettings
      BY <2>1, <2>3 DEF Next, StartServer, EnsureDefaultSettings, StartFails, Crash, TokenExpires,
         FetchReleaseInfo, DownloadReleaseInstaller, LaunchUpdater, memory
    <3>2. stored[k] = Text(before[k]) /\ stored[k] # Empty
      BY <2>3 DEF SettingsInv, BeforeInv
    <3>3. stored[k] = <<before[k]>>
      BY <2>3, <3>2 DEF Text
    <3>4. Value(stored[k]) = before[k]
      BY <3>2, <3>3 DEF Value
    <3>5. cfg'[k] = Value(stored[k])
      BY <2>3, <3>1, <3>2 DEF ApplySystemSettings
    <3> QED BY Zenon, <3>4, <3>5
  <2> QED BY <2>2, <2>3
<1> HIDE DEF Step
<1>2. Spec => [][Step]_vars
  BY <1>1, InitTypes, TypesStep, InitSettings, SettingsStep, PTL DEF Spec
<1> QED BY <1>2 DEF Step, SettingsKept

-----------------------------------------------------------------------------
(* Releases *)

Whole(u) == u \in DOMAIN files /\ files[u] = "whole"
Paired(c) == c["sha"] = c["file"] /\ (c["file"] # Empty => Whole(c["file"]))

\* The request that writes a file is the one that created it.
FileInv ==
  /\ \A s \in Slots : req[s].pc = "copy" => req[s].body \in DOMAIN files /\ files[req[s].body] = "partial"
  /\ \A s, t \in Slots : req[s].pc = "copy" /\ req[t].pc = "copy" /\ req[s].body = req[t].body => s = t
  /\ \A s \in Slots : req[s].pc = "persist" => Whole(req[s].body)

\* Every copy of the settings names a whole file and its hash: the memory, the rows while
\* the server is away, the forms and the PATCH bodies made from them.
PairInv ==
  ~split =>
    /\ server = "up" => Paired(cfg)
    /\ server # "up" => Paired([k \in Keys |-> Value(stored[k])])
    /\ \A c \in Consoles : console[c].form # NoRow => Paired(console[c].form)
    /\ \A s \in Slots : Target(req[s]) = "settings" => Paired(req[s].body)

UpdateInv ==
  /\ DOMAIN update = {"pc", "url", "sha", "pkg"}
  /\ update.pc = "install" => update.sha \in {Empty, update.pkg}

ReleaseInv == FileInv /\ PairInv /\ UpdateInv

\* A request that has neither a file to write nor settings from a form; one that has what
\* it had before.
Plain(q) == q.pc \notin {"copy", "persist"} /\ Target(q) # "settings"
SameUse(q, r) ==
  /\ q.body = r.body
  /\ q.pc = "copy" => r.pc = "copy"
  /\ q.pc = "persist" => r.pc = "persist"
  /\ Target(q) = "settings" => Target(r) = "settings"

\* A step that leaves files, settings and forms alone.
LEMMA UnreleasedStep ==
  ASSUME ReleaseInv, UNCHANGED <<files, cfg, server, split, update>>, server # "up" => UNCHANGED stored,
         \A c \in Consoles : console'[c].form = console[c].form,
         \A t \in Slots : Plain(req'[t]) \/ SameUse(req'[t], req[t])
  PROVE  ReleaseInv'
<1>1. FileInv'
  BY DEF ReleaseInv, FileInv, Plain, SameUse, Whole
<1>2. PairInv'
  <2> SUFFICES ASSUME ~split PROVE PairInv'
    BY Zenon DEF PairInv
  <2>1. \A t \in Slots : Target(req'[t]) = "settings" => Paired(req'[t].body)
    BY Zenon DEF ReleaseInv, PairInv, Plain, SameUse
  <2>2. \A c \in Consoles : console'[c].form # NoRow => Paired(console'[c].form)
    BY Zenon DEF ReleaseInv, PairInv
  <2>3. (server = "up" => Paired(cfg)) /\ (server # "up" => Paired([k \in Keys |-> Value(stored[k])]))
    BY Zenon DEF ReleaseInv, PairInv
  <2> QED BY Zenon, <2>1, <2>2, <2>3 DEF PairInv, Paired, Whole, Target, Value
<1> QED BY Zenon, <1>1, <1>2 DEF ReleaseInv, UpdateInv

\* A new request takes its settings from a form that names a whole file and its hash.
LEMMA AdmitRelease ==
  ASSUME Types, ReleaseInv, NEW s \in Slots, NEW r, Admit(s, r), Plain(r) \/ (
           /\ r.pc = "auth" /\ r.op = "settings" /\ (~split => Paired(r.body)))
  PROVE  ReleaseInv'
<1>1. /\ UNCHANGED <<files, stored, cfg, server, split, update, console>>
      /\ \A t \in Slots : req'[t] = IF t = s THEN r ELSE req[t]
  BY Zenon DEF Admit, SetReq, Types, rows, memory, clients, history
<1>2. CASE Plain(r)
  BY Zenon, <1>1, <1>2, UnreleasedStep DEF SameUse
<1>3. CASE r.pc = "auth" /\ r.op = "settings" /\ (~split => Paired(r.body))
  <2>1. FileInv'
    BY <1>1, <1>3 DEF ReleaseInv, FileInv, Whole
  <2>2. ~split => \A t \in Slots : Target(req'[t]) = "settings" => Paired(req'[t].body)
    BY Zenon, <1>1, <1>3 DEF ReleaseInv, PairInv
  <2>3. PairInv'
    <3> SUFFICES ASSUME ~split PROVE PairInv'
      BY Zenon, <1>1 DEF PairInv
    <3>1. /\ \A c \in Consoles : console[c].form # NoRow => Paired(console[c].form)
          /\ server = "up" => Paired(cfg)
          /\ server # "up" => Paired([k \in Keys |-> Value(stored[k])])
      BY Zenon DEF ReleaseInv, PairInv
    <3> QED BY Zenon, <1>1, <2>2, <3>1 DEF PairInv, Paired, Whole, Target, Value
  <2> QED BY Zenon, <1>1, <2>1, <2>3 DEF ReleaseInv, UpdateInv
<1> QED BY Zenon, <1>2, <1>3

\* Every request of a console.
LEMMA NewRequestRelease ==
  ASSUME Types, ReleaseInv, NEW s \in Slots, Login(s) \/ WithRefresh(s) \/ WithAccess(s)
  PROVE  ReleaseInv'
<1>1. CASE Login(s)
  <2>1. PICK c \in Consoles, pw \in Passwords :
          Admit(s, [Idle EXCEPT !.op = "login", !.pc = "find", !.console = c, !.pw = pw])
    BY Zenon, <1>1 DEF Login
  <2> DEFINE q == [Idle EXCEPT !.op = "login", !.pc = "find", !.console = c, !.pw = pw]
  <2>2. Plain(q)
    BY Zenon DEF Idle, Plain, Target
  <2> HIDE DEF q
  <2> QED BY <2>1, <2>2, AdmitRelease DEF q
<1>2. CASE WithRefresh(s)
  <2>1. PICK c \in Consoles :
          LET q == [Idle EXCEPT !.console = c, !.token = console[c].refresh, !.known = dead]
          IN \/ Admit(s, [q EXCEPT !.op = "refresh", !.pc = "token"])
             \/ Admit(s, [q EXCEPT !.op = "logout", !.pc = "logout"])
    BY Zenon, <1>2 DEF WithRefresh
  <2> DEFINE q1 == [[Idle EXCEPT !.console = c, !.token = console[c].refresh, !.known = dead]
                      EXCEPT !.op = "refresh", !.pc = "token"]
             q2 == [[Idle EXCEPT !.console = c, !.token = console[c].refresh, !.known = dead]
                      EXCEPT !.op = "logout", !.pc = "logout"]
  <2>2. Plain(q1) /\ Plain(q2)
    BY DEF Idle, Plain, Target
  <2>3. Admit(s, q1) \/ Admit(s, q2)
    BY <2>1
  <2> HIDE DEF q1, q2
  <2> QED BY <2>2, <2>3, AdmitRelease
<1>3. CASE WithAccess(s)
  <2>1. PICK c \in Consoles :
          LET q == Behind(c, console[c].access)
          IN \/ Admit(s, [q EXCEPT !.op = "me"])
             \/ \E new \in Passwords : Admit(s, [q EXCEPT !.op = "change", !.pw = user.pw, !.new = new])
             \/ Admit(s, [q EXCEPT !.op = "get"])
             \/ \E u \in Packages : Admit(s, [q EXCEPT !.op = "upload", !.body = u])
             \/ /\ console[c].form # NoRow
                /\ \E k \in Keys : \E v \in Offered[k] :
                     Admit(s, [q EXCEPT !.op = "settings", !.body = [console[c].form EXCEPT ![k] = v]])
    BY Zenon, <1>3 DEF WithAccess, Behind
  <2> DEFINE q == Behind(c, console[c].access)
  <2>2. /\ Plain([q EXCEPT !.op = "me"]) /\ Plain([q EXCEPT !.op = "get"])
        /\ \A p, n : Plain([q EXCEPT !.op = "change", !.pw = p, !.new = n])
        /\ \A b : Plain([q EXCEPT !.op = "upload", !.body = b])
    BY DEF Behind, Idle, Plain, Target
  <2>3. ASSUME NEW b
        PROVE  LET p == [q EXCEPT !.op = "settings", !.body = b]
               IN  p.pc = "auth" /\ p.op = "settings" /\ p.body = b
    BY Zenon DEF Behind, Idle
  <2>4. ASSUME NEW k \in Keys, NEW v \in Offered[k], console[c].form # NoRow, ~split
        PROVE  Paired([console[c].form EXCEPT ![k] = v])
    <3>1. k \notin {"file", "sha"}
      BY Zenon, ReleaseAssumption
    <3>2. console[c].form \in Settings /\ Paired(console[c].form)
      BY <2>4 DEF Types, Held, ReleaseInv, PairInv
    <3> QED BY Zenon, <3>1, <3>2, KeyAssumption DEF Settings, Paired
  <2> HIDE DEF q
  <2>5. ASSUME NEW k \in Keys, NEW v \in Offered[k], console[c].form # NoRow,
               Admit(s, [q EXCEPT !.op = "settings", !.body = [console[c].form EXCEPT ![k] = v]])
        PROVE  ReleaseInv'
    <3> DEFINE p == [q EXCEPT !.op = "settings", !.body = [console[c].form EXCEPT ![k] = v]]
    <3>1. p.pc = "auth" /\ p.op = "settings" /\ p.body = [console[c].form EXCEPT ![k] = v]
      BY Zenon, <2>3
    <3>2. ~split => Paired(p.body)
      BY <2>4, <2>5, <3>1
    <3> HIDE DEF p
    <3> QED BY Zenon, <2>5, <3>1, <3>2, AdmitRelease DEF p
  <2>6. CASE Admit(s, [q EXCEPT !.op = "me"]) \/ Admit(s, [q EXCEPT !.op = "get"])
    BY Zenon, <2>2, <2>6, AdmitRelease
  <2>7. CASE \E new \in Passwords : Admit(s, [q EXCEPT !.op = "change", !.pw = user.pw, !.new = new])
    BY Zenon, <2>2, <2>7, AdmitRelease
  <2>8. CASE \E u \in Packages : Admit(s, [q EXCEPT !.op = "upload", !.body = u])
    BY Zenon, <2>2, <2>8, AdmitRelease
  <2> QED BY Zenon, <2>1, <2>5, <2>6, <2>7, <2>8 DEF q
<1> QED BY <1>1, <1>2, <1>3

\* The requests on the sessions and the password, and every failure.
LEMMA SessionRelease ==
  ASSUME Types, ReleaseInv, NEW s \in Slots, Session(s) \/ Change(s),
         ~(Login(s) \/ WithRefresh(s) \/ WithAccess(s))
  PROVE  ReleaseInv'
<1> DEFINE r == req[s]
<1>1. r \in Records /\ req \in [Slots -> Requests] /\ r.pc # "idle"
  BY DEF Types, Requests, Session, Change, CheckPassword, IssueAdminTokenPair,
         GetAdminRefreshToken, Rotate, GetAdminUserByID, RevokeAdminRefreshToken, RequireAdmin,
         AnswerMe, GetSettings, Fail, CheckChange, UpdateAdminPassword,
         ClearAdminPasswordChangeRequired, RevokeAfterChange, At
<1>2. UNCHANGED <<files, stored, cfg, server, split, update>>
  BY Zenon DEF Session, Change, CheckPassword, IssueAdminTokenPair,
         GetAdminRefreshToken, Rotate, GetAdminUserByID, RevokeAdminRefreshToken, RequireAdmin,
         AnswerMe, GetSettings, Fail, CheckChange, UpdateAdminPassword,
         ClearAdminPasswordChangeRequired, RevokeAfterChange, rows, memory, clients, history
<1>3. ASSUME NEW q, SetReq(s, q), Plain(q) \/ SameUse(q, r)
      PROVE  \A t \in Slots : Plain(req'[t]) \/ SameUse(req'[t], req[t])
  <2>1. \A t \in Slots : req'[t] = IF t = s THEN q ELSE req[t]
    BY <1>1, <1>3 DEF SetReq
  <2> QED BY <1>3, <2>1 DEF SameUse
<1>4. Plain(Idle)
  BY DEF Plain, Idle, Target
<1>5. ASSUME NEW pc \in {"logout", "rotate", "reload", "update", "revoke"}
      PROVE  Plain([r EXCEPT !.pc = pc])
  BY <1>1 DEF Records, Plain, Target
<1>6. Plain([r EXCEPT !.pc = "issue", !.row = user]) /\ Plain([r EXCEPT !.pc = "clear", !.known = DOMAIN tokens])
  BY <1>1 DEF Records, Plain, Target
<1>7. r.pc = "auth" => SameUse([r EXCEPT !.pc = r.op], r)
  <2> SUFFICES ASSUME r.pc = "auth" PROVE SameUse([r EXCEPT !.pc = r.op], r)
    OBVIOUS
  <2>1. r.op \in Guarded
    BY <1>1 DEF Requests, Shape
  <2> DEFINE q == [r EXCEPT !.pc = r.op]
  <2>2. q.pc = r.op /\ q.body = r.body
    BY Zenon, <1>1 DEF Records
  <2> HIDE DEF q
  <2> QED BY <2>1, <2>2 DEF SameUse, Target, Guarded, q
<1>8. \A t \in Slots : Plain(req'[t]) \/ SameUse(req'[t], req[t])
  <2>1. CASE End(s)
    BY <1>3, <1>4, <2>1 DEF End
  <2>2. CASE \E pc \in {"logout", "rotate", "reload", "update", "revoke"} : Goto(s, pc)
    BY <1>3, <1>5, <2>2 DEF Goto
  <2>3. CASE \/ SetReq(s, [r EXCEPT !.pc = "issue", !.row = user])
             \/ SetReq(s, [r EXCEPT !.pc = "clear", !.known = DOMAIN tokens])
    BY <1>3, <1>6, <2>3
  <2>4. CASE r.pc = "auth" /\ Goto(s, r.op)
    BY <1>3, <1>7, <2>4 DEF Goto
  <2> QED BY Zenon, <2>1, <2>2, <2>3, <2>4
          DEF Session, Change, CheckPassword, IssueAdminTokenPair,
              GetAdminRefreshToken, Rotate, GetAdminUserByID, RevokeAdminRefreshToken, RequireAdmin,
              AnswerMe, GetSettings, Fail, CheckChange, UpdateAdminPassword,
              ClearAdminPasswordChangeRequired, RevokeAfterChange, At
<1>9. CASE \A c \in Consoles : console'[c].form = console[c].form
  BY <1>2, <1>8, <1>9, UnreleasedStep
<1>10. CASE GetSettings(s)
  <2>1. server = "up"
    BY Zenon, <1>1, BusyUp
  <2>2. FileInv'
    BY <1>2, <1>8 DEF ReleaseInv, FileInv, Plain, SameUse, Whole
  <2>3. \A c \in Consoles : console'[c].form \in {console[c].form, cfg}
    BY Zenon, <1>10 DEF GetSettings, Types, Held
  <2>4. PairInv'
    <3> SUFFICES ASSUME ~split PROVE PairInv'
      BY Zenon, <1>2 DEF PairInv
    <3>1. \A t \in Slots : Target(req'[t]) = "settings" => Paired(req'[t].body)
      BY Zenon, <1>8 DEF ReleaseInv, PairInv, Plain, SameUse
    <3>2. Paired(cfg)
      BY Zenon, <2>1 DEF ReleaseInv, PairInv
    <3>3. \A c \in Consoles : console'[c].form # NoRow => Paired(console'[c].form)
      BY <2>3, <3>2 DEF ReleaseInv, PairInv
    <3> QED BY Zenon, <1>2, <2>1, <3>1, <3>2, <3>3 DEF PairInv, Paired, Whole, Target
  <2> QED BY <1>2, <2>2, <2>4 DEF ReleaseInv, UpdateInv
<1>11. CASE ~GetSettings(s)
  <2>1. CASE IssueAdminTokenPair(s)
    <3>1. \A c \in Consoles : console'[c].form = console[c].form
      BY <2>1 DEF IssueAdminTokenPair, Types, Held
    <3> QED BY Zenon, <1>9, <3>1
  <2>2. CASE ~IssueAdminTokenPair(s)
    <3>1. console' = console
      BY <1>11, <2>2 DEF Session, Change, CheckPassword, GetAdminRefreshToken, Rotate,
         GetAdminUserByID, RevokeAdminRefreshToken, RequireAdmin, AnswerMe, Fail, CheckChange,
         UpdateAdminPassword, ClearAdminPasswordChangeRequired, RevokeAfterChange, clients
    <3> QED BY Zenon, <1>9, <3>1
  <2> QED BY <2>1, <2>2
<1> QED BY Zenon, <1>10, <1>11

\* The settings of a PATCH or an upload are taken into the memory.
LEMMA BeginRelease ==
  ASSUME Types, ReleaseInv, NEW s \in Slots, req[s].pc # "idle", NEW b \in Partial,
         ApplyInMemory(s, b), {"file", "sha"} \subseteq DOMAIN b, ~split => Paired(b),
         UNCHANGED <<files, stored, server, split, update, console>>
  PROVE  ReleaseInv'
<1>1. server = "up" /\ req \in [Slots -> Records]
  BY BusyUp DEF Types, Requests
<1>2. \A t \in Slots : Plain(req'[t]) \/ SameUse(req'[t], req[t])
  <2> SUFFICES ASSUME NEW t \in Slots PROVE Plain(req'[t]) \/ SameUse(req'[t], req[t])
    OBVIOUS
  <2>1. req[t] \in Records
    BY <1>1
  <2>2. \A a : Plain([req[t] EXCEPT !.pc = "save", !.body = b, !.left = DOMAIN b, !.alone = a])
    BY <2>1 DEF Records, Plain, Target
  <2>3. SameUse([req[t] EXCEPT !.alone = FALSE], req[t]) /\ SameUse(req[t], req[t])
    BY <2>1 DEF Records, SameUse, Target
  <2>4. \/ \E a : req'[t] = [req[t] EXCEPT !.pc = "save", !.body = b, !.left = DOMAIN b, !.alone = a]
        \/ req'[t] = [req[t] EXCEPT !.alone = FALSE]
        \/ req'[t] = req[t]
    BY Zenon DEF ApplyInMemory
  <2> QED BY Zenon, <2>2, <2>3, <2>4
<1>3. FileInv'
  <2>1. \A t \in Slots : req'[t].pc \in {"copy", "persist"} =>
          req'[t].pc = req[t].pc /\ req'[t].body = req[t].body
    BY Zenon, <1>2 DEF Plain, SameUse
  <2>2. FileInv /\ files' = files
    BY Zenon DEF ReleaseInv
  <2>3. \A t \in Slots : /\ req'[t].pc = "copy" => req[t].pc = "copy" /\ req'[t].body = req[t].body
                         /\ req'[t].pc = "persist" => req[t].pc = "persist" /\ req'[t].body = req[t].body
    BY <2>1
  <2>4. \A t \in Slots : req'[t].pc = "copy" =>
          req'[t].body \in DOMAIN files' /\ files'[req'[t].body] = "partial"
    BY <2>2, <2>3 DEF FileInv
  <2>5. \A t, u \in Slots :
          req'[t].pc = "copy" /\ req'[u].pc = "copy" /\ req'[t].body = req'[u].body => t = u
    BY <2>2, <2>3 DEF FileInv
  <2>6. \A t \in Slots : req'[t].pc = "persist" =>
          req'[t].body \in DOMAIN files' /\ files'[req'[t].body] = "whole"
    BY <2>2, <2>3 DEF FileInv, Whole
  <2> QED BY Zenon, <2>4, <2>5, <2>6 DEF FileInv, Whole
<1>4. PairInv'
  <2> SUFFICES ASSUME ~split PROVE PairInv'
    BY Zenon DEF PairInv
  <2>1. \A t \in Slots : Target(req'[t]) = "settings" => Paired(req'[t].body)
    BY <1>2 DEF ReleaseInv, PairInv, Plain, SameUse
  <2>2. cfg'["file"] = b["file"] /\ cfg'["sha"] = b["sha"]
    BY Zenon, KeyAssumption DEF ApplyInMemory
  <2>3. Paired(cfg')
    BY Zenon, <2>2 DEF Paired
  <2>4. \A c \in Consoles : console[c].form # NoRow => Paired(console[c].form)
    BY DEF ReleaseInv, PairInv
  <2> QED BY Zenon, <1>1, <2>1, <2>3, <2>4 DEF PairInv, Paired, Whole, Target
<1> QED BY Zenon, <1>3, <1>4 DEF ReleaseInv, UpdateInv

\* The saves.
LEMMA SaveRelease ==
  ASSUME Types, ReleaseInv, NEW s \in Slots,
         PatchSettings(s) \/ PersistReleaseUpload(s) \/ SaveSetting(s)
  PROVE  ReleaseInv'
<1> DEFINE r == req[s]
<1>1. /\ r \in Records /\ Shape(r) /\ req \in [Slots -> Requests]
  BY DEF Types, Requests
<1>2. UNCHANGED <<files, server, split, update, console>>
  BY DEF PatchSettings, PersistReleaseUpload, SaveSetting, rows, memory, clients
<1>3. Plain(Idle)
  BY DEF Plain, Idle, Target
<1>4. CASE PatchSettings(s)
  <2>1. r.pc = "settings" /\ r.body \in Settings /\ (~split => Paired(r.body))
    BY Zenon, <1>1, <1>4 DEF PatchSettings, At, Shape, Target, ReleaseInv, PairInv
  <2>2. CASE TooShort(r.body)
    <3>1. \A t \in Slots : req'[t] = IF t = s THEN Idle ELSE req[t]
      BY Zenon, <1>1, <1>4, <2>2 DEF PatchSettings, End, SetReq
    <3>2. UNCHANGED <<cfg, stored>>
      BY Zenon, <1>4, <2>2 DEF PatchSettings, rows
    <3> QED BY Zenon, <1>2, <1>3, <3>1, <3>2, UnreleasedStep DEF SameUse
  <2>3. CASE ~TooShort(r.body)
    <3>1. r.body \in Partial /\ {"file", "sha"} \subseteq DOMAIN r.body
      BY Zenon, <2>1, KeyAssumption DEF Settings, Partial
    <3>2. UNCHANGED stored
      BY Zenon, <1>4 DEF PatchSettings, rows
    <3> QED BY Zenon, <1>2, <1>4, <2>1, <2>3, <3>1, <3>2, BeginRelease DEF PatchSettings
  <2> QED BY Zenon, <2>2, <2>3
<1>5. CASE PersistReleaseUpload(s)
  <2> DEFINE b == UploadSettings(r.body)
  <2>1. r.pc = "persist" /\ r.body \in Packages /\ Whole(r.body)
    BY Zenon, <1>1, <1>5 DEF PersistReleaseUpload, At, Shape, Target, ReleaseInv, FileInv
  <2>2. b \in Partial
    BY Zenon, <2>1, UploadTyped
  <2>3. {"file", "sha"} \subseteq DOMAIN b /\ b["file"] = r.body /\ b["sha"] = r.body
    BY Zenon DEF UploadSettings
  <2>4. Paired(b)
    BY Zenon, <2>1, <2>3 DEF Paired
  <2>5. UNCHANGED stored /\ ApplyInMemory(s, b)
    BY Zenon, <1>5 DEF PersistReleaseUpload, rows
  <2> HIDE DEF b
  <2> QED BY Zenon, <1>2, <2>1, <2>2, <2>3, <2>4, <2>5, BeginRelease
<1>6. CASE SaveSetting(s)
  <2>1. r.pc = "save" /\ server = "up"
    BY <1>6, BusyUp DEF SaveSetting, Saving, At
  <2>2. ASSUME NEW k PROVE Plain([r EXCEPT !.left = r.left \ {k}])
    BY Zenon, <1>1, <2>1 DEF Records, Plain, Target
  <2>3. PICK q : SetReq(s, q) /\ Plain(q)
    BY <1>3, <1>6, <2>2 DEF SaveSetting, End
  <2>4. \A t \in Slots : req'[t] = IF t = s THEN q ELSE req[t]
    BY Zenon, <1>1, <2>3 DEF SetReq
  <2>5. \A t \in Slots : Plain(req'[t]) \/ SameUse(req'[t], req[t])
    BY Zenon, <2>3, <2>4 DEF SameUse
  <2>6. UNCHANGED cfg
    BY Zenon, <1>6 DEF SaveSetting, memory
  <2> QED BY Zenon, <1>2, <2>1, <2>5, <2>6, UnreleasedStep
<1> QED BY <1>4, <1>5, <1>6

\* A step that leaves every whole file alone, and every copy of the settings.
LEMMA FileStep ==
  ASSUME ReleaseInv, UNCHANGED <<stored, cfg, server, split, update, console>>, FileInv',
         \A u : Whole(u) => Whole(u)',
         \A t \in Slots : Target(req'[t]) # "settings" \/ req'[t] = req[t]
  PROVE  ReleaseInv'
<1>1. PairInv'
  <2> SUFFICES ASSUME ~split PROVE PairInv'
    BY Zenon DEF PairInv
  <2> DEFINE Good(c) == c["sha"] = c["file"] /\ (c["file"] # Empty => c["file"] \in DOMAIN files' /\ files'[c["file"]] = "whole")
  <2>1. \A c : Paired(c) => Good(c)
    BY Zenon DEF Paired, Whole
  <2>2. \A t \in Slots : Target(req'[t]) = "settings" => Good(req'[t].body)
    <3>1. \A t \in Slots : Target(req'[t]) = "settings" => Paired(req'[t].body)
      BY Zenon DEF ReleaseInv, PairInv
    <3> HIDE DEF Good
    <3> QED BY Zenon, <2>1, <3>1
  <2>3. \A c \in Consoles : console[c].form # NoRow => Good(console[c].form)
    <3>1. \A c \in Consoles : console[c].form # NoRow => Paired(console[c].form)
      BY Zenon DEF ReleaseInv, PairInv
    <3> HIDE DEF Good
    <3> QED BY Zenon, <2>1, <3>1
  <2>4. (server = "up" => Good(cfg)) /\ (server # "up" => Good([k \in Keys |-> Value(stored[k])]))
    <3>1. (server = "up" => Paired(cfg)) /\ (server # "up" => Paired([k \in Keys |-> Value(stored[k])]))
      BY Zenon DEF ReleaseInv, PairInv
    <3> HIDE DEF Good
    <3> QED BY Zenon, <2>1, <3>1
  <2> QED BY Zenon, <2>2, <2>3, <2>4 DEF PairInv, Paired, Whole, Value, Target
<1> QED BY Zenon, <1>1 DEF ReleaseInv, UpdateInv

\* The file of an upload is created, written in full, or removed by the request that
\* created it; O_EXCL keeps every other request off it.
LEMMA UploadRelease ==
  ASSUME Types, ReleaseInv, NEW s \in Slots, CreateFile(s) \/ CopyFile(s)
  PROVE  ReleaseInv'
<1> DEFINE r == req[s]  u == r.body
<1>1. /\ r \in Records /\ req \in [Slots -> Requests]
      /\ UNCHANGED <<stored, cfg, server, split, update, console>>
  BY DEF Types, Requests, CreateFile, CopyFile, memory, clients, history
<1>2. ASSUME NEW pc \in {"copy", "persist"}, Goto(s, pc)
      PROVE  \A t \in Slots : /\ t # s => req'[t] = req[t]
                              /\ t = s => req'[t].pc = pc /\ req'[t].body = u
  BY Zenon, <1>1, <1>2 DEF Goto, SetReq, Records
<1>3. ASSUME End(s)
      PROVE  \A t \in Slots : /\ t # s => req'[t] = req[t]
                              /\ t = s => req'[t].pc = "idle"
  BY Zenon, <1>1, <1>3 DEF End, SetReq, Idle
<1>4. \A t \in Slots : Target(req'[t]) # "settings" \/ req'[t] = req[t]
  BY Zenon, <1>2, <1>3 DEF CreateFile, CopyFile, Target
<1>5. CASE End(s) /\ UNCHANGED files
  <2>1. FileInv'
    BY <1>3, <1>5 DEF ReleaseInv, FileInv, Whole
  <2> QED BY Zenon, <1>1, <1>4, <1>5, <2>1, FileStep DEF Whole
<1>6. CASE Goto(s, "copy") /\ u \notin DOMAIN files /\ files' = WithFile(u, "partial")
  <2>1. DOMAIN files' = DOMAIN files \cup {u} /\ files'[u] = "partial"
        /\ \A w \in DOMAIN files : files'[w] = files[w]
    BY Zenon, <1>6 DEF WithFile
  <2>2. \A w : Whole(w) => Whole(w)'
    BY Zenon, <2>1 DEF Whole
  <2>3. FileInv'
    <3>1. \A t \in Slots : /\ t # s => req'[t] = req[t]
                           /\ t = s => req'[t].pc = "copy" /\ req'[t].body = u
      BY Zenon, <1>2, <1>6
    <3>2. \A t \in Slots : t # s /\ req[t].pc = "copy" =>
            req[t].body # u /\ req[t].body \in DOMAIN files /\ files[req[t].body] = "partial"
      BY Zenon, <1>6 DEF ReleaseInv, FileInv
    <3>4. \A t \in Slots : req'[t].pc = "persist" => Whole(req[t].body)'
      BY <2>1, <3>1 DEF ReleaseInv, FileInv, Whole
    <3>5. \A t \in Slots : req'[t].pc = "copy" => req'[t].body \in DOMAIN files' /\ files'[req'[t].body] = "partial"
      BY <2>1, <3>1, <3>2
    <3>6. \A t, w \in Slots : req'[t].pc = "copy" /\ req'[w].pc = "copy" /\ req'[t].body = req'[w].body => t = w
      BY <3>1, <3>2 DEF ReleaseInv, FileInv
    <3> QED BY Zenon, <3>4, <3>5, <3>6 DEF FileInv
  <2> QED BY Zenon, <1>1, <1>4, <2>2, <2>3, FileStep
<1>7. CASE At(s, "copy") /\ Goto(s, "persist") /\ files' = WithFile(u, "whole")
  <2>1. DOMAIN files' = DOMAIN files \cup {u} /\ files'[u] = "whole"
        /\ \A w \in DOMAIN files : w # u => files'[w] = files[w]
    BY Zenon, <1>7 DEF WithFile
  <2>2. \A w : Whole(w) => Whole(w)'
    BY Zenon, <2>1 DEF Whole
  <2>3. FileInv'
    <3>1. \A t \in Slots : /\ t # s => req'[t] = req[t]
                           /\ t = s => req'[t].pc = "persist" /\ req'[t].body = u
      BY Zenon, <1>2, <1>7
    <3>2. \A t \in Slots : t # s /\ req[t].pc = "copy" =>
            req[t].body # u /\ req[t].body \in DOMAIN files /\ files[req[t].body] = "partial"
      BY Zenon, <1>7 DEF ReleaseInv, FileInv, At
    <3>4. \A t \in Slots : req'[t].pc = "persist" => Whole(req[t].body)'
      BY <2>1, <3>1 DEF ReleaseInv, FileInv, Whole
    <3>5. \A t \in Slots : req'[t].pc = "copy" => req'[t].body \in DOMAIN files' /\ files'[req'[t].body] = "partial"
      BY <2>1, <3>1, <3>2
    <3>6. \A t, w \in Slots : req'[t].pc = "copy" /\ req'[w].pc = "copy" /\ req'[t].body = req'[w].body => t = w
      BY <3>1 DEF ReleaseInv, FileInv
    <3> QED BY <3>4, <3>5, <3>6 DEF FileInv
  <2> QED BY <1>1, <1>4, <2>2, <2>3, FileStep
<1>8. CASE At(s, "copy") /\ End(s) /\ files' = [w \in DOMAIN files \ {u} |-> files[w]]
  <2>1. files[u] = "partial"
    BY Zenon, <1>8 DEF ReleaseInv, FileInv, At
  <2>2. \A w : Whole(w) => Whole(w)'
    BY Zenon, <1>8, <2>1 DEF Whole
  <2>3. FileInv'
    <3>1. \A t \in Slots : /\ t # s => req'[t] = req[t]
                           /\ t = s => req'[t].pc = "idle"
      BY Zenon, <1>3, <1>8
    <3>2. \A t \in Slots : t # s /\ req[t].pc = "copy" =>
            req[t].body # u /\ req[t].body \in DOMAIN files /\ files[req[t].body] = "partial"
      BY Zenon, <1>8 DEF ReleaseInv, FileInv, At
    <3>4. \A t \in Slots : req'[t].pc = "persist" => Whole(req[t].body)'
      BY Zenon, <1>8, <2>1, <3>1 DEF ReleaseInv, FileInv, Whole
    <3>5. \A t \in Slots : req'[t].pc = "copy" => req'[t].body \in DOMAIN files' /\ files'[req'[t].body] = "partial"
      BY Zenon, <1>8, <3>1, <3>2
    <3>6. \A t, w \in Slots : req'[t].pc = "copy" /\ req'[w].pc = "copy" /\ req'[t].body = req'[w].body => t = w
      BY <3>1 DEF ReleaseInv, FileInv
    <3> QED BY <3>4, <3>5, <3>6 DEF FileInv
  <2> QED BY <1>1, <1>4, <2>2, <2>3, FileStep
<1> QED BY Zenon, <1>5, <1>6, <1>7, <1>8 DEF CreateFile, CopyFile

\* A start leaves the texts of the file and its hash alone, and reads both back.
LEMMA StartRelease ==
  ASSUME Types, ReleaseInv, StartServer \/ EnsureDefaultSettings \/ ApplySystemSettings \/ StartFails
  PROVE  ReleaseInv'
<1>1. UNCHANGED <<files, split, update, req, console>> /\ server # "up"
  BY DEF StartServer, EnsureDefaultSettings, ApplySystemSettings, StartFails, rows, clients, history
<1>2. FileInv'
  BY <1>1 DEF ReleaseInv, FileInv, Whole
<1>3. "file" \in Keys /\ "sha" \in Keys
  BY Zenon, KeyAssumption
<1>4. stored'["file"] = stored["file"] /\ stored'["sha"] = stored["sha"]
  <2>1. \A k \in {"file", "sha"} : DefaultText(k) = stored[k]
    BY ReleaseAssumption DEF DefaultText, Text
  <2> QED BY <1>3, <2>1 DEF StartServer, EnsureDefaultSettings, ApplySystemSettings, StartFails, rows, Types
<1>5. server' = "up" => \A k \in {"file", "sha"} : cfg'[k] = Value(stored[k])
  BY <1>1, <1>3, ReleaseAssumption
     DEF StartServer, EnsureDefaultSettings, ApplySystemSettings, StartFails, Value
<1>6. PairInv'
  <2> SUFFICES ASSUME ~split PROVE PairInv'
    BY <1>1 DEF PairInv
  <2>1. Value(stored["sha"]) = Value(stored["file"])
        /\ (Value(stored["file"]) # Empty => Whole(Value(stored["file"])))
    <3>1. Paired([k \in Keys |-> Value(stored[k])])
      BY <1>1 DEF ReleaseInv, PairInv
    <3> QED BY <1>3, <3>1 DEF Paired
  <2>2. server' = "up" => Paired(cfg)'
    BY <1>1, <1>5, <2>1 DEF Paired, Whole
  <2>3. Paired([k \in Keys |-> Value(stored[k])])'
    BY <1>1, <1>3, <1>4, <2>1 DEF Paired, Whole, Value
  <2>4. /\ \A c \in Consoles : console[c].form # NoRow => Paired(console[c].form)
        /\ \A t \in Slots : Target(req[t]) = "settings" => Paired(req[t].body)
    BY Zenon DEF ReleaseInv, PairInv
  <2>5. /\ \A c \in Consoles : console'[c].form # NoRow => Paired(console[c].form)'
        /\ \A t \in Slots : Target(req[t])' = "settings" => Paired(req[t].body)'
    BY <1>1, <2>4 DEF Paired, Whole, Target
  <2> QED BY <2>2, <2>3, <2>5 DEF PairInv
<1> QED BY Zenon, <1>1, <1>2, <1>6 DEF ReleaseInv, UpdateInv

\* A crash that no save is caught by leaves the rows as the memory was.
LEMMA CrashRelease ==
  ASSUME Types, SettingsInv, ReleaseInv, Crash
  PROVE  ReleaseInv'
<1>1. UNCHANGED <<files, update, console, stored>> /\ server = "up" /\ server' = "down"
      /\ (\A t \in Slots : req'[t] = Idle)
      /\ split' = (split \/ torn \/ \E t \in Slots : Saving(t))
  BY DEF Crash, rows, clients
<1>2. FileInv'
  BY <1>1 DEF FileInv, Idle
<1>3. PairInv'
  <2> SUFFICES ASSUME ~split, ~torn, \A t \in Slots : ~Saving(t) PROVE PairInv'
    BY Zenon, <1>1 DEF PairInv
  <2>1. "file" \in Keys /\ "sha" \in Keys /\ cfg \in Settings
    BY <1>1, KeyAssumption DEF Types
  <2>2. \A k \in Keys : stored[k] = Text(cfg[k]) /\ cfg[k] \in Values
    BY <1>1, <2>1 DEF SettingsInv, TidyInv, Settings
  <2>3. \A k \in Keys : Value(stored[k]) = cfg[k]
    BY <2>2, TextValue
  <2>4. Paired(cfg) /\ \A c \in Consoles : console[c].form # NoRow => Paired(console[c].form)
    BY <1>1 DEF ReleaseInv, PairInv
  <2>5. Paired([k \in Keys |-> Value(stored[k])])'
    <3>1. [k \in Keys |-> Value(stored[k])]' = [k \in Keys |-> Value(stored[k])]
      BY <1>1 DEF Value
    <3>2. Value(stored["file"]) = cfg["file"] /\ Value(stored["sha"]) = cfg["sha"]
      BY <2>1, <2>3
    <3>3. Paired([k \in Keys |-> Value(stored[k])])
      BY Zenon, <2>1, <2>4, <3>2 DEF Paired
    <3> QED BY <1>1, <3>1, <3>3 DEF Paired, Whole
  <2>6. \A c \in Consoles : console'[c].form # NoRow => Paired(console[c].form)'
    BY Zenon, <1>1, <2>4 DEF Paired, Whole
  <2>7. \A t \in Slots : Target(req[t])' # "settings"
    BY <1>1 DEF Target, Idle
  <2> QED BY <1>1, <2>5, <2>6, <2>7 DEF PairInv
<1> QED BY <1>1, <1>2, <1>3 DEF ReleaseInv, UpdateInv

\* checkForUpdates reads the settings and writes nothing of the server's.
LEMMA UpdateRelease ==
  ASSUME ReleaseInv, FetchReleaseInfo \/ DownloadReleaseInstaller \/ LaunchUpdater
  PROVE  ReleaseInv'
<1>1. UNCHANGED <<files, stored, cfg, server, split, req, console>>
  BY DEF FetchReleaseInfo, DownloadReleaseInstaller, LaunchUpdater, rows, memory, history
<1>2. FileInv' /\ PairInv'
  <2>1. FileInv'
    BY Zenon, <1>1 DEF ReleaseInv, FileInv, Whole
  <2>2. PairInv'
    BY <1>1 DEF ReleaseInv, PairInv, Paired, Whole, Value, Target
  <2> QED BY Zenon, <2>1, <2>2
<1>3. UpdateInv'
  <2>1. DOMAIN update = {"pc", "url", "sha", "pkg"}
    BY DEF ReleaseInv, UpdateInv
  <2>2. CASE DownloadReleaseInstaller
    <3> DEFINE g == [update EXCEPT !.pc = "install", !.pkg = Served]
               h == [update EXCEPT !.pc = "idle"]
    <3>1. (update' = g /\ Verified(Served)) \/ update' = h
      BY <2>2 DEF DownloadReleaseInstaller
    <3>2. DOMAIN g = DOMAIN update /\ g.sha = update.sha /\ g.pkg = Served
          /\ DOMAIN h = DOMAIN update /\ h.pc = "idle"
      BY <2>1
    <3> HIDE DEF g, h
    <3>3. CASE update' = g /\ Verified(Served)
      BY <2>1, <3>2, <3>3 DEF UpdateInv, Verified
    <3>4. CASE update' = h
      BY <2>1, <3>2, <3>4 DEF UpdateInv
    <3> QED BY <3>1, <3>3, <3>4
  <2>3. CASE FetchReleaseInfo \/ LaunchUpdater
    BY <2>1, <2>3 DEF FetchReleaseInfo, LaunchUpdater, UpdateInv
  <2> QED BY <2>2, <2>3
<1> QED BY <1>2, <1>3 DEF ReleaseInv

\* Before the first start there is no release.
LEMMA InitRelease == Init => ReleaseInv
<1> SUFFICES ASSUME Init PROVE ReleaseInv
  OBVIOUS
<1>1. /\ \A s \in Slots : req[s].pc = "idle"
      /\ \A c \in Consoles : console[c].form = NoRow
      /\ server = "down" /\ update.pc = "idle" /\ DOMAIN update = {"pc", "url", "sha", "pkg"}
      /\ \A k \in Keys : stored[k] = Empty
  BY Zenon DEF Init, Idle
<1>2. Paired([k \in Keys |-> Value(stored[k])])
  BY Zenon, <1>1, KeyAssumption DEF Paired, Value
<1> QED BY <1>1, <1>2 DEF ReleaseInv, FileInv, PairInv, UpdateInv, Target

\* Every step keeps file and hash together.
LEMMA ReleaseStep == Types /\ SettingsInv /\ ReleaseInv /\ [Next]_vars => ReleaseInv'
<1> SUFFICES ASSUME Types, SettingsInv, ReleaseInv, [Next]_vars PROVE ReleaseInv'
  OBVIOUS
<1>1. CASE UNCHANGED vars \/ \E i \in DOMAIN tokens : TokenExpires(i)
  <2>1. UNCHANGED <<files, stored, cfg, server, split, update, console, req>>
    BY <1>1 DEF vars, TokenExpires, rows, memory, history, clients
  <2> QED BY <2>1, UnreleasedStep DEF SameUse
<1>2. ASSUME NEW s \in Slots, Session(s) \/ Change(s) PROVE ReleaseInv'
  BY <1>2, NewRequestRelease, SessionRelease
<1> QED BY <1>1, <1>2, SaveRelease, UploadRelease, StartRelease, CrashRelease, UpdateRelease
    DEF Next, Save

\* The release that clients are offered names a file that is on disk, complete, and its
\* own hash, also while settings forms loaded earlier are saved and while other uploads
\* are under way, unless the server started from the rows of a save that was cut short;
\* what a client installs has the hash it was offered.  For any number of
\* consoles, uploads and requests (persistReleaseUpload, handleSettings,
\* handleAdminReleaseUpload, downloadReleaseInstaller).
THEOREM ReleasesPaired == Spec => []ReleasePaired
<1>1. ReleaseInv => ReleasePaired
  BY DEF ReleaseInv, UpdateInv, PairInv, Paired, Whole, ReleasePaired
<1> QED BY <1>1, InitTypes, TypesStep, InitSettings, SettingsStep, InitRelease, ReleaseStep, PTL DEF Spec
=============================================================================
