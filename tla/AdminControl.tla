--------------------------- MODULE AdminControl ---------------------------
(***************************************************************************)
(* The administrator's side of the server: the sessions of auth_jwt.go,    *)
(* the password change and the settings of handlers_admin.go, the release  *)
(* uploads of handlers_release.go with the clients that install them, and  *)
(* the start of the server (New in server.go, auth.go, settings.go) over   *)
(* the tables of internal/controlstore/store.go.                           *)
(*                                                                         *)
(* A request is a process whose pc stands before its next statement.  The  *)
(* server may crash between any two steps; what it had in memory is lost   *)
(* and it starts again from the tables.  Tokens are ids, a password stands *)
(* for itself and its hash, an access token for its claims; the signature  *)
(* and the expiry of access tokens are left out.  The text of a setting is *)
(* the tuple of its value, and Empty is the empty text.  The keys "url",   *)
(* "file" and "sha" are those of one product's release; a package stands   *)
(* for its path and for the hash of its contents.                          *)
(***************************************************************************)
EXTENDS Naturals, Sequences, FiniteSets

CONSTANTS Slots, Consoles, Passwords,
          Initial,     \* the password of the old meta row, or else the default one
          Packages,    \* release packages an upload may bring
          Installer,   \* the URL the server serves the release file at
          Site,        \* another URL, and the package found there
          Keys,        \* the settings
          Kind,        \* key -> "duration", "bool" or "string"
          Offered,     \* key -> the values the settings page may be given
          Shortest,    \* the least duration a PATCH may set
          Defaults,    \* key -> the value of the start configuration
          Legacies,    \* key -> the text of the old meta row, or Empty
          Empty, NoRow,
          Mixes        \* a behaviour has the requests (ops) and the bounds (requests,
                       \* faults, crashes) of one of these

\* An administrator's row; what a setting may be; the settings in memory.
Users == [pw : Passwords, version : Nat \ {0}, force : BOOLEAN]
Values == (UNION {Offered[k] \cup {Defaults[k]} : k \in Keys}) \cup Packages \cup {Empty}
            \cup {Legacies[k][1] : k \in {j \in Keys : Legacies[j] # Empty}}

Settings == [Keys -> Values]

\* A value that is not the empty string has a text that is not empty.
ASSUME TextAssumption ==
  /\ \A k \in Keys : \A v \in Offered[k] \cup {Defaults[k]} : <<v>> # Empty
  /\ \A u \in Packages : <<u>> # Empty
ASSUME LegacyAssumption ==
  \A k \in Keys : Legacies[k] # Empty => Legacies[k] = <<Legacies[k][1]>> /\ Legacies[k][1] # Empty
ASSUME KeyAssumption == {"url", "file", "sha"} \subseteq Keys
ASSUME RowAssumption == Initial \in Passwords /\ NoRow \notin Users
\* The file of a release and its hash come from uploads alone.
ASSUME ReleaseAssumption ==
  \A k \in {"file", "sha"} : Offered[k] = {} /\ Defaults[k] = Empty /\ Legacies[k] = Empty

VARIABLES
  user,      \* admin_users: [pw, version, force] or NoRow
  tokens,    \* admin_refresh_tokens: [revoked, expired], by id
  stored,    \* system_settings: key -> text
  cfg,       \* App.cfg: key -> value, while the server is up
  server,    \* "down", "defaults", "apply" or "up"
  left,      \* the keys ensureDefaultSettings has yet to look at
  req,       \* the requests
  files,     \* the release files on disk: package -> "partial" or "whole"
  console,   \* what each console holds: [access, refresh, form]
  update,    \* checkForUpdates of a client: [pc, url, sha, pkg]
  mix, requests, faults, crashes,
  torn,      \* history: a PATCH failed or overlapped another since the last clean one
  split,     \* history: the server has started from rows of a torn save
  before,    \* history: the settings when the server crashed, or NoRow
  used,      \* history: token -> pairs issued for it
  loose,     \* history: tokens with overlapping refreshes or a revocation that failed
  dead       \* history: tokens that a logout or a password change has revoked

rows == <<user, tokens, stored, files>>
memory == <<cfg, server, left>>
bounds == <<mix, requests, faults, crashes>>
history == <<torn, split, before, used, loose, dead>>
clients == <<console, update>>
vars == <<rows, memory, req, clients, bounds, history>>

-----------------------------------------------------------------------------
\* State
Idle == [op |-> "none", pc |-> "idle", console |-> NoRow, token |-> 0, claims |-> NoRow,
         pw |-> NoRow, new |-> NoRow, row |-> NoRow, body |-> NoRow, left |-> {},
         alone |-> FALSE, known |-> {}]

Text(v) == IF v = Empty THEN Empty ELSE <<v>>
Value(t) == IF t = Empty THEN Empty ELSE t[1]
SetReq(s, r) == req' = [req EXCEPT ![s] = r]
Goto(s, pc) == SetReq(s, [req[s] EXCEPT !.pc = pc])
End(s) == SetReq(s, Idle)
At(s, pc) == req[s].pc = pc
Saving(s) == At(s, "save")

Init ==
  /\ mix \in Mixes /\ requests = 0 /\ faults = 0 /\ crashes = 0
  /\ user = NoRow /\ tokens = <<>> /\ stored = [k \in Keys |-> Empty]
  /\ cfg = NoRow /\ server = "down" /\ left = {}
  /\ req = [s \in Slots |-> Idle]
  /\ console = [c \in Consoles |-> [access |-> NoRow, refresh |-> 0, form |-> NoRow]]
  /\ files = <<>> /\ update = [pc |-> "idle", url |-> Empty, sha |-> Empty, pkg |-> Empty]
  /\ torn = FALSE /\ split = FALSE /\ before = NoRow /\ used = <<>> /\ loose = {} /\ dead = {}

-----------------------------------------------------------------------------
\* New: the server starts
UpsertAdminUser(pw) == user' = [pw |-> pw, version |-> 1, force |-> TRUE]

\* mutant: every start sets the initial password
EnsureAdminUserAlways == UpsertAdminUser(Initial)

EnsureAdminUser == IF user # NoRow THEN UNCHANGED user ELSE UpsertAdminUser(Initial)

StartServer ==
  /\ server = "down" /\ EnsureAdminUser
  /\ server' = "defaults" /\ left' = Keys
  /\ UNCHANGED <<tokens, stored, files, cfg, req, clients, bounds, history>>

\* A key without a text takes that of the old meta row or the default.
DefaultText(k) == IF stored[k] # Empty THEN stored[k]
                  ELSE IF Legacies[k] # Empty THEN Legacies[k] ELSE Text(Defaults[k])

EnsureDefaultSettings ==
  /\ server = "defaults"
  /\ IF left = {} THEN server' = "apply" /\ UNCHANGED <<stored, left>>
     ELSE /\ \E k \in left : /\ stored' = [stored EXCEPT ![k] = DefaultText(k)]
                             /\ left' = left \ {k}
          /\ UNCHANGED server
  /\ UNCHANGED <<user, tokens, files, cfg, req, clients, bounds, history>>

\* Durations and booleans keep the start configuration when there is no text.
ApplySystemSettings ==
  /\ server = "apply" /\ server' = "up"
  /\ cfg' = [k \in Keys |-> IF stored[k] = Empty /\ Kind[k] # "string"
                            THEN Defaults[k] ELSE Value(stored[k])]
  /\ torn' = FALSE
  /\ UNCHANGED <<rows, left, req, clients, bounds, split, before, used, loose, dead>>

\* A statement of the start fails, and the process ends.
StartFails ==
  /\ server \in {"defaults", "apply"} /\ faults < mix.faults
  /\ server' = "down" /\ left' = {} /\ faults' = faults + 1
  /\ UNCHANGED <<rows, cfg, req, clients, mix, requests, crashes, history>>

Crash ==
  /\ server = "up" /\ crashes < mix.crashes /\ crashes' = crashes + 1
  /\ server' = "down" /\ cfg' = NoRow /\ req' = [s \in Slots |-> Idle]
  /\ LET dirty == torn \/ \E s \in Slots : Saving(s)
     IN before' = (IF dirty THEN NoRow ELSE cfg) /\ split' = (split \/ dirty)
  /\ UNCHANGED <<rows, left, clients, mix, requests, faults, torn, used, loose, dead>>

-----------------------------------------------------------------------------
\* Requests
Admit(s, r) ==
  /\ server = "up" /\ At(s, "idle") /\ r.op \in mix.ops /\ requests < mix.requests
  /\ requests' = requests + 1 /\ SetReq(s, r)
  /\ UNCHANGED <<rows, memory, clients, mix, faults, crashes, history>>

Login(s) ==
  \E c \in Consoles, pw \in Passwords :
    Admit(s, [Idle EXCEPT !.op = "login", !.pc = "find", !.console = c, !.pw = pw])

WithRefresh(s) ==
  \E c \in Consoles :
    /\ console[c].refresh # 0
    /\ LET r == [Idle EXCEPT !.console = c, !.token = console[c].refresh, !.known = dead]
       IN \/ Admit(s, [r EXCEPT !.op = "refresh", !.pc = "token"])
          \/ Admit(s, [r EXCEPT !.op = "logout", !.pc = "logout"])

\* Requests behind requireAdmin
WithAccess(s) ==
  \E c \in Consoles :
    /\ console[c].access # NoRow
    /\ LET r == [Idle EXCEPT !.console = c, !.pc = "auth", !.claims = console[c].access]
       IN \/ Admit(s, [r EXCEPT !.op = "me"])
          \/ \E new \in Passwords : Admit(s, [r EXCEPT !.op = "change", !.pw = user.pw, !.new = new])
          \/ Admit(s, [r EXCEPT !.op = "get"])
          \/ \E u \in Packages : Admit(s, [r EXCEPT !.op = "upload", !.body = u])
          \/ /\ console[c].form # NoRow
             /\ \E k \in Keys : \E v \in Offered[k] :
                  Admit(s, [r EXCEPT !.op = "settings", !.body = [console[c].form EXCEPT ![k] = v]])

\* handleAdminLogin
CheckPassword(s) ==
  /\ At(s, "find")
  /\ IF user = NoRow \/ user.pw # req[s].pw THEN End(s)
     ELSE SetReq(s, [req[s] EXCEPT !.pc = "issue", !.row = user])
  /\ UNCHANGED <<rows, memory, clients, bounds, history>>

\* issueAdminTokenPair: the claims take the version of the row as it was read
IssueAdminTokenPair(s) ==
  /\ At(s, "issue") /\ End(s)
  /\ tokens' = Append(tokens, [revoked |-> FALSE, expired |-> FALSE])
  /\ used' = Append(IF req[s].op = "refresh" THEN [used EXCEPT ![req[s].token] = @ + 1] ELSE used, 0)
  /\ console' = [console EXCEPT
       ![req[s].console].access = [version |-> req[s].row.version, pw |-> req[s].pw],
       ![req[s].console].refresh = Len(tokens) + 1]
  /\ UNCHANGED <<update, user, stored, files, memory, bounds, torn, split, before, loose, dead>>

\* handleAdminRefresh
GetAdminRefreshToken(s) ==
  /\ At(s, "token")
  /\ LET i == req[s].token
     IN IF tokens[i].revoked THEN End(s) /\ UNCHANGED loose
        ELSE /\ Goto(s, IF tokens[i].expired THEN "logout" ELSE "rotate")
             /\ loose' = IF \E t \in Slots \ {s} : At(t, "rotate") /\ req[t].token = i
                         THEN loose \cup {i} ELSE loose
  /\ UNCHANGED <<rows, memory, clients, bounds, torn, split, before, used, dead>>

\* mutant: the old token is only touched
RotateTouchOnly(s) ==
  /\ At(s, "rotate") /\ Goto(s, "reload")
  /\ UNCHANGED <<rows, memory, clients, bounds, history>>

\* TouchAdminRefreshToken and RevokeAdminRefreshToken; their errors are ignored
Rotate(s) ==
  /\ At(s, "rotate") /\ Goto(s, "reload")
  /\ \/ /\ tokens' = [tokens EXCEPT ![req[s].token].revoked = TRUE]
        /\ UNCHANGED <<faults, loose>>
     \/ /\ faults < mix.faults /\ faults' = faults + 1
        /\ loose' = loose \cup {req[s].token} /\ UNCHANGED tokens
  /\ UNCHANGED <<user, stored, files, memory, clients, mix, requests, crashes,
                 torn, split, before, used, dead>>

GetAdminUserByID(s) ==
  /\ At(s, "reload")
  /\ IF user = NoRow THEN End(s) ELSE SetReq(s, [req[s] EXCEPT !.pc = "issue", !.row = user])
  /\ UNCHANGED <<rows, memory, clients, bounds, history>>

\* handleAdminLogout; also the end of a refresh whose token has expired
RevokeAdminRefreshToken(s) ==
  /\ At(s, "logout") /\ End(s)
  /\ tokens' = [tokens EXCEPT ![req[s].token].revoked = TRUE]
  /\ dead' = dead \cup {req[s].token}
  /\ UNCHANGED <<user, stored, files, memory, clients, bounds, torn, split, before, used, loose>>

TokenExpires(i) ==
  /\ "expire" \in mix.ops /\ ~tokens[i].expired
  /\ tokens' = [tokens EXCEPT ![i].expired = TRUE]
  /\ UNCHANGED <<user, stored, files, memory, req, clients, bounds, history>>

-----------------------------------------------------------------------------
\* requireAdmin, and the handlers behind it
RequireAdmin(s) ==
  /\ At(s, "auth")
  /\ IF user = NoRow \/ user.version # req[s].claims.version THEN End(s) ELSE Goto(s, req[s].op)
  /\ UNCHANGED <<rows, memory, clients, bounds, history>>

AnswerMe(s) ==
  /\ At(s, "me") /\ End(s)
  /\ UNCHANGED <<rows, memory, clients, bounds, history>>

\* handleSettings, GET: the settings page holds what the memory was
GetSettings(s) ==
  /\ At(s, "get") /\ End(s)
  /\ console' = [console EXCEPT ![req[s].console].form = cfg]
  /\ UNCHANGED <<rows, memory, update, bounds, history>>

\* handleChangePassword: the row is read again, the current password compared
CheckChange(s) ==
  /\ At(s, "change")
  /\ IF user = NoRow \/ user.version # req[s].claims.version \/ user.pw # req[s].pw
     THEN End(s) ELSE Goto(s, "update")
  /\ UNCHANGED <<rows, memory, clients, bounds, history>>

\* mutant: the version stays, so that the tokens issued before still pass
UpdateAdminPasswordOnly(s) ==
  /\ At(s, "update") /\ user' = [user EXCEPT !.pw = req[s].new]
  /\ SetReq(s, [req[s] EXCEPT !.pc = "clear", !.known = DOMAIN tokens])
  /\ UNCHANGED <<tokens, stored, files, memory, clients, bounds, history>>

UpdateAdminPassword(s) ==
  /\ At(s, "update") /\ user' = [user EXCEPT !.pw = req[s].new, !.version = @ + 1]
  /\ SetReq(s, [req[s] EXCEPT !.pc = "clear", !.known = DOMAIN tokens])
  /\ UNCHANGED <<tokens, stored, files, memory, clients, bounds, history>>

ClearAdminPasswordChangeRequired(s) ==
  /\ At(s, "clear") /\ user' = [user EXCEPT !.force = FALSE] /\ Goto(s, "revoke")
  /\ UNCHANGED <<tokens, stored, files, memory, clients, bounds, history>>

\* mutant: the newest refresh token of the user is kept
RevokeOlderOfUser ==
  tokens' = [i \in DOMAIN tokens |-> [tokens[i] EXCEPT !.revoked = @ \/ i < Len(tokens)]]

RevokeAdminRefreshTokensByUser ==
  tokens' = [i \in DOMAIN tokens |-> [tokens[i] EXCEPT !.revoked = TRUE]]

RevokeAfterChange(s) ==
  /\ At(s, "revoke") /\ End(s) /\ RevokeAdminRefreshTokensByUser
  /\ dead' = dead \cup req[s].known
  /\ UNCHANGED <<user, stored, files, memory, clients, bounds, torn, split, before, used, loose>>

-----------------------------------------------------------------------------
\* handleSettings, PATCH, and persistReleaseUpload: the memory under cfgMu, then the rows
TooShort(body) == \E k \in Keys : Kind[k] = "duration" /\ body[k] < Shortest

ApplyInMemory(s, body) ==
  /\ cfg' = [k \in Keys |-> IF k \in DOMAIN body THEN body[k] ELSE cfg[k]]
  /\ LET others == {t \in Slots \ {s} : Saving(t)}
     IN /\ req' = [t \in Slots |->
             IF t = s THEN [req[t] EXCEPT !.pc = "save", !.body = body, !.left = DOMAIN body,
                                          !.alone = others = {}]
             ELSE IF t \in others THEN [req[t] EXCEPT !.alone = FALSE] ELSE req[t]]
        /\ torn' = (torn \/ others # {})

PatchSettings(s) ==
  /\ At(s, "settings")
  /\ IF TooShort(req[s].body) THEN End(s) /\ UNCHANGED <<cfg, torn>>
     ELSE ApplyInMemory(s, req[s].body)
  /\ UNCHANGED <<rows, server, left, clients, bounds, split, before, used, loose, dead>>

WithFile(u, f) == [p \in DOMAIN files \cup {u} |-> IF p = u THEN f ELSE files[p]]

\* handleAdminReleaseUpload: O_EXCL refuses a path that is there already
CreateFile(s) ==
  /\ At(s, "upload")
  /\ IF req[s].body \in DOMAIN files THEN End(s) /\ UNCHANGED files
     ELSE Goto(s, "copy") /\ files' = WithFile(req[s].body, "partial")
  /\ UNCHANGED <<user, tokens, stored, memory, clients, bounds, history>>

CopyFile(s) ==
  /\ At(s, "copy")
  /\ \/ Goto(s, "persist") /\ files' = WithFile(req[s].body, "whole")
     \/ End(s) /\ files' = [u \in DOMAIN files \ {req[s].body} |-> files[u]]
  /\ UNCHANGED <<user, tokens, stored, memory, clients, bounds, history>>

\* mutant: the hash of the release before stays
UploadSettingsNoHash(u) == [k \in {"url", "file"} |-> IF k = "url" THEN Empty ELSE u]

UploadSettings(u) == [k \in {"url", "file", "sha"} |-> IF k = "url" THEN Empty ELSE u]

PersistReleaseUpload(s) ==
  /\ At(s, "persist") /\ ApplyInMemory(s, UploadSettings(req[s].body))
  /\ UNCHANGED <<rows, server, left, clients, bounds, split, before, used, loose, dead>>

\* mutant: a text that is empty is not written
PutSystemSettingNonEmpty(k, v) ==
  stored' = IF v = Empty THEN stored ELSE [stored EXCEPT ![k] = Text(v)]

PutSystemSetting(k, v) == stored' = [stored EXCEPT ![k] = Text(v)]

\* One key, in the order of the map; the last one ends the request.
SaveSetting(s) ==
  /\ Saving(s)
  /\ \E k \in req[s].left :
       /\ PutSystemSetting(k, req[s].body[k])
       /\ IF req[s].left # {k}
          THEN SetReq(s, [req[s] EXCEPT !.left = @ \ {k}]) /\ UNCHANGED torn
          ELSE /\ End(s)
               /\ torn' = (torn /\ ~(req[s].alone /\ DOMAIN req[s].body = Keys))
  /\ UNCHANGED <<user, tokens, files, memory, clients, bounds, split, before, used, loose, dead>>

\* A statement fails or the console goes away: the handler returns.
Fail(s) ==
  /\ req[s].pc \in {"find", "issue", "token", "reload", "logout", "auth", "me", "change",
                    "update", "clear", "revoke", "upload", "save"}
  /\ faults < mix.faults /\ faults' = faults + 1
  /\ End(s) /\ torn' = (torn \/ Saving(s))
  /\ UNCHANGED <<rows, memory, clients, mix, requests, crashes, split, before, used, loose, dead>>

-----------------------------------------------------------------------------
\* checkForUpdates of a client
\* handleClientRelease: the file uploaded is offered when no URL is set
ClientRelease == [url |-> IF cfg["url"] = Empty /\ cfg["file"] # Empty THEN Installer ELSE cfg["url"],
                  sha |-> cfg["sha"]]

FetchReleaseInfo ==
  /\ "update" \in mix.ops /\ server = "up" /\ update.pc = "idle" /\ ClientRelease.url # Empty
  /\ update' = [pc |-> "download", url |-> ClientRelease.url, sha |-> ClientRelease.sha,
                pkg |-> Empty]
  /\ UNCHANGED <<rows, memory, req, console, bounds, history>>

\* handleClientInstaller serves the file of now, not that of the offer
Served == IF update.url = Installer THEN cfg["file"] ELSE Site

Verified(pkg) == update.sha = Empty \/ update.sha = pkg

\* A failed download or comparison ends the check; the next one starts over.
DownloadReleaseInstaller ==
  /\ update.pc = "download" /\ (update.url = Installer => server = "up")
  /\ LET pkg == Served
     IN update' = IF pkg # Empty /\ Verified(pkg) THEN [update EXCEPT !.pc = "install", !.pkg = pkg]
                  ELSE [update EXCEPT !.pc = "idle"]
  /\ UNCHANGED <<rows, memory, req, console, bounds, history>>

LaunchUpdater ==
  /\ update.pc = "install" /\ update' = [update EXCEPT !.pc = "idle"]
  /\ UNCHANGED <<rows, memory, req, console, bounds, history>>

-----------------------------------------------------------------------------
Session(s) ==
  \/ Login(s) \/ WithRefresh(s) \/ WithAccess(s) \/ CheckPassword(s) \/ IssueAdminTokenPair(s)
  \/ GetAdminRefreshToken(s) \/ Rotate(s) \/ GetAdminUserByID(s) \/ RevokeAdminRefreshToken(s)
  \/ RequireAdmin(s) \/ AnswerMe(s) \/ GetSettings(s) \/ Fail(s)

Change(s) ==
  \/ CheckChange(s) \/ UpdateAdminPassword(s) \/ ClearAdminPasswordChangeRequired(s)
  \/ RevokeAfterChange(s)

Save(s) ==
  \/ PatchSettings(s) \/ SaveSetting(s) \/ CreateFile(s) \/ CopyFile(s) \/ PersistReleaseUpload(s)

Next ==
  \/ StartServer \/ EnsureDefaultSettings \/ ApplySystemSettings \/ StartFails \/ Crash
  \/ \E s \in Slots : Session(s) \/ Change(s) \/ Save(s)
  \/ \E i \in DOMAIN tokens : TokenExpires(i)
  \/ FetchReleaseInfo \/ DownloadReleaseInstaller \/ LaunchUpdater

Spec == Init /\ [][Next]_vars

-----------------------------------------------------------------------------
\* The values of the variables, as declared above.
TypeOK ==
  /\ user = NoRow \/ user \in [pw : Passwords, version : Nat \ {0}, force : BOOLEAN]
  /\ \A i \in DOMAIN tokens : tokens[i] \in [revoked : BOOLEAN, expired : BOOLEAN]
  /\ DOMAIN stored = Keys /\ (server = "up" => DOMAIN cfg = Keys)
  /\ server \in {"down", "defaults", "apply", "up"} /\ left \subseteq Keys
  /\ \A s \in Slots : DOMAIN req[s] = DOMAIN Idle
  /\ \A s \in Slots : Saving(s) => req[s].left # {} /\ req[s].left \subseteq DOMAIN req[s].body
  /\ DOMAIN files \subseteq Packages /\ update.pc \in {"idle", "download", "install"}

\* Once no save is under way, the rows hold what the server works with, whatever order
\* the keys were written in, unless a save failed or two of them overlapped; a start or a
\* whole save that nothing disturbs mends that (handleSettings, persistReleaseUpload).
StoredMatchesMemory ==
  server = "up" /\ ~torn /\ (\A s \in Slots : ~Saving(s)) =>
    \A k \in Keys : stored[k] = Text(cfg[k])

\* A restart gives back the settings the server had, those with an empty text apart, and
\* leaves the administrator it finds: a changed password survives any number of starts
\* (ensureDefaultSettings, applySystemSettingsLocked, ensureAdminUser).
SettingsKept ==
  [][/\ server = "apply" /\ server' = "up" /\ before # NoRow =>
          \A k \in Keys : before[k] # Empty => cfg'[k] = before[k]
     /\ server # "up" /\ user # NoRow => user' = user]_vars

\* A restart gives back every setting that a PATCH or an upload has saved.
SavedSettingsKept ==
  [][server = "apply" /\ server' = "up" /\ before # NoRow => cfg' = before]_vars

\* An access token that a login issued passes requireAdmin only while the password of
\* that login is the administrator's, whatever else happened between the reading of the
\* row and the signing of the token.
LoginEndsWithPassword ==
  [][\A s \in Slots : At(s, "auth") /\ req'[s].pc = req[s].op /\ req[s].claims.pw # NoRow =>
       req[s].claims.pw = user.pw]_vars

\* A refresh token is exchanged for one pair at most, unless two refreshes have read it
\* before either revoked it, or the revocation failed (handleAdminRefresh).
RotatedOnce == \A i \in DOMAIN used : i \in loose \/ used[i] <= 1

\* No refresh that begins after a logout or a password change has ended gets a pair for a
\* token that it revoked (handleAdminLogout, handleChangePassword).
RevokedGivesNothing ==
  [][\A s \in Slots : At(s, "issue") /\ req[s].op = "refresh" /\ tokens' # tokens /\ req'[s] = Idle =>
       req[s].token \notin req[s].known]_vars

\* The release that clients are offered names a file that is on disk, complete, and its own
\* hash, also while settings forms loaded earlier are saved; a start from the rows of a
\* save that was cut short is excepted.  What a client installs has the hash it was offered,
\* also when another release came between its two requests (persistReleaseUpload,
\* handleSettings, downloadReleaseInstaller).
ReleasePaired ==
  /\ server = "up" /\ ~split =>
       /\ cfg["sha"] = cfg["file"]
       /\ cfg["file"] # Empty => cfg["file"] \in DOMAIN files /\ files[cfg["file"]] = "whole"
  /\ update.pc = "install" => update.sha \in {Empty, update.pkg}
=============================================================================
