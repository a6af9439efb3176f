------------------------------ MODULE Accounts ------------------------------
(* Accounts, sign-in, and who may do what: auth.ts, admin.ts, workspaces.ts *)
(* and the middleware of index.ts.  A request is a job of a client: between *)
(* two of its steps, each an awaited statement, any other job may run.      *)
EXTENDS Integers, FiniteSets, Sequences

CONSTANTS Names,        \* usernames
          Founders,     \* the administrators there are at the start
          Clients,      \* requests under way at once
          Instances,    \* processes of the service, each with its own caches
          Routes,       \* classes of routes asked for
          Kinds,        \* changes asked for
          Ttl,          \* how long a cached row is trusted
          MaxFailures,  \* AUTH_LOGIN_MAX_FAILURES
          MaxPerHour,   \* REGISTRATION_MAX_PER_HOUR
          MaxUid, MaxNow, MaxRequests,   \* bounds
          NoOne         \* no row

ASSUME TtlAssumption == Ttl \in Nat
ASSUME FoundersAssumption == /\ Founders \subseteq Names /\ Founders /= {} /\ IsFiniteSet(Founders)
                             /\ MaxUid \in Nat /\ Cardinality(Founders) <= MaxUid
ASSUME RoutesAssumption == "none" \notin Routes
ASSUME ClientsAssumption == IsFiniteSet(Clients) /\ Instances /= {} /\ MaxFailures \in Nat \ {0}

VARIABLES users,        \* platform.app_user, by id
          spaces,       \* personal rows of platform.space: the slug of one is its place
          members,      \* platform.space_member of the shared space
          failures,     \* failed rows of auth_attempt in the window, by name
          signups,      \* registrations of the hour
          open,         \* the setting registration.enabled
          cache,        \* userCache of each instance
          openCache,    \* settingsCache of each instance
          spaceCache,   \* the map of spaces each instance keeps: whose each one was
          tokens,       \* tokens handed out
          job,          \* what each client's request has reached
          now, nextUid, asked,
          overlapped    \* two removals of administrators have overlapped

vars == <<users, spaces, members, failures, signups, open, cache, openCache, spaceCache,
          tokens, job, now, nextUid, asked, overlapped>>
stored == <<users, spaces, members, failures, signups, open, nextUid>>

Uids == 1..MaxUid
Roles == {"viewer", "analyst", "admin"}
Rank == [viewer |-> 0, analyst |-> 1, admin |-> 2]
Rows == [name: Names, role: Roles, source: {"admin", "self"}, tv: Nat, pw: Nat, active: BOOLEAN]
ASSUME NoOneIsNoRow == NoOne \notin Rows
Live(n) == <<n, 0>>
Tombstone(n, u) == <<n, u>>    \* no username has a space or parentheses
Labels == Names \X (0..MaxUid)
Shared == 0                    \* the environment space
Own == -1                      \* no ?space=: the caller's own workspace
Standings == {"none", "editor", "owner"}
Changes == {"demote", "promote", "disable", "enable", "reset", "revoke", "delete",
            "create", "open", "close", "addMember", "dropMember", "none"}
ASSUME KindsAssumption == Kinds \subseteq Changes
Phases == {"idle", "lookup", "verify", "policy", "policyFill", "signups", "insert", "record", "read",
           "fill", "scope", "open", "spacesRead", "spacesFill", "make", "made", "enter", "authorize",
           "handle", "enroll", "count", "write", "clear"}
Job == [pc: Phases, at: Instances, uid: 0..MaxUid, name: Names, tv: Nat, row: Rows \cup {NoOne},
        known: BOOLEAN, route: Routes \cup {"none"}, scope: Int, owners: Seq(Labels), access: Standings,
        target: 0..MaxUid, change: Changes, seen: Rows \cup {NoOne}]
Idle == [pc |-> "idle", at |-> CHOOSE i \in Instances : TRUE, uid |-> 0, name |-> CHOOSE n \in Names : TRUE,
         tv |-> 0, row |-> NoOne, known |-> FALSE, route |-> "none", scope |-> Own, owners |-> <<>>,
         access |-> "none", target |-> 0, change |-> "none", seen |-> NoOne]
Nothing == [row |-> NoOne, at |-> 0]
NoMap == [known |-> FALSE, owners |-> <<>>, at |-> 0]

NewRow(n, role, source) ==
    [name |-> n, role |-> role, source |-> source, tv |-> 0, pw |-> 0, active |-> TRUE]
Exists(u) == u \in Uids /\ users[u] /= NoOne
UidOf(n) == IF \E u \in Uids : Exists(u) /\ users[u].name = n
            THEN CHOOSE u \in Uids : Exists(u) /\ users[u].name = n ELSE 0
ActiveAdmins == {u \in Uids : Exists(u) /\ users[u].role = "admin" /\ users[u].active}
SpaceOf(label) == {k \in 1..Len(spaces) : spaces[k].owner = label}

(* The founders were made from the command line, have signed in and have    *)
(* been to their workspaces.                                                *)
FounderOf == CHOOSE name \in [1..Cardinality(Founders) -> Founders] :
                \A u, v \in 1..Cardinality(Founders) : name[u] = name[v] => u = v
FounderIds == 1..Cardinality(Founders)

Init ==
    /\ users = [u \in Uids |-> IF u \in FounderIds THEN NewRow(FounderOf[u], "admin", "admin") ELSE NoOne]
    /\ spaces = [u \in FounderIds |-> [owner |-> Live(FounderOf[u]), by |-> u, late |-> FALSE]]
    /\ members = [n \in Names |-> "none"]
    /\ failures = [n \in Names |-> 0] /\ signups = 0
    /\ open = TRUE
    /\ cache = [i \in Instances |-> [u \in Uids |-> Nothing]]
    /\ openCache = [i \in Instances |-> [known |-> FALSE, open |-> TRUE, at |-> 0]]
    /\ spaceCache = [i \in Instances |-> NoMap]
    /\ tokens = {[uid |-> u, name |-> FounderOf[u], tv |-> 0, pw |-> 0] : u \in FounderIds}
    /\ job = [c \in Clients |-> Idle]
    /\ now = 0 /\ nextUid = Cardinality(Founders) + 1 /\ asked = 0 /\ overlapped = FALSE

Goes(c, j) == job' = [job EXCEPT ![c] = j]
To(c, pc) == Goes(c, [job[c] EXCEPT !.pc = pc])
Ends(c) == Goes(c, Idle)
Asks(c, j) == /\ job[c].pc = "idle" /\ asked < MaxRequests
              /\ asked' = asked + 1 /\ Goes(c, j)
Fresh(at) == now - at < Ttl

---------------------------------------------------------------------------
(* Signing in: count the failures, read the row, check the password.       *)

TooManyFailures_OffByOne(n) == failures[n] > MaxFailures
TooManyFailures(n) == failures[n] >= MaxFailures

AskLogin(c, n) ==
    /\ ~TooManyFailures(n)
    /\ Asks(c, [Idle EXCEPT !.pc = "lookup", !.name = n])
    /\ UNCHANGED <<stored, cache, openCache, spaceCache, tokens, now, overlapped>>

LoginReads(c) ==
    /\ job[c].pc = "lookup"
    /\ LET u == UidOf(job[c].name)
       IN Goes(c, [job[c] EXCEPT !.pc = "verify", !.uid = u, !.row = IF u = 0 THEN NoOne ELSE users[u]])
    /\ UNCHANGED <<stored, cache, openCache, spaceCache, tokens, now, asked, overlapped>>

SignToken(u, row) == tokens' = tokens \cup {[uid |-> u, name |-> row.name, tv |-> row.tv, pw |-> row.pw]}

LoginAnswers(c, right) ==
    /\ job[c].pc = "verify"
    /\ IF job[c].row /= NoOne /\ job[c].row.active /\ right
       THEN SignToken(job[c].uid, job[c].row) /\ UNCHANGED failures
       ELSE /\ failures' = [failures EXCEPT ![job[c].name] = @ + 1]
            /\ UNCHANGED tokens
    /\ Ends(c)
    /\ UNCHANGED <<users, spaces, members, signups, open, nextUid, cache, openCache, spaceCache, now, asked, overlapped>>

(* The failures of a name, or the registrations, leave the window.         *)
WindowPasses(n) ==
    /\ failures[n] > 0 /\ failures' = [failures EXCEPT ![n] = 0]
    /\ UNCHANGED <<users, spaces, members, signups, open, nextUid, cache, openCache, spaceCache, tokens, job, now, asked, overlapped>>

HourPasses ==
    /\ signups > 0 /\ signups' = 0
    /\ UNCHANGED <<users, spaces, members, failures, open, nextUid, cache, openCache, spaceCache, tokens, job, now, asked, overlapped>>

---------------------------------------------------------------------------
(* Registering: the policy may be a cached one.                            *)

AskRegister(c, i, n) ==
    /\ Asks(c, [Idle EXCEPT !.at = i, !.name = n,
                            !.pc = IF openCache[i].known /\ Fresh(openCache[i].at)
                                   THEN IF openCache[i].open THEN "signups" ELSE "idle"
                                   ELSE "policy"])
    /\ UNCHANGED <<stored, cache, openCache, spaceCache, tokens, now, overlapped>>

ReadPolicy(c) ==
    /\ job[c].pc = "policy"
    /\ Goes(c, [job[c] EXCEPT !.pc = "policyFill", !.known = open])
    /\ UNCHANGED <<stored, cache, openCache, spaceCache, tokens, now, asked, overlapped>>

FillPolicy(c) ==
    /\ job[c].pc = "policyFill"
    /\ openCache' = [openCache EXCEPT ![job[c].at] = [known |-> TRUE, open |-> job[c].known, at |-> now]]
    /\ To(c, IF job[c].known THEN "signups" ELSE "idle")
    /\ UNCHANGED <<stored, cache, spaceCache, tokens, now, asked, overlapped>>

CountSignups(c) ==
    /\ job[c].pc = "signups"
    /\ To(c, IF signups >= MaxPerHour THEN "idle" ELSE "insert")
    /\ UNCHANGED <<stored, cache, openCache, spaceCache, tokens, now, asked, overlapped>>

(* ON CONFLICT (username) DO NOTHING: a name that is taken is refused.     *)
RegisterInserts(c) ==
    /\ job[c].pc = "insert" /\ nextUid \in Uids
    /\ IF UidOf(job[c].name) /= 0
       THEN Ends(c) /\ UNCHANGED <<users, nextUid>>
       ELSE LET row == NewRow(job[c].name, "analyst", "self")
            IN /\ users' = [users EXCEPT ![nextUid] = row]
               /\ nextUid' = nextUid + 1
               /\ Goes(c, [job[c] EXCEPT !.pc = "record", !.uid = nextUid, !.row = row])
    /\ UNCHANGED <<spaces, members, failures, signups, open, cache, openCache, spaceCache, tokens, now, asked, overlapped>>

RecordSignup(c) ==
    /\ job[c].pc = "record"
    /\ signups' = signups + 1 /\ To(c, "open")
    /\ UNCHANGED <<users, spaces, members, failures, open, nextUid, cache, openCache, spaceCache, tokens, now, asked, overlapped>>

---------------------------------------------------------------------------
(* A request with a token: who, then which space, then whether.            *)

AskRoute(c, i, t, route, scope, change, target) ==
    /\ t \in tokens
    /\ LET hit == cache[i][t.uid]
           cached == hit.row /= NoOne /\ Fresh(hit.at)
       IN Asks(c, [Idle EXCEPT !.at = i, !.uid = t.uid, !.name = t.name, !.tv = t.tv, !.route = route,
                               !.scope = scope, !.change = change, !.target = target,
                               !.row = IF cached THEN hit.row ELSE NoOne,
                               !.pc = IF ~cached THEN "read"
                                      ELSE IF hit.row.active /\ hit.row.tv = t.tv THEN "scope" ELSE "idle"])
    /\ UNCHANGED <<stored, cache, openCache, spaceCache, tokens, now, overlapped>>

ReadUser(c) ==
    /\ job[c].pc = "read"
    /\ Goes(c, [job[c] EXCEPT !.pc = "fill", !.row = users[job[c].uid]])
    /\ UNCHANGED <<stored, cache, openCache, spaceCache, tokens, now, asked, overlapped>>

(* The entry is dated when it is written, not when its row was read.       *)
FillCache(c) ==
    LET row == job[c].row
    IN /\ job[c].pc = "fill"
       /\ cache' = [cache EXCEPT ![job[c].at][job[c].uid] =
                       IF row = NoOne THEN Nothing ELSE [row |-> row, at |-> now]]
       /\ IF row /= NoOne /\ row.active /\ row.tv = job[c].tv THEN To(c, "scope") ELSE Ends(c)
       /\ UNCHANGED <<stored, openCache, spaceCache, tokens, now, asked, overlapped>>

(* spaceScope: with no ?space= the caller's own workspace, made on first    *)
(* use; any other as spaces() has it, the map this process keeps.           *)
Owners == [k \in 1..Len(spaces) |-> spaces[k].owner]
Mapped(at) == spaceCache[at].known /\ Fresh(spaceCache[at].at)
Consults(c, j, next) ==
    Goes(c, IF Mapped(j.at) THEN [j EXCEPT !.pc = next, !.owners = spaceCache[j.at].owners]
            ELSE [j EXCEPT !.pc = "spacesRead"])

Scope(c) ==
    LET j == job[c]
    IN /\ j.pc = "scope"
       /\ IF j.scope = Own THEN To(c, "open") ELSE Consults(c, j, "enter")
       /\ UNCHANGED <<stored, cache, openCache, spaceCache, tokens, now, asked, overlapped>>

(* spaces(): the map is dated when it is written, not when it was read.     *)
ReadSpaces(c) ==
    /\ job[c].pc = "spacesRead"
    /\ Goes(c, [job[c] EXCEPT !.pc = "spacesFill", !.owners = Owners])
    /\ UNCHANGED <<stored, cache, openCache, spaceCache, tokens, now, asked, overlapped>>

FillSpaces(c) ==
    LET j == job[c]
    IN /\ j.pc = "spacesFill"
       /\ spaceCache' = [spaceCache EXCEPT ![j.at] = [known |-> TRUE, owners |-> j.owners, at |-> now]]
       /\ To(c, IF j.scope = Own THEN "make" ELSE "enter")
       /\ UNCHANGED <<stored, cache, openCache, tokens, now, asked, overlapped>>

(* accessFor: owners and administrators into a workspace, members and the  *)
(* accounts an administrator made into the shared space.                   *)
Owns(name, label) == label = Live(name)
Standing(j, owners) ==
    CASE j.scope = Shared -> IF j.row.source = "self" THEN members[j.name] ELSE "none"
      [] OTHER            -> IF Owns(j.name, owners[j.scope]) THEN "owner" ELSE "none"
MayOpen(row, scope, access) ==
    row.role = "admin" \/ access /= "none" \/ (scope = Shared /\ row.source = "admin")

(* spaceBySlug: a workspace the map lacks is looked up, and empties it.     *)
Enter(c) ==
    LET j == job[c]
        listed == j.scope \in {Shared} \cup 1..Len(j.owners)
        access == Standing(j, IF listed THEN j.owners ELSE Owners)
    IN /\ j.pc = "enter"
       /\ spaceCache' = IF listed \/ j.scope \notin 1..Len(spaces) THEN spaceCache
                        ELSE [spaceCache EXCEPT ![j.at] = NoMap]
       /\ IF (listed \/ j.scope \in 1..Len(spaces)) /\ MayOpen(j.row, j.scope, access)
          THEN Goes(c, [j EXCEPT !.pc = "authorize", !.owners = <<>>, !.access = access]) ELSE Ends(c)
       /\ UNCHANGED <<stored, cache, openCache, tokens, now, asked, overlapped>>

(* ensurePersonalSpace: the workspace that goes by the caller's name now;   *)
(* for a request that has its space already, the new account's: createUser. *)
Arrives(c, k) ==
    LET j == job[c]
    IN CASE j.route = "none"    -> SignToken(j.uid, j.row) /\ Ends(c)
         [] j.change = "create" /\ j.access /= "none" -> Ends(c) /\ UNCHANGED tokens
         [] OTHER -> /\ Goes(c, [j EXCEPT !.pc = "authorize", !.scope = k, !.owners = <<>>, !.access = "owner"])
                     /\ UNCHANGED tokens

OpenSpace(c) ==
    LET j == job[c]
        found == SpaceOf(Live(j.name))
    IN /\ j.pc = "open"
       /\ IF found = {} THEN Consults(c, j, "make") /\ UNCHANGED tokens ELSE Arrives(c, CHOOSE k \in found : TRUE)
       /\ UNCHANGED <<stored, cache, openCache, spaceCache, now, asked, overlapped>>

(* personalSlug meets a slug of this name that the map lacks, and reads it  *)
(* again; else the row is written, and one index allows one per owner.      *)
MakeSpace(c) ==
    LET j == job[c]
        label == Live(j.name)
        unlisted == {k \in 1..Len(spaces) : k > Len(j.owners) /\ spaces[k].owner[1] = j.name}
    IN /\ j.pc = "make"
       /\ IF unlisted /= {}
          THEN /\ spaceCache' = [spaceCache EXCEPT ![j.at] = NoMap]
               /\ To(c, "spacesRead") /\ UNCHANGED spaces
          ELSE /\ spaces' = IF SpaceOf(label) = {}
                            THEN Append(spaces, [owner |-> label, by |-> j.uid, late |-> ~Exists(j.uid)]) ELSE spaces
               /\ Goes(c, [j EXCEPT !.pc = "made", !.scope = IF SpaceOf(label) = {} THEN Len(spaces) + 1
                                                             ELSE CHOOSE k \in SpaceOf(label) : TRUE])
               /\ UNCHANGED spaceCache
       /\ UNCHANGED <<users, members, failures, signups, open, nextUid, cache, openCache, tokens, now, asked, overlapped>>

SpaceMade(c) ==
    LET j == job[c]
    IN /\ j.pc = "made"
       /\ spaceCache' = [spaceCache EXCEPT ![j.at] = NoMap]
       /\ Arrives(c, j.scope)
       /\ UNCHANGED <<stored, cache, openCache, now, asked, overlapped>>

(* The route table, by class of route; what is not listed needs a viewer.  *)
Elevated == [author |-> "analyst", seed |-> "analyst", destroy |-> "admin", reload |-> "admin",
             console |-> "admin"]
RequiredRole(route) == IF route \in DOMAIN Elevated THEN Elevated[route] ELSE "viewer"
PlatformAdminOnly == {"reload", "members", "console"}
RefusedInPersonal == {"seed", "database"}

EffectiveRole(row, scope, access) ==
    CASE row.role = "admin" -> "admin"
      [] row.role /= "admin" /\ access = "owner" -> "admin"
      [] row.role /= "admin" /\ scope = Shared /\ row.source = "self" ->
           IF access = "editor" THEN row.role ELSE "viewer"
      [] OTHER -> row.role

Allowed(row, route, scope, access) ==
    /\ ~(row.role /= "admin" /\ scope /= Shared /\ route \in RefusedInPersonal)
    /\ IF route \in PlatformAdminOnly THEN row.role = "admin"
       ELSE Rank[EffectiveRole(row, scope, access)] >= Rank[RequiredRole(route)]

(* index.ts refuses the console once more, on the platform role alone.     *)
ConsoleLock(row, route) == route = "console" => row.role = "admin"

Authorize(c) ==
    LET j == job[c]
    IN /\ j.pc = "authorize"
       /\ IF /\ Allowed(j.row, j.route, j.scope, j.access) /\ ConsoleLock(j.row, j.route)
             /\ j.change /= "none"
          THEN To(c, "handle") ELSE Ends(c)
       /\ UNCHANGED <<stored, cache, openCache, spaceCache, tokens, now, asked, overlapped>>

---------------------------------------------------------------------------
(* The administration console: read, count, write, clear the cache.        *)

TargetIsActiveAdmin(seen) == seen.role = "admin" /\ seen.active
Removes(change, seen) ==
    \/ change = "demote" /\ seen.role = "admin"
    \/ change = "disable" /\ seen.active
    \/ change = "delete"

LockoutProblem_SelfOnly(actor, target, isActiveAdmin, activeAdmins) == actor = target
LockoutProblem(actor, target, isActiveAdmin, activeAdmins) ==
    actor = target \/ (isActiveAdmin /\ activeAdmins <= 1)

(* userById; only a change that removes an administrator is counted.      *)
ReadTarget(c) ==
    LET j == job[c]
    IN /\ j.pc = "handle" /\ j.change \in {"demote", "promote", "disable", "enable", "reset", "revoke", "delete"}
       /\ IF ~Exists(j.target) THEN Ends(c)
          ELSE Goes(c, [j EXCEPT !.seen = users[j.target],
                                 !.pc = IF Removes(j.change, users[j.target]) THEN "count" ELSE "write"])
       /\ UNCHANGED <<stored, cache, openCache, spaceCache, tokens, now, asked, overlapped>>

(* What may take an administrator away when it is written, whether or not   *)
(* the row it read was one: that account may have been promoted since.      *)
Removing(d) == job[d].pc \in {"count", "write"} /\ job[d].change \in {"demote", "disable", "delete"}

(* activeAdminCount and lockoutProblem.                                    *)
CountAdmins(c) ==
    LET j == job[c]
    IN /\ j.pc = "count"
       /\ IF LockoutProblem(j.uid, j.target, TargetIsActiveAdmin(j.seen), Cardinality(ActiveAdmins))
          THEN Ends(c) ELSE To(c, "write")
       /\ overlapped' = (overlapped \/ \E d \in Clients \ {c} : Removing(d))
       /\ UNCHANGED <<stored, cache, openCache, spaceCache, tokens, now, asked>>

(* The one UPDATE of updateUser, resetPassword or revokeSessions.          *)
Written_KeepsSessions(row, change, seen) ==
    CASE change = "demote"  -> [row EXCEPT !.role = "viewer"]
      [] change = "disable" -> [row EXCEPT !.active = FALSE]
      [] change = "reset"   -> [row EXCEPT !.pw = @ + 1]
      [] OTHER              -> row
Written(row, change, seen) ==
    CASE change = "demote"  -> [row EXCEPT !.role = "viewer"]
      [] change = "promote" -> [row EXCEPT !.role = "admin"]
      [] change = "disable" -> [row EXCEPT !.active = FALSE, !.tv = IF seen.active THEN @ + 1 ELSE @]
      [] change = "enable"  -> [row EXCEPT !.active = TRUE]
      [] change = "reset"   -> [row EXCEPT !.pw = @ + 1, !.tv = @ + 1]
      [] change = "revoke"  -> [row EXCEPT !.tv = @ + 1]

UpdateUser(c) ==
    LET j == job[c]
    IN /\ j.pc = "write" /\ j.change /= "delete"
       /\ users' = IF Exists(j.target) THEN [users EXCEPT ![j.target] = Written(@, j.change, j.seen)] ELSE users
       /\ To(c, "clear")
       /\ UNCHANGED <<spaces, members, failures, signups, open, nextUid, cache, openCache, spaceCache, tokens, now, asked, overlapped>>

Relabelled_KeepsName(s, n, u) == s
Relabelled(s, n, u) == IF s.owner = Live(n) THEN [s EXCEPT !.owner = Tombstone(n, u)] ELSE s

(* deleteUser's transaction: the row goes, its workspace is relabelled.    *)
DeleteUser(c) ==
    LET j == job[c]
        n == j.seen.name
    IN /\ j.pc = "write" /\ j.change = "delete"
       /\ users' = [users EXCEPT ![j.target] = NoOne]
       /\ spaces' = [k \in 1..Len(spaces) |-> Relabelled(spaces[k], n, j.target)]
       /\ members' = [members EXCEPT ![n] = "none"]
       /\ To(c, "clear")
       /\ UNCHANGED <<failures, signups, open, nextUid, cache, openCache, spaceCache, tokens, now, asked, overlapped>>

(* A deletion drops the map of spaces too.                                 *)
ClearUserCache(c) ==
    LET j == job[c]
    IN /\ j.pc = "clear"
       /\ cache' = [cache EXCEPT ![j.at] = [u \in Uids |-> Nothing]]
       /\ spaceCache' = IF j.change = "delete" THEN [spaceCache EXCEPT ![j.at] = NoMap] ELSE spaceCache
       /\ Ends(c)
       /\ UNCHANGED <<stored, openCache, tokens, now, asked, overlapped>>

(* createUser: an account an administrator makes, and its workspace.       *)
CreateUser(c, n) ==
    LET j == job[c]
        row == NewRow(n, "viewer", "admin")
    IN /\ j.pc = "handle" /\ j.change = "create" /\ nextUid \in Uids
       /\ IF UidOf(n) /= 0 THEN Ends(c) /\ UNCHANGED <<users, nextUid>>
          ELSE /\ users' = [users EXCEPT ![nextUid] = row]
               /\ nextUid' = nextUid + 1
               /\ Goes(c, [j EXCEPT !.pc = "open", !.scope = Own, !.name = n, !.uid = nextUid, !.row = row])
       /\ UNCHANGED <<spaces, members, failures, signups, open, cache, openCache, spaceCache, tokens, now, asked, overlapped>>

UpdateSettings(c) ==
    LET j == job[c]
    IN /\ j.pc = "handle" /\ j.change \in {"open", "close"}
       /\ open' = (j.change = "open")
       /\ openCache' = [openCache EXCEPT ![j.at].known = FALSE]
       /\ Ends(c)
       /\ UNCHANGED <<users, spaces, members, failures, signups, nextUid, cache, spaceCache, tokens, now, asked, overlapped>>

RemoveMember(c, n) ==
    /\ job[c].pc = "handle" /\ job[c].change = "dropMember"
    /\ members' = IF job[c].scope = Shared THEN [members EXCEPT ![n] = "none"] ELSE members
    /\ Ends(c)
    /\ UNCHANGED <<users, spaces, failures, signups, open, nextUid, cache, openCache, spaceCache, tokens, now, asked, overlapped>>

(* addMember: a workspace has no members; in the shared space the account   *)
(* is looked up, then the row is written, which refers to no account.       *)
FindMember(c, n) ==
    /\ job[c].pc = "handle" /\ job[c].change = "addMember"
    /\ IF job[c].scope /= Shared \/ UidOf(n) = 0 THEN Ends(c)
       ELSE Goes(c, [job[c] EXCEPT !.pc = "enroll", !.seen = users[UidOf(n)]])
    /\ UNCHANGED <<stored, cache, openCache, spaceCache, tokens, now, asked, overlapped>>

AddMember(c) ==
    /\ job[c].pc = "enroll"
    /\ members' = [members EXCEPT ![job[c].seen.name] = "editor"] /\ Ends(c)
    /\ UNCHANGED <<users, spaces, failures, signups, open, nextUid, cache, openCache, spaceCache, tokens, now, asked, overlapped>>

TimePasses ==
    /\ now < MaxNow /\ now' = now + 1
    /\ UNCHANGED <<stored, cache, openCache, spaceCache, tokens, job, asked, overlapped>>

(* The changes the routes of a class make, whom they are about, and where. *)
ChangesOf(route) ==
    CASE route = "console" -> Kinds \ {"addMember", "dropMember"}
      [] route = "members" -> Kinds \cap {"addMember", "dropMember"}
      [] OTHER -> {"none"}
TargetsOf(change) == IF change \in {"create", "open", "close", "addMember", "dropMember", "none"} THEN {0} ELSE Uids
ScopesOf(route) == CASE route = "members" -> {Shared}
                        [] route = "console" -> {Own}
                        [] OTHER -> 1..(Len(spaces) + 1)

Next ==
    \/ \E c \in Clients :
         \/ \E n \in Names : AskLogin(c, n) \/ CreateUser(c, n) \/ RemoveMember(c, n) \/ FindMember(c, n)
         \/ \E right \in BOOLEAN : LoginAnswers(c, right)
         \/ \E i \in Instances, n \in Names : AskRegister(c, i, n)
         \/ \E i \in Instances, t \in tokens, route \in Routes : \E s \in ScopesOf(route), h \in ChangesOf(route) :
              \E u \in TargetsOf(h) : AskRoute(c, i, t, route, s, h, u)
         \/ LoginReads(c) \/ ReadPolicy(c) \/ FillPolicy(c)
         \/ CountSignups(c) \/ RegisterInserts(c) \/ RecordSignup(c)
         \/ ReadUser(c) \/ FillCache(c) \/ Scope(c) \/ ReadSpaces(c) \/ FillSpaces(c) \/ Enter(c)
         \/ OpenSpace(c) \/ MakeSpace(c) \/ SpaceMade(c) \/ Authorize(c) \/ AddMember(c)
         \/ ReadTarget(c) \/ CountAdmins(c) \/ UpdateUser(c) \/ DeleteUser(c) \/ ClearUserCache(c) \/ UpdateSettings(c)
    \/ \E n \in Names : WindowPasses(n)
    \/ HourPasses \/ TimePasses

Spec == Init /\ [][Next]_vars

---------------------------------------------------------------------------
TokenType == [uid: Uids, name: Names, tv: Nat, pw: Nat]
Cached == [row: Rows \cup {NoOne}, at: Nat]

(* Every variable has its type.                                            *)
TypeOK ==
    /\ users \in [Uids -> Rows \cup {NoOne}]
    /\ spaces \in Seq([owner: Labels, by: Uids, late: BOOLEAN])
    /\ members \in [Names -> {"none", "editor"}]
    /\ failures \in [Names -> Nat] /\ signups \in Nat /\ open \in BOOLEAN
    /\ cache \in [Instances -> [Uids -> Cached]]
    /\ openCache \in [Instances -> [known: BOOLEAN, open: BOOLEAN, at: Nat]]
    /\ spaceCache \in [Instances -> [known: BOOLEAN, owners: Seq(Labels), at: Nat]]
    /\ tokens \subseteq TokenType
    /\ job \in [Clients -> Job]
    /\ now \in Nat /\ nextUid \in Nat /\ asked \in Nat /\ overlapped \in BOOLEAN

(* A token the row would still accept was given for the password the row   *)
(* has now: no reset leaves a session of the old password, however the     *)
(* reset and a login overlap (auth.ts login, admin.ts resetPassword).      *)
PasswordOpensSession ==
    \A t \in tokens : Exists(t.uid) /\ users[t.uid].tv = t.tv => users[t.uid].pw = t.pw

(* Failures are counted before and recorded after a password is checked,   *)
(* yet attempts in parallel exceed the limit only by those under way       *)
(* (auth.ts tooManyFailures, recordAttempt).                               *)
FailuresBounded == \A n \in Names : failures[n] < MaxFailures + Cardinality(Clients)

(* Unless a removal is counted while another change that removes is under   *)
(* way, an active administrator is left, even with a request whose own     *)
(* rights are a cached row (admin.ts lockoutProblem).                      *)
AdminRemains == overlapped \/ ActiveAdmins /= {}

(* What admin.ts says of lockoutProblem: the last active admin cannot be   *)
(* removed by anyone.                                                      *)
LastAdminStays == ActiveAdmins /= {}

(* Whoever registers the name of a deleted account inherits no workspace   *)
(* it had; one its late request makes is the only exception (tombstone).   *)
NoInheritance ==
    \A k \in 1..Len(spaces), u \in Uids :
        Exists(u) /\ spaces[k].owner = Live(users[u].name) => spaces[k].by = u \/ spaces[k].late

(* Owning a workspace never makes an administrator: roles, accounts and    *)
(* memberships change only under a request whose account is one (auth.ts   *)
(* authorizeRoute, effectiveRole).                                         *)
OnlyAdminsAdminister ==
    [][\/ \E c \in Clients : job'[c] /= job[c] /\ job[c].row /= NoOne /\ job[c].row.role = "admin"
       \/ /\ members' = members
          /\ \A u \in Uids : users'[u] /= users[u] =>
               users[u] = NoOne /\ users'[u].source = "self" /\ users'[u].role /= "admin"]_<<users, members>>

(* Whoever is let into a workspace as its owner has the name it was made    *)
(* under, though the map of spaces may be an old one; while it still goes   *)
(* by that name, it was made for the very account (workspaces.ts accessFor).*)
OwnersInside ==
    \A c \in Clients, k \in 1..Len(spaces) :
        job[c].access = "owner" /\ job[c].scope = k =>
            /\ spaces[k].owner[1] = job[c].name
            /\ spaces[k].owner = Live(job[c].name) /\ Exists(job[c].uid) =>
                   spaces[k].by = job[c].uid \/ spaces[k].late

(* Nobody may do something by another's account: the rows leave nothing to  *)
(* the next account of a name, no other name is let in as an owner, and     *)
(* owning makes no administrator. That the next account of a name may be    *)
(* let in by an old map is what OwnersOnly is about.                        *)
NoBorrowedRights == [](NoInheritance /\ OwnersInside) /\ OnlyAdminsAdminister

(* What a workspace's own description says: nobody else can open it, that   *)
(* is no account but the one it was made for, administrators aside          *)
(* (workspaces.ts ensurePersonalSpace, spaces, accessFor).                  *)
OwnersOnly ==
    \A c \in Clients, k \in 1..Len(spaces) :
        /\ job[c].pc = "authorize" /\ job[c].access = "owner" /\ job[c].scope = k
        /\ Exists(job[c].uid) /\ job[c].row.role /= "admin"
        => spaces[k].by = job[c].uid \/ spaces[k].late

---------------------------------------------------------------------------
(* What these rest on. What a request holds at each of its steps.           *)
Resolving == {"open", "spacesRead", "spacesFill", "make", "made"}
Known == {"scope", "enter", "authorize", "handle", "enroll", "count", "write", "record"} \cup Resolving
JobsHold ==
    \A c \in Clients :
        /\ job[c].pc \in Known => job[c].row \in Rows
        /\ job[c].pc \in {"read", "fill"} \cup Known => job[c].uid \in Uids
        /\ job[c].pc = "verify" /\ job[c].row /= NoOne => job[c].uid \in Uids
        /\ job[c].pc \in {"count", "write"} =>
              /\ job[c].seen \in Rows /\ job[c].target \in Uids
              /\ job[c].change \in {"demote", "promote", "disable", "enable", "reset", "revoke", "delete"}
        /\ job[c].pc = "enroll" => job[c].seen \in Rows
(* What changes accounts is a request of an administrator.                  *)
AdminsAct ==
    \A c \in Clients :
        /\ job[c].change /= "none" => job[c].route \in PlatformAdminOnly
        /\ job[c].pc \in {"handle", "enroll", "count", "write"} => job[c].row.role = "admin"
        /\ job[c].pc \in {"lookup", "verify", "policy", "policyFill", "signups", "insert", "record"} =>
               job[c].route = "none" /\ job[c].change = "none"
        /\ job[c].pc \in {"read", "fill", "scope"} => job[c].route /= "none"
(* A login or a registration that will give a token for the row it holds.   *)
WillSign(c) == \/ job[c].pc = "verify" /\ job[c].row /= NoOne
               \/ job[c].pc \in {"record"} \cup Resolving /\ job[c].route = "none"
(* An id is given once: tokens and requests are of ids already given.      *)
RowIds == nextUid \in Nat \ {0} /\ \A u \in Uids : Exists(u) => u < nextUid
TokenIds == \A t \in tokens : t.uid < nextUid
JobIds == \A c \in Clients : /\ job[c].uid < nextUid
                             /\ job[c].pc \in {"count", "write"} => job[c].target < nextUid
(* A name has one row, and a row keeps the name that tokens and requests    *)
(* know it by.                                                              *)
OneRowPerName == \A u, v \in Uids : Exists(u) /\ Exists(v) /\ users[u].name = users[v].name => u = v
TokenNames == \A t \in tokens : Exists(t.uid) => users[t.uid].name = t.name
JobNames == \A c \in Clients : Exists(job[c].uid) => users[job[c].uid].name = job[c].name
HeldNames == \A c \in Clients : WillSign(c) => job[c].row.name = job[c].name
TargetNames == \A c \in Clients : job[c].pc \in {"count", "write"} /\ Exists(job[c].target)
                                      => users[job[c].target].name = job[c].seen.name
(* What a login or a registration has read, and every token, is of an       *)
(* earlier version, or of this one and of its password.                     *)
Matches(u, tv, pw) == Exists(u) => tv < users[u].tv \/ (tv = users[u].tv /\ pw = users[u].pw)
TokensMatch == \A t \in tokens : Matches(t.uid, t.tv, t.pw)
JobsMatch == \A c \in Clients : WillSign(c) => Matches(job[c].uid, job[c].row.tv, job[c].row.pw)
(* A workspace goes by the name of the account it was made for, unless that *)
(* account had gone before.                                                 *)
SpacesKeepOwners ==
    \A k \in 1..Len(spaces), n \in Names :
        spaces[k].owner = Live(n) /\ ~spaces[k].late => Exists(spaces[k].by) /\ users[spaces[k].by].name = n
(* A map, however old, has each workspace under the name it was made under. *)
Agrees(owners) == Len(owners) <= Len(spaces) /\ \A k \in 1..Len(owners) : owners[k][1] = spaces[k].owner[1]
MapsAgree == (\A i \in Instances : Agrees(spaceCache[i].owners)) /\ (\A c \in Clients : Agrees(job[c].owners))
At(j) == j.pc = "made" \/ (j.access = "owner" /\ j.scope /= Own)
Named(j) == j.scope \in 1..Len(spaces) /\ spaces[j.scope].owner[1] = j.name
OwnersNamed == \A c \in Clients : At(job[c]) => Named(job[c])
(* Those whose count is past, or not needed, all together leave one.        *)
Armed(d) == Removing(d) /\ (job[d].pc = "write" \/ ~TargetIsActiveAdmin(job[d].seen))
AdminBesides == overlapped \/ \E u \in ActiveAdmins : \A d \in Clients : Armed(d) => job[d].target /= u
(* Every attempt under way may still fail.                                  *)
Attempts(n) == {c \in Clients : job[c].pc \in {"lookup", "verify"} /\ job[c].name = n}
AttemptsBounded == \A n \in Names : failures[n] + Cardinality(Attempts(n)) < MaxFailures + Cardinality(Clients)

IInv == /\ TypeOK /\ JobsHold /\ AdminsAct /\ RowIds /\ TokenIds /\ JobIds
        /\ OneRowPerName /\ TokenNames /\ JobNames /\ HeldNames /\ TargetNames
        /\ TokensMatch /\ JobsMatch /\ SpacesKeepOwners /\ MapsAgree /\ OwnersNamed
        /\ AdminBesides /\ AttemptsBounded
=============================================================================
