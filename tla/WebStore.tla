------------------------------ MODULE WebStore ------------------------------
(***************************************************************************)
(* The web server's JsonStorage and the request handlers above it.  Every  *)
(* lock section of a handler is a step, so the handlers of several requests *)
(* interleave between a check and the change it was made for; the writer    *)
(* task copies the maps and rewrites the file in place, and the server may  *)
(* crash at any step and start again from that file.                        *)
(*                                                                          *)
(* A user is its name and role, a role its type and its one permission used *)
(* here, a host its owner and its stored pairing identity.  Identifiers are *)
(* drawn fresh.  A token stands for the one user it was issued to.          *)
(***************************************************************************)
EXTENDS Integers, FiniteSets, Functions, TLC

CONSTANTS
    Tasks,     \* requests in flight
    UserNames,
    MaxId,     \* bound on each kind of identifier
    MaxOps     \* bound on requests

ASSUME StoreAssumption == {MaxId, MaxOps} \subseteq Nat \ {0} /\ IsFiniteSet(Tasks)

Ids == 1 .. MaxId
None == 0
Ops == {"login", "proxy", "addUser", "setRole", "dropUser", "addRole", "setPermission",
        "dropRole", "addHost", "patchHost", "dropHost", "pair", "image"}
HostOps == {"patchHost", "dropHost", "pair", "image"}

VARIABLES
    users, roles, hosts,   \* the maps of JsonStorage, by id
    sessions,              \* users with a live session token
    images,                \* app_image_cache: hosts with a cached image
    dirty,                 \* a message in the writer's channel, which holds one
    writer,                \* the writer task: [pc, users, hosts, roles]
    file,                  \* the data file: its maps, or torn
    up,                    \* the server runs
    task,                  \* request -> its handler's place and locals
    trusts,                \* external: host -> identities the streaming host has paired
    ops,                   \* requests so far
    crashed,               \* the server crashed, which it does once
    drawn,                 \* ids drawn so far, by kind
    late,                  \* history: users given a role that did not exist or was going
    overlap,               \* history: users added by a request that shared its life with another
    cached,                \* history: hosts whose image was stored after their images were dropped
    ioFailed,              \* history: the last write of the file failed
    unreachable            \* history: a request that ran alone reached owner_info's unreachable arm

maps == <<users, roles, hosts>>
history == <<drawn, late, overlap, cached, ioFailed, unreachable>>
storeVars == <<maps, sessions, images, dirty, writer, file, up, task, trusts, ops, crashed, history>>

NoTask == [op |-> "none", pc |-> "idle", me |-> None, name |-> None, role |-> None,
           user |-> None, host |-> None, mine |-> None, todo |-> {}, looked |-> 0, company |-> FALSE]
IdleWriter == [pc |-> "idle", users |-> <<>>, hosts |-> <<>>, roles |-> <<>>]
Empty == [x \in {} |-> None]
Memory == [users |-> users, hosts |-> hosts, roles |-> roles]

\* A new installation, or one with an admin, a user, a global host and a host of the user's.
Installed(new) ==
    /\ users = IF new THEN Empty ELSE (1 :> [name |-> CHOOSE n \in UserNames : TRUE, role |-> 1]
                                       @@ 2 :> [name |-> None, role |-> 2])
    /\ roles = IF new THEN Empty ELSE (1 :> [ty |-> "Admin", add |-> TRUE]
                                       @@ 2 :> [ty |-> "User", add |-> TRUE])
    /\ hosts = IF new THEN Empty ELSE (1 :> [owner |-> None, pair |-> None]
                                       @@ 2 :> [owner |-> 2, pair |-> None])
    /\ drawn = LET n == IF new THEN 0 ELSE 2 IN [users |-> n, roles |-> n, hosts |-> n]
    /\ sessions = IF new THEN {} ELSE {1, 2}

StoreInit ==
    /\ \E new \in BOOLEAN : Installed(new)
    /\ images = {} /\ dirty = FALSE /\ writer = IdleWriter /\ file = Memory /\ up = TRUE
    /\ task = [t \in Tasks |-> NoTask] /\ trusts = [h \in Ids |-> {}] /\ ops = 0 /\ crashed = FALSE
    /\ late = {} /\ overlap = {} /\ cached = {} /\ ioFailed = FALSE /\ unreachable = FALSE

\* --------------------------------------------------- locks and identifiers

\* store() holds the read locks of all three maps while it copies them: entries may be
\* modified under it, none added or removed.
Copying == writer.pc \in {"users", "hosts", "roles"}

\* random_number until the id is not in the map: an id never used before.
Draw(kind) == drawn[kind] + 1
CanDraw(kind) == drawn[kind] < MaxId
Drawn(kind) == [drawn EXCEPT ![kind] = @ + 1]

\* force_write: a full channel already holds the message.
ForceWrite == dirty' = TRUE

Without(f, S) == Restrict(f, DOMAIN f \ S)

\* ------------------------------------------------------- a handler's locals

Goto(t, pc) == task' = [task EXCEPT ![t].pc = pc]
Done(t) == task' = [task EXCEPT ![t] = NoTask]
At(t, pc) == up /\ task[t].pc = pc
Quiet == UNCHANGED <<maps, sessions, images, dirty, writer, file, up, trusts, ops, crashed, history>>

\* Role::ty of the role id the handler's user record carries; the record is read once.
RoleKnown(t) == task[t].mine \in DOMAIN roles
IsAdmin(t) == RoleKnown(t) /\ roles[task[t].mine].ty = "Admin"

NeedsSession(op) == op \notin {"login", "proxy"}

\* Where a handler starts once its token resolved.
FirstStep(op) ==
    CASE op = "login" -> "any"
      [] op = "proxy" -> "byName"
      [] op \in HostOps -> "get"
      [] OTHER -> "user"

\* user_by_session resolves the token alone; the user record is read when it is first needed.
\* The role id of a request is any number: MaxId stands for one that no role has.
Request(t) ==
    /\ up /\ task[t] = NoTask /\ ops < MaxOps
    /\ \E op \in Ops, me \in sessions \union {None}, n \in UserNames,
          r \in DOMAIN roles \union {None, MaxId}, u \in DOMAIN users \union {None}, h \in DOMAIN hosts \union {None} :
        /\ (me # None) <=> NeedsSession(op)
        /\ (n # CHOOSE x \in UserNames : TRUE) => op \in {"login", "proxy", "addUser"}
        /\ r = MaxId => op \in {"addUser", "setRole"} \* role_by_id refuses it for the others
        /\ (r # None) <=> op \in {"addUser", "setRole", "setPermission", "dropRole"}
        /\ (u # None) => op \in {"setRole", "dropUser", "patchHost"}
        /\ op \in {"setRole", "dropUser"} => u # None
        /\ (h # None) <=> op \in HostOps
        /\ task' = [x \in Tasks |->
               IF x = t
               THEN [op |-> op, pc |-> FirstStep(op), me |-> me, name |-> n, role |-> r, user |-> u,
                     host |-> h, mine |-> None, todo |-> {}, looked |-> 0, company |-> \E y \in Tasks \ {t} : task[y] # NoTask]
               ELSE IF task[x] = NoTask THEN NoTask ELSE [task[x] EXCEPT !.company = TRUE]]
    /\ ops' = ops + 1
    /\ UNCHANGED <<maps, sessions, images, dirty, writer, file, up, trusts, crashed, history>>

\* storage_user: the record is cached in the handler for as long as it runs.
StorageUser(t) ==
    /\ At(t, "user")
    /\ IF task[t].me \in DOMAIN users
       THEN task' = [task EXCEPT ![t].mine = users[task[t].me].role, ![t].pc = "role"]
       ELSE Done(t)
    /\ Quiet

\* What the role must allow, and where the handler goes then.
AfterRole(t) ==
    CASE task[t].op = "addHost" /\ RoleKnown(t) /\ roles[task[t].mine].add -> "http"
      [] task[t].op = "patchHost" /\ IsAdmin(t) -> "apply"
      [] task[t].op = "dropHost" /\ IsAdmin(t) -> "images"
      [] task[t].op = "image" -> "fetch"
      [] task[t].op = "pair" -> "info"
      [] task[t].op = "addUser" /\ IsAdmin(t) -> "check"
      [] task[t].op = "addRole" /\ IsAdmin(t) -> "apply"
      [] task[t].op \in {"setRole", "dropUser", "setPermission", "dropRole"} /\ IsAdmin(t) -> "byId"
      [] OTHER -> "fail"

\* into_admin, permissions() and the role checks of the host handlers.
RoleChecked(t) ==
    /\ At(t, "role")
    /\ IF AfterRole(t) = "fail" THEN Done(t) ELSE Goto(t, AfterRole(t))
    /\ Quiet

\* user_by_id and role_by_id, before the change.
ById(t) ==
    /\ At(t, "byId")
    /\ LET there == IF task[t].op \in {"setRole", "dropUser"} THEN task[t].user \in DOMAIN users
                                                              ELSE task[t].role \in DOMAIN roles
       IN IF there THEN Goto(t, IF task[t].op = "dropRole" THEN "members" ELSE "apply") ELSE Done(t)
    /\ Quiet

\* -------------------------------------------------------------------- users

Named(n) == {u \in DOMAIN users : users[u].name = n}

\* add_user looks the name up in a lock section of its own.
NameTaken(t) == Named(task[t].name) # {}

CheckName(t) ==
    /\ At(t, "check")
    /\ IF NameTaken(t) THEN Done(t) ELSE Goto(t, "insert")
    /\ Quiet

\* A role that is gone, or whose users have already been collected for removal.
Going(r) == r \notin DOMAIN roles
            \/ \E t \in Tasks : task[t].op = "dropRole" /\ task[t].pc = "drop" /\ task[t].role = r

\* add_user's second section, which checks no role.  A first login goes on to take over
\* the global hosts.
InsertUser(t) ==
    /\ At(t, "insert") /\ ~Copying /\ CanDraw("users")
    /\ LET u == Draw("users")
           r == task[t].role
       IN /\ users' = users @@ (u :> [name |-> task[t].name, role |-> r])
          /\ late' = IF Going(r) THEN late \union {u} ELSE late
          /\ overlap' = IF task[t].company THEN overlap \union {u} ELSE overlap
          /\ IF task[t].op = "login"
             THEN task' = [task EXCEPT ![t].me = u, ![t].mine = r, ![t].pc = "global"]
             ELSE Done(t)
    /\ drawn' = Drawn("users") /\ ForceWrite
    /\ UNCHANGED <<roles, hosts, sessions, images, writer, file, up, trusts, ops, crashed, cached, ioFailed, unreachable>>

\* modify_user, under the read lock of the map and the lock of the entry.
ModifyUser(t) ==
    /\ At(t, "apply") /\ task[t].op = "setRole"
    /\ LET u == task[t].user
           r == task[t].role
       IN IF u \in DOMAIN users
          THEN /\ users' = [users EXCEPT ![u].role = r] /\ ForceWrite
               /\ late' = IF Going(r) THEN late \union {u} ELSE late
          ELSE UNCHANGED <<users, dirty, late>>
    /\ Done(t)
    /\ UNCHANGED <<roles, hosts, sessions, images, writer, file, up, trusts, ops, crashed, drawn, overlap, cached, ioFailed, unreachable>>

\* remove_user: its hosts and its tokens stay.
RemoveUser(t) ==
    /\ At(t, "apply") /\ task[t].op = "dropUser" /\ ~Copying
    /\ users' = Without(users, {task[t].user}) /\ ForceWrite /\ Done(t)
    /\ UNCHANGED <<roles, hosts, sessions, images, writer, file, up, trusts, ops, crashed, history>>

\* -------------------------------------------------------------------- roles

\* add_role: by an admin, or by a login that found no role of the type it needs.
AddRole(t) ==
    /\ \/ At(t, "apply") /\ task[t].op = "addRole"
       \/ At(t, "newRole")
    /\ ~Copying /\ CanDraw("roles")
    /\ LET r == Draw("roles")
       IN /\ roles' = roles @@ (r :> [ty |-> IF task[t].op = "login" THEN "Admin" ELSE "User", add |-> TRUE])
          /\ IF task[t].op = "addRole" THEN Done(t)
             ELSE task' = [task EXCEPT ![t].role = r, ![t].pc = "check"]
    /\ drawn' = Drawn("roles") /\ ForceWrite
    /\ UNCHANGED <<users, hosts, sessions, images, writer, file, up, trusts, ops, crashed, late, overlap, cached, ioFailed, unreachable>>

\* modify_role: patch_role changes permissions, never the type.
ModifyRole(t) ==
    /\ At(t, "apply") /\ task[t].op = "setPermission"
    /\ IF task[t].role \in DOMAIN roles
       THEN roles' = [roles EXCEPT ![task[t].role].add = ~@] /\ ForceWrite
       ELSE UNCHANGED <<roles, dirty>>
    /\ Done(t)
    /\ UNCHANGED <<users, hosts, sessions, images, writer, file, up, trusts, ops, crashed, history>>

\* The users remove_role takes along.
Members(r) == {u \in DOMAIN users : users[u].role = r}

\* remove_role: its users in one section, the role in the next.
RemoveMembers(t) ==
    /\ At(t, "members") /\ ~Copying
    /\ users' = Without(users, Members(task[t].role))
    /\ Goto(t, "drop")
    /\ UNCHANGED <<roles, hosts, sessions, images, dirty, writer, file, up, trusts, ops, crashed, history>>

RemoveRole(t) ==
    /\ At(t, "drop") /\ ~Copying
    /\ roles' = Without(roles, {task[t].role}) /\ ForceWrite /\ Done(t)
    /\ UNCHANGED <<users, hosts, sessions, images, writer, file, up, trusts, ops, crashed, history>>

\* -------------------------------------------------------------------- login

\* Mutant: the check is made against the users with a session.
AnyUserPresent(t) ==
    /\ At(t, "any")
    /\ task' = [task EXCEPT ![t].pc = IF sessions = {} THEN "findRole" ELSE "byName", ![t].looked = drawn.users]
    /\ Quiet

\* try_add_first_login: any_user_exists, in a section of its own.
AnyUserExists(t) ==
    /\ At(t, "any")
    /\ task' = [task EXCEPT ![t].pc = IF DOMAIN users = {} THEN "findRole" ELSE "byName", ![t].looked = drawn.users]
    /\ Quiet

\* admin_role and default_role: any role of the type, or a new one.
FindRole(t) ==
    /\ At(t, "findRole")
    /\ LET ty == IF task[t].op = "login" THEN "Admin" ELSE "User"
           fit == {r \in DOMAIN roles : roles[r].ty = ty}
       IN IF fit = {} THEN Goto(t, "newRole")
          ELSE \E r \in fit : task' = [task EXCEPT ![t].role = r, ![t].pc = "check"]
    /\ Quiet

\* user_by_name and authenticate; the proxy's header may add the user it names.
ByName(t) ==
    /\ At(t, "byName")
    /\ \/ /\ NameTaken(t) /\ task[t].op = "login"
          /\ \E u \in Named(task[t].name) : task' = [task EXCEPT ![t].me = u, ![t].pc = "session"]
       \/ task[t].op = "login" /\ Done(t)            \* wrong credentials or no such user
       \/ NameTaken(t) /\ task[t].op = "proxy" /\ Done(t)
       \/ ~NameTaken(t) /\ task[t].op = "proxy" /\ Goto(t, "findRole")
    /\ Quiet

\* first_login_assign_global_hosts: the hosts listed once, then one modify_host after another.
ListGlobalHosts(t) ==
    /\ At(t, "global")
    /\ task' = [task EXCEPT ![t].pc = "assign", ![t].todo = {h \in DOMAIN hosts : hosts[h].owner \in {None, task[t].me}}]
    /\ Quiet

AssignGlobalHosts(t) ==
    /\ At(t, "assign")
    /\ \/ task[t].todo = {} /\ Goto(t, "session") /\ UNCHANGED <<hosts, dirty>>
       \/ \E h \in task[t].todo :
            /\ task' = [task EXCEPT ![t].todo = @ \ {h}]
            /\ IF h \in DOMAIN hosts THEN hosts' = [hosts EXCEPT ![h].owner = task[t].me] /\ ForceWrite
                                     ELSE UNCHANGED <<hosts, dirty>>
    /\ UNCHANGED <<users, roles, sessions, images, writer, file, up, trusts, ops, crashed, history>>

\* new_session and create_session_token.
NewSession(t) ==
    /\ At(t, "session")
    /\ sessions' = sessions \union {task[t].me} /\ Done(t)
    /\ UNCHANGED <<maps, images, dirty, writer, file, up, trusts, ops, crashed, history>>

\* logout, or the expiration checker's sweep.
SessionEnds ==
    /\ up /\ \E u \in sessions : sessions' = sessions \ {u}
    /\ UNCHANGED <<maps, images, dirty, writer, file, up, task, trusts, ops, crashed, history>>

\* -------------------------------------------------------------------- hosts

\* list_user_hosts and host(): the user's own hosts and the global ones.
MayUse(t, h) == h \in DOMAIN hosts /\ hosts[h].owner \in {None, task[t].me}

\* AuthenticatedUser::host: the host record is cached in the handler.
GetHost(t) ==
    /\ At(t, "get")
    /\ LET h == task[t].host
       IN IF h \notin DOMAIN hosts \/ ~MayUse(t, h)
          THEN Done(t)
          ELSE Goto(t, CASE task[t].op = "dropHost" -> "again"
                         [] task[t].op = "image" -> "cache"
                         [] OTHER -> "user")
    /\ Quiet

\* host_add, after the address answered; an address that does not ends the request.
AddHost(t) ==
    /\ At(t, "http")
    /\ \/ Done(t) /\ UNCHANGED <<hosts, drawn, dirty>>
       \/ /\ ~Copying /\ CanDraw("hosts") /\ Done(t) /\ ForceWrite
          /\ hosts' = hosts @@ (Draw("hosts") :> [owner |-> task[t].me, pair |-> None])
          /\ drawn' = Drawn("hosts")
    /\ UNCHANGED <<users, roles, sessions, images, writer, file, up, trusts, ops, crashed, late, overlap, cached, ioFailed, unreachable>>

\* modify_host.
Change(h, host) == IF h \in DOMAIN hosts THEN hosts' = [hosts EXCEPT ![h] = host] /\ ForceWrite
                                         ELSE UNCHANGED <<hosts, dirty>>

\* patch_host: an admin gives the host to a user, or to everyone.
PatchHost(t) ==
    /\ At(t, "apply") /\ task[t].op = "patchHost"
    /\ LET h == task[t].host IN Change(h, [owner |-> task[t].user, pair |-> IF h \in DOMAIN hosts THEN hosts[h].pair ELSE None])
    /\ Done(t)
    /\ UNCHANGED <<users, roles, sessions, images, writer, file, up, trusts, ops, crashed, history>>

\* Host::delete reads the host again; its owner needs no role.
DeleteChecked(t) ==
    /\ At(t, "again")
    /\ LET h == task[t].host
       IN IF h \notin DOMAIN hosts THEN Done(t)
          ELSE Goto(t, IF hosts[h].owner = task[t].me THEN "images" ELSE "user")
    /\ Quiet

\* Host::delete drops the host's cached images before the host.
Purged(h) == images \ {h}

DropImages(t) ==
    /\ At(t, "images")
    /\ images' = Purged(task[t].host) /\ Goto(t, "remove")
    /\ UNCHANGED <<maps, sessions, dirty, writer, file, up, trusts, ops, crashed, history>>

RemoveHost(t) ==
    /\ At(t, "remove") /\ ~Copying
    /\ IF task[t].host \in DOMAIN hosts
       THEN hosts' = Without(hosts, {task[t].host}) /\ ForceWrite
       ELSE UNCHANGED <<hosts, dirty>>
    /\ Done(t)
    /\ UNCHANGED <<users, roles, sessions, images, writer, file, up, trusts, ops, crashed, history>>

\* app_image: a hit answers at once; otherwise the user record gives the client's identity.
CachedImage(t) ==
    /\ At(t, "cache")
    /\ IF task[t].host \in images THEN Done(t) ELSE Goto(t, "user")
    /\ Quiet

\* A host that is gone, or whose images were already dropped.
Leaving(h) == h \notin DOMAIN hosts \/ \E t \in Tasks : task[t].pc = "remove" /\ task[t].host = h

\* The image arrives and is stored whatever became of the host; or the request fails.
FetchImage(t) ==
    /\ At(t, "fetch")
    /\ LET h == task[t].host
       IN \/ UNCHANGED <<images, cached>>
          \/ /\ images' = images \union {h}
             /\ cached' = IF Leaving(h) THEN cached \union {h} ELSE cached
    /\ Done(t)
    /\ UNCHANGED <<maps, sessions, dirty, writer, file, up, trusts, ops, crashed, drawn, late, overlap, ioFailed, unreachable>>

\* Host::pair asks the host whether the stored identity is paired; a host may have forgotten it.
PairInfo(t) ==
    /\ At(t, "info")
    /\ Goto(t, "pairing") \/ Done(t)
    /\ Quiet

\* The host's user enters the pin, and the host answers the query that follows it or not.
Pairing(t) ==
    /\ At(t, "pairing")
    /\ \/ Done(t) /\ UNCHANGED trusts
       \/ /\ trusts' = [trusts EXCEPT ![task[t].host] = @ \union {t}]
          /\ Goto(t, "store") \/ Done(t)
    /\ UNCHANGED <<maps, sessions, images, dirty, writer, file, up, ops, crashed, history>>

\* Host::pair stores the identity through the record cached when the request came in.
StorePairing(t) ==
    /\ At(t, "store")
    /\ LET h == task[t].host IN Change(h, [owner |-> IF h \in DOMAIN hosts THEN hosts[h].owner ELSE None, pair |-> t])
    /\ IF task[t].host \in DOMAIN hosts THEN Goto(t, "detail") ELSE Done(t)
    /\ UNCHANGED <<users, roles, sessions, images, writer, file, up, trusts, ops, crashed, history>>

\* detailed_host then reads the host again: can_use lets an admin pass, owner_info does not.
DetailedHost(t) ==
    /\ At(t, "detail")
    /\ LET h == task[t].host
       IN unreachable' = (unreachable \/ (h \in DOMAIN hosts /\ hosts[h].owner \notin {None, task[t].me} /\ IsAdmin(t) /\ ~task[t].company))
    /\ Done(t)
    /\ UNCHANGED <<maps, sessions, images, dirty, writer, file, up, trusts, ops, crashed, drawn, late, overlap, cached, ioFailed>>

\* ------------------------------------------------------------------- writer

\* file_writer takes the message before it copies anything.
WriterStarts ==
    /\ up /\ writer.pc = "idle" /\ dirty
    /\ dirty' = FALSE /\ writer' = [writer EXCEPT !.pc = "users"]
    /\ UNCHANGED <<maps, sessions, images, file, up, task, trusts, ops, crashed, history>>

\* store: one map after the other.
CopyMap ==
    /\ up /\ Copying
    /\ writer' = CASE writer.pc = "users" -> [writer EXCEPT !.users = users, !.pc = "hosts"]
                   [] writer.pc = "hosts" -> [writer EXCEPT !.hosts = hosts, !.pc = "roles"]
                   [] OTHER -> [writer EXCEPT !.roles = roles, !.pc = "truncate"]
    /\ UNCHANGED <<maps, sessions, images, dirty, file, up, task, trusts, ops, crashed, history>>

Torn == [users |-> Empty, hosts |-> Empty, roles |-> Empty, torn |-> TRUE]

\* fs::write truncates the file and writes it in place; an error is only logged.
Truncate ==
    /\ up /\ writer.pc = "truncate"
    /\ \/ file' = Torn /\ writer' = [writer EXCEPT !.pc = "write"] /\ UNCHANGED ioFailed
       \/ writer' = IdleWriter /\ ioFailed' = TRUE /\ UNCHANGED file
    /\ UNCHANGED <<maps, sessions, images, dirty, up, task, trusts, ops, crashed, drawn, late, overlap, cached, unreachable>>

DirtyForgotten == FALSE

\* What a change made while the file was being written leaves behind.
DirtyAfterWrite == dirty

WriterEnds ==
    /\ up /\ writer.pc = "write"
    /\ file' = [users |-> writer.users, hosts |-> writer.hosts, roles |-> writer.roles]
    /\ writer' = IdleWriter /\ ioFailed' = FALSE /\ dirty' = DirtyAfterWrite
    /\ UNCHANGED <<maps, sessions, images, up, task, trusts, ops, crashed, drawn, late, overlap, cached, unreachable>>

\* A crash keeps the file alone; load_internal refuses a torn one and the server does not start.
Crash ==
    /\ up /\ ~crashed /\ crashed' = TRUE
    /\ up' = (file # Torn)
    /\ users' = file.users /\ hosts' = file.hosts /\ roles' = file.roles
    /\ sessions' = {} /\ images' = {} /\ cached' = {} /\ dirty' = FALSE /\ writer' = IdleWriter
    /\ task' = [t \in Tasks |-> NoTask] /\ ioFailed' = FALSE
    /\ UNCHANGED <<file, trusts, ops, drawn, late, overlap, unreachable>>

\* --------------------------------------------------------------------- spec

StoreNext ==
    \/ \E t \in Tasks :
        \/ Request(t) \/ StorageUser(t) \/ RoleChecked(t) \/ ById(t)
        \/ CheckName(t) \/ InsertUser(t) \/ ModifyUser(t) \/ RemoveUser(t)
        \/ AddRole(t) \/ ModifyRole(t) \/ RemoveMembers(t) \/ RemoveRole(t)
        \/ AnyUserExists(t) \/ FindRole(t) \/ ByName(t) \/ ListGlobalHosts(t) \/ AssignGlobalHosts(t) \/ NewSession(t)
        \/ GetHost(t) \/ AddHost(t) \/ PatchHost(t) \/ DeleteChecked(t) \/ DropImages(t) \/ RemoveHost(t)
        \/ CachedImage(t) \/ FetchImage(t) \/ PairInfo(t) \/ Pairing(t) \/ StorePairing(t) \/ DetailedHost(t)
    \/ SessionEnds \/ WriterStarts \/ CopyMap \/ Truncate \/ WriterEnds \/ Crash

StoreSpec == StoreInit /\ [][StoreNext]_storeVars

\* --------------------------------------------------------------- properties

UserRecords == [name : UserNames \union {None}, role : Ids \union {None}]
RoleRecords == [ty : {"Admin", "User"}, add : BOOLEAN]
HostRecords == [owner : Ids \union {None}, pair : Tasks \union {None}]

\* The maps hold records under identifiers, and a handler is at a place of its operation.
StoreTypeOK ==
    /\ DOMAIN users \subseteq Ids /\ Range(users) \subseteq UserRecords
    /\ DOMAIN roles \subseteq Ids /\ Range(roles) \subseteq RoleRecords
    /\ DOMAIN hosts \subseteq Ids /\ Range(hosts) \subseteq HostRecords
    /\ sessions \subseteq Ids /\ images \subseteq Ids /\ dirty \in BOOLEAN /\ up \in BOOLEAN
    /\ \A t \in Tasks : task[t].op \in Ops \union {"none"} /\ (task[t] = NoTask <=> task[t].op = "none")

\* No change is forgotten by the one-slot channel: with no message waiting, the writer idle
\* and no remove_role between its two sections, the file holds exactly what memory holds
\* (unless the last write failed, which is only logged).
NoLostWrite ==
    (up /\ ~dirty /\ writer.pc = "idle" /\ ~ioFailed /\ \A t \in Tasks : task[t].pc # "drop")
        => file = Memory

\* remove_role takes its users along, in memory and in every file written: a user whose
\* role does not exist was given it when it did not exist, or when its users had already
\* been collected, for neither add_user nor modify_user looks the role up.
OrphanWasGiven ==
    /\ \A u \in DOMAIN users : users[u].role \notin DOMAIN roles => u \in late
    /\ \A u \in DOMAIN file.users : file.users[u].role \notin DOMAIN file.roles => u \in late

\* add_user refuses a taken name: two users of one name mean that the request that added
\* one of them shared its life with another.
DuplicateNeedsOverlap ==
    \A u, v \in DOMAIN users : (u # v /\ users[u].name = users[v].name) => {u, v} \cap overlap # {}

\* A first login adds an admin beside nobody who was there when it looked: whoever it finds
\* came after its any_user_exists.  That is all the check gives: two first logins that both
\* look before either adds its user both become admins, and "only this user exists" is then
\* false of the second (try_add_first_login).
FirstLoginJoinsNobody ==
    [][\A t \in Tasks : task[t].op = "login" /\ task[t].pc = "insert" /\ task'[t].pc = "global"
                        => DOMAIN users \subseteq task[t].looked + 1 .. MaxId]_storeVars

\* Deleting a host empties its image cache: an image of a host that is gone was fetched
\* across the removal.
ImageNeedsOverlap == images \subseteq DOMAIN hosts \union cached

\* A stored pairing, in memory or in the file, is one the host agreed to.
PairingTrusted ==
    \A m \in {Memory, file} : \A h \in DOMAIN m.hosts :
        m.hosts[h].pair # None => m.hosts[h].pair \in trusts[h]

\* owner_info's unreachable! arm: whoever reads a host's owner there owns it or shares it,
\* unless another request gave the host away while this one was pairing it.
PanicNeedsRace == ~unreachable

\* The JSON store against concurrent requests: no change is lost on its way to
\* the file, duplicates, stale images and the unreachable! arm need two requests
\* that overlap, and an orphan a role id that was no longer, or never, one
\* (json/mod.rs, app/user.rs, app/host.rs).
StoreRacesBounded ==
    /\ StoreTypeOK /\ NoLostWrite /\ OrphanWasGiven /\ DuplicateNeedsOverlap
    /\ ImageNeedsOverlap /\ PairingTrusted /\ PanicNeedsRace

=============================================================================
