-------------------------------- MODULE Auth --------------------------------
(***************************************************************************)
(* The user table (server/src/auth.c): loaded from users.db before the     *)
(* server runs, looked up by client threads, and zeroed by server_cleanup  *)
(* while client threads may still be inside a command.  The lock covers    *)
(* each lookup; auth_get_user returns a pointer into the table, which      *)
(* session_authenticate reads after the lock is released.                  *)
(***************************************************************************)
EXTENDS Naturals, Sequences, FiniteSetsExt

CONSTANTS Clients,       \* client threads
          Names, Passwords,
          Hash,          \* Hash[p]: what hash_password makes of p
          Words,         \* what the fields of a line may hold
          Files,         \* contents users.db may have
          Defaults,      \* rights given to auth_set_anonymous_defaults
          MaxUsers       \* AUTH_MAX_USERS

Nothing == ""            \* an empty string
Cut == "/cut"            \* part of a string
Anonymous == "anonymous"

ASSUME MaxUsersIsPositive == MaxUsers \in Nat \ {0}

PermissionSets == SUBSET {"READ", "WRITE", "DELETE", "RENAME", "MKDIR", "RMDIR", "ADMIN"}

BuiltIn == [home_dir |-> "/pub", permissions |-> {"READ"}]
Texts   == Words \cup {Nothing, Cut, BuiltIn.home_dir}
Rights  == [home_dir : Texts, permissions : PermissionSets]
Lines   == [username : Words, password_hash : Words, home_dir : Words,
            permissions : PermissionSets]

ASSUME FilesHaveLines == Files \subseteq Seq(Lines)
ASSUME DefaultsAreRights == Defaults \in Rights

Slots == 1 .. MaxUsers
NULL == 0
Virtual == MaxUsers + 1  \* &g_virtual_anonymous

VARIABLES
    main,                \* progress of the main thread
    file, line_num,      \* what users.db holds; how many lines of it were read
    g_initialized, g_anonymous_enabled, g_users, g_virtual_anonymous,
    lock,                \* g_auth_lock is held by auth_cleanup
    g_handlers,          \* the command table is filled
    g_server_running,
    pc,                  \* per client: progress of its thread
    cmd,                 \* the command it handles
    username, waiting,   \* waiting: SESSION_STATE_WAIT_PASSWORD
    authenticated, user, \* user: the pointer auth_get_user returned
    rights,              \* permissions and user_home_dir of the session
    login                \* ghost: name and password of the last login

fileVars   == <<file, line_num>>
tableVars  == <<fileVars, g_initialized, g_anonymous_enabled, g_users, g_virtual_anonymous, lock>>
serverVars == <<g_handlers, g_server_running>>
nameVars   == <<username, waiting>>
loginVars  == <<authenticated, login>>
sessionVars == <<nameVars, loginVars, user, rights>>
clientVars == <<pc, cmd, sessionVars>>
vars == <<main, tableVars, serverVars, clientVars>>

Zero == [in_use |-> FALSE, username |-> Nothing, password_hash |-> Nothing,
         home_dir |-> Nothing, permissions |-> {}]

NoCmd == [op |-> "none", arg |-> Nothing]
NoLogin == [name |-> Nothing, password |-> Nothing]

Init ==
    /\ main = "start" /\ file \in Files /\ line_num = 0
    /\ g_initialized = FALSE /\ g_anonymous_enabled = TRUE
    /\ g_users = [s \in Slots |-> Zero]
    /\ g_virtual_anonymous = BuiltIn
    /\ lock = FALSE /\ g_handlers = FALSE /\ g_server_running = FALSE
    /\ pc = [c \in Clients |-> "none"] /\ cmd = [c \in Clients |-> NoCmd]
    /\ username = [c \in Clients |-> Nothing] /\ waiting = [c \in Clients |-> FALSE]
    /\ authenticated = [c \in Clients |-> FALSE] /\ user = [c \in Clients |-> NULL]
    /\ rights = [c \in Clients |-> [home_dir |-> Nothing, permissions |-> {}]]
    /\ login = [c \in Clients |-> NoLogin]

-----------------------------------------------------------------------------
(* The table                                                               *)

\* A line is refused, like a comment, if a field of it is empty: %[^:] needs
\* at least one character.
Parses(line) == Nothing \notin {line.username, line.password_hash, line.home_dir}

\* The first free slot, if there is one.
Free(users) == {s \in Slots : ~ users[s].in_use /\ \A t \in Slots : t < s => users[t].in_use}

AddLine(users, line) ==
    [s \in Slots |->
        IF Parses(line) /\ s \in Free(users)
        THEN [in_use |-> TRUE, username |-> line.username, password_hash |-> line.password_hash,
              home_dir |-> line.home_dir, permissions |-> line.permissions]
        ELSE users[s]]

\* find_user: the first entry of that name, or NULL.
Find(users, name) ==
    LET found == {s \in Slots : users[s].in_use /\ users[s].username = name}
    IN  IF found = {} THEN NULL ELSE Min(found)

\* What a pointer into the table, or to the virtual user, points at.
RightsAt(users, u) ==
    IF u = Virtual THEN g_virtual_anonymous
    ELSE [home_dir |-> users[u].home_dir, permissions |-> users[u].permissions]

IsVirtual(name) == g_anonymous_enabled /\ name = Anonymous

\* verify_password and the rule for anonymous.
Accepts(users, name, password) ==
    IsVirtual(name)
      \/ \E s \in Slots : s = Find(users, name) /\ users[s].password_hash = Hash[password]

\* Faulty variant: the order of the two is swapped.
PointerVirtualFirst(users, name) == IF IsVirtual(name) THEN Virtual ELSE Find(users, name)

\* auth_get_user
Pointer(users, name) ==
    IF Find(users, name) = NULL /\ IsVirtual(name) THEN Virtual ELSE Find(users, name)

-----------------------------------------------------------------------------
(* The main thread: server_init, server_run, server_cleanup                *)

Main(from, to) == main = from /\ main' = to

AuthInit ==
    /\ Main("start", "defaults")
    /\ g_users' = [s \in Slots |-> Zero] /\ g_initialized' = TRUE
    /\ UNCHANGED <<fileVars, g_anonymous_enabled, g_virtual_anonymous, lock, serverVars,
                   clientVars>>

SetAnonymous ==
    /\ Main("defaults", "load")
    /\ g_anonymous_enabled' = TRUE /\ g_virtual_anonymous' = Defaults
    /\ UNCHANGED <<fileVars, g_initialized, g_users, lock, serverVars, clientVars>>

\* auth_load_users: one turn of its loop, ...
LoadLine ==
    /\ main = "load" /\ line_num < Len(file) /\ Free(g_users) # {}
    /\ line_num' = line_num + 1
    /\ g_users' = AddLine(g_users, file[line_num + 1])
    /\ UNCHANGED <<main, file, g_initialized, g_anonymous_enabled, g_virtual_anonymous, lock,
                   serverVars, clientVars>>

\* ... which ends with the file or when the table is full.  A file that cannot
\* be opened is like an empty one.
LoadEnds ==
    /\ line_num = Len(file) \/ Free(g_users) = {}
    /\ Main("load", "listen")
    /\ UNCHANGED <<tableVars, serverVars, clientVars>>

\* The command table and the listening socket.
Listen ==
    /\ Main("listen", "run")
    /\ g_handlers' = TRUE /\ g_server_running' = TRUE
    /\ UNCHANGED <<tableVars, clientVars>>

\* The address is in use: the process ends.
ListenFails ==
    /\ Main("listen", "exited")
    /\ g_users' = [s \in Slots |-> Zero] /\ g_initialized' = FALSE
    /\ UNCHANGED <<fileVars, g_anonymous_enabled, g_virtual_anonymous, lock, serverVars,
                   clientVars>>

\* server_stop, and server_run returns.
Stop ==
    /\ Main("run", "cleanup")
    /\ g_server_running' = FALSE
    /\ UNCHANGED <<tableVars, g_handlers, clientVars>>

CmdCleanup ==
    /\ Main("cleanup", "auth_cleanup")
    /\ g_handlers' = FALSE
    /\ UNCHANGED <<tableVars, g_server_running, clientVars>>

\* auth_cleanup: the memset writes the fields in any order; names and hashes
\* are only read under the lock, ...
LockTable ==
    /\ Main("auth_cleanup", "zeroing")
    /\ lock' = TRUE
    /\ g_users' = [s \in Slots |->
          [Zero EXCEPT !.home_dir = g_users[s].home_dir, !.permissions = g_users[s].permissions]]
    /\ UNCHANGED <<fileVars, g_initialized, g_anonymous_enabled, g_virtual_anonymous, serverVars,
                   clientVars>>

\* ... homes and permissions through pointers as well.
ZeroHome(s) ==
    /\ main = "zeroing" /\ g_users[s].home_dir # Nothing
    /\ g_users' = [g_users EXCEPT ![s].home_dir = Nothing]
    /\ UNCHANGED <<main, fileVars, g_initialized, g_anonymous_enabled, g_virtual_anonymous, lock,
                   serverVars, clientVars>>

ZeroPermissions(s) ==
    /\ main = "zeroing" /\ g_users[s].permissions # {}
    /\ g_users' = [g_users EXCEPT ![s].permissions = {}]
    /\ UNCHANGED <<main, fileVars, g_initialized, g_anonymous_enabled, g_virtual_anonymous, lock,
                   serverVars, clientVars>>

UnlockTable ==
    /\ Main("zeroing", "exit")
    /\ g_users = [s \in Slots |-> Zero]
    /\ g_initialized' = FALSE /\ lock' = FALSE
    /\ UNCHANGED <<fileVars, g_anonymous_enabled, g_users, g_virtual_anonymous, serverVars,
                   clientVars>>

\* main returns: the process ends, whatever threads remain.
Exit == Main("exit", "exited") /\ UNCHANGED <<tableVars, serverVars, clientVars>>

-----------------------------------------------------------------------------
(* A client thread                                                         *)

\* No thread has called through a pointer that is NULL.
Alive == main # "exited" /\ \A c \in Clients : pc[c] # "crashed"

Goes(c, from, to) == Alive /\ pc[c] = from /\ pc' = [pc EXCEPT ![c] = to]

ServerUnchanged == UNCHANGED <<main, tableVars, serverVars>>

Connect(c) ==
    /\ main = "run"
    /\ Goes(c, "none", "loop")
    /\ ServerUnchanged /\ UNCHANGED <<cmd, sessionVars>>

LoopTest(c) ==
    /\ Goes(c, "loop", IF g_server_running THEN "receive" ELSE "left")
    /\ ServerUnchanged /\ UNCHANGED <<cmd, sessionVars>>

\* ACT is any command that needs rights.
Commands == [op : {"USER"}, arg : Names] \cup [op : {"PASS"}, arg : Passwords]
            \cup [op : {"ACT"}, arg : {Nothing}]

\* net_receive_line: a command, or the end of the connection.
Receive(c) ==
    /\ \/ /\ Goes(c, "receive", "dispatch")
          /\ \E command \in Commands : cmd' = [cmd EXCEPT ![c] = command]
       \/ Goes(c, "receive", "left") /\ UNCHANGED cmd
    /\ ServerUnchanged /\ UNCHANGED sessionVars

\* The handler is done, and so is the command.
Done(c) == cmd' = [cmd EXCEPT ![c] = NoCmd]

\* The handler goes on if the test holds, and is done if not.
GoesIf(c, from, test, to) ==
    /\ Goes(c, from, IF test THEN to ELSE "loop")
    /\ cmd' = IF test THEN cmd ELSE [cmd EXCEPT ![c] = NoCmd]

\* cmd_dispatch finds the entry of the command, ...
Lookup(c) ==
    /\ GoesIf(c, "dispatch", g_handlers, "call")
    /\ ServerUnchanged /\ UNCHANGED sessionVars

\* ... and calls its handler, which cmd_cleanup may have set to NULL.
Call(c) ==
    /\ Goes(c, "call", IF g_handlers THEN cmd[c].op ELSE "crashed")
    /\ ServerUnchanged /\ UNCHANGED <<cmd, sessionVars>>

\* cmd_handle_user
User(c) ==
    LET name == cmd[c].arg
        known == IF name = Anonymous THEN g_anonymous_enabled
                 ELSE g_initialized /\ Find(g_users, name) # NULL
    IN  /\ Goes(c, "USER", "loop") /\ ~ lock
        /\ username' = [username EXCEPT ![c] = IF known THEN name ELSE @]
        /\ waiting' = [waiting EXCEPT ![c] = @ \/ known]
        /\ Done(c)
        /\ ServerUnchanged /\ UNCHANGED <<loginVars, user, rights>>

\* cmd_handle_pass, and the test of g_initialized in auth_authenticate.
Pass(c) ==
    /\ GoesIf(c, "PASS", waiting[c] /\ g_initialized, "verify")
    /\ ServerUnchanged /\ UNCHANGED sessionVars

\* auth_authenticate, under the lock.
Verify(c) ==
    /\ ~ lock
    /\ GoesIf(c, "verify", Accepts(g_users, username[c], cmd[c].arg), "get")
    /\ ServerUnchanged /\ UNCHANGED sessionVars

\* The test of g_initialized in auth_get_user.
GetTest(c) ==
    /\ GoesIf(c, "get", g_initialized, "find")
    /\ ServerUnchanged /\ UNCHANGED sessionVars

\* Faulty variant: the pointer is not tested.
GetUserUntested(c) ==
    /\ ~ lock
    /\ user' = [user EXCEPT ![c] = Pointer(g_users, username[c])]
    /\ Goes(c, "find", "permissions") /\ UNCHANGED cmd
    /\ ServerUnchanged /\ UNCHANGED <<nameVars, loginVars, rights>>

\* auth_get_user, under the lock.
GetUser(c) ==
    /\ ~ lock
    /\ user' = [user EXCEPT ![c] = Pointer(g_users, username[c])]
    /\ GoesIf(c, "find", user'[c] # NULL, "permissions")
    /\ ServerUnchanged /\ UNCHANGED <<nameVars, loginVars, rights>>

\* session_authenticate reads what the pointer points at, without the lock.
ReadPermissions(c) ==
    /\ Goes(c, "permissions", "home")
    /\ rights' = [rights EXCEPT ![c].permissions = RightsAt(g_users, user[c]).permissions]
    /\ ServerUnchanged /\ UNCHANGED <<cmd, nameVars, loginVars, user>>

\* A string that is zeroed while it is copied may come out cut.
ReadHome(c) ==
    /\ Goes(c, "home", "loop")
    /\ \E home \in {RightsAt(g_users, user[c]).home_dir} \cup (IF lock THEN {Cut} ELSE {}) :
          rights' = [rights EXCEPT ![c].home_dir = home]
    /\ authenticated' = [authenticated EXCEPT ![c] = TRUE]
    /\ waiting' = [waiting EXCEPT ![c] = FALSE]
    /\ login' = [login EXCEPT ![c] = [name |-> username[c], password |-> cmd[c].arg]]
    /\ user' = [user EXCEPT ![c] = NULL]
    /\ Done(c)
    /\ ServerUnchanged /\ UNCHANGED username

\* Any other handler: it acts, if the session is authenticated, within rights.
Act(c) ==
    /\ Goes(c, "ACT", "loop")
    /\ Done(c)
    /\ ServerUnchanged /\ UNCHANGED sessionVars

-----------------------------------------------------------------------------
(* Specification                                                           *)

MainThread ==
    \/ AuthInit \/ SetAnonymous \/ LoadLine \/ LoadEnds \/ Listen \/ ListenFails \/ Stop
    \/ CmdCleanup \/ LockTable \/ UnlockTable \/ Exit
    \/ \E s \in Slots : ZeroHome(s) \/ ZeroPermissions(s)

Client(c) ==
    \/ Connect(c) \/ LoopTest(c) \/ Receive(c) \/ Lookup(c) \/ Call(c) \/ User(c) \/ Pass(c)
    \/ Verify(c) \/ GetTest(c) \/ GetUser(c) \/ ReadPermissions(c) \/ ReadHome(c) \/ Act(c)

Next ==
    \/ (\A c \in Clients : pc[c] # "crashed") /\ MainThread
    \/ \E c \in Clients : Client(c)

Spec == Init /\ [][Next]_vars

-----------------------------------------------------------------------------
(* Properties                                                              *)

\* The types of the table and the sessions; a pointer that is read through is
\* not NULL.
TypeOK ==
    /\ main \in {"start", "defaults", "load", "listen", "run", "cleanup", "auth_cleanup",
                 "zeroing", "exit", "exited"}
    /\ {g_initialized, g_anonymous_enabled, lock, g_handlers, g_server_running} \subseteq BOOLEAN
    /\ DOMAIN g_users = Slots
    /\ \A s \in Slots : /\ DOMAIN g_users[s] = DOMAIN Zero
                        /\ g_users[s].in_use \in BOOLEAN
                        /\ g_users[s].permissions \in PermissionSets
    /\ g_virtual_anonymous.permissions \in PermissionSets
    /\ \A c \in Clients :
          /\ pc[c] \in {"none", "loop", "receive", "dispatch", "call", "USER", "PASS", "ACT",
                        "verify", "get", "find", "permissions", "home", "left", "crashed"}
          /\ cmd[c].op \in {"none", "USER", "PASS", "ACT"}
          /\ username[c] \in Names \cup {Nothing}
          /\ waiting[c] \in BOOLEAN /\ authenticated[c] \in BOOLEAN
          /\ user[c] \in Slots \cup {NULL, Virtual}
          /\ pc[c] \in {"permissions", "home"} => user[c] # NULL
          /\ rights[c].permissions \in PermissionSets

\* How many of the first n lines parse.
Rank(n) == Cardinality({i \in 1 .. n : Parses(file[i])})

\* The lines of users.db that are stored: those that parse, as many as there
\* are slots.
Counted == {i \in DOMAIN file : Parses(file[i]) /\ Rank(i) <= MaxUsers}

Stored(name) == {i \in Counted : file[i].username = name}

\* The first of the given lines decides; anonymous has the defaults without one.
RightsOf(lines) ==
    IF lines = {} THEN Defaults
    ELSE LET line == file[Min(lines)]
         IN  [home_dir |-> line.home_dir, permissions |-> line.permissions]

Given(name) == RightsOf(Stored(name))

\* What the documents add to the lines that parse: anonymous needs no hash
\* (auth.c:221, users.db.example:21: "anonymous::/pub:1").
NeedsNoHash(line) ==
    line.username = Anonymous /\ line.password_hash = Nothing /\ line.home_dir # Nothing

\* The lines of users.db that have a meaning for that name, while there is room.
Named(name) ==
    Stored(name) \cup {i \in DOMAIN file : /\ NeedsNoHash(file[i]) /\ file[i].username = name
                                           /\ Rank(i) < MaxUsers}

\* What the documents grant a user of that name (auth.h:88-91, 105-109).
Granted(name) == RightsOf(Named(name))

\* The line that should decide is one without a hash, which does not parse.
Unread(name) == Named(name) # {} /\ ~ Parses(file[Min(Named(name))])

\* From auth_load_users to auth_cleanup, a lookup finds the account of the
\* first line of users.db with that name, among the first AUTH_MAX_USERS lines
\* that parse.
LoadExact ==
    main \in {"listen", "run", "cleanup", "auth_cleanup"} =>
        \A name \in Names :
            LET s == Find(g_users, name) IN
            IF Stored(name) = {} THEN s = NULL
            ELSE /\ s # NULL
                 /\ RightsAt(g_users, s) = Given(name)
                 /\ g_users[s].password_hash = file[Min(Stored(name))].password_hash

\* Whatever auth_cleanup does to the table under a session_authenticate that
\* still reads it, a handler that acts for an authenticated session does so
\* with the rights that users.db grants the account whose password was given: no
\* command is dispatched between auth_cleanup and the end of the thread.  One
\* name is excepted: anonymous, if the line that should decide has no hash; it
\* is skipped, and the next one or the defaults decide.
ActsAsLoggedIn ==
    \A c \in Clients :
        pc[c] = "ACT" /\ authenticated[c] =>
            /\ \/ rights[c] = Granted(login[c].name)
               \/ Unread(login[c].name) /\ rights[c] = Given(login[c].name)
            /\ \/ login[c].name = Anonymous
               \/ /\ Named(login[c].name) # {}
                  /\ file[Min(Named(login[c].name))].password_hash = Hash[login[c].password]

\* server.h: server_cleanup "should be called after server_run() returns": no
\* client thread then calls a handler that cmd_cleanup has cleared.
NeverCallsNull == \A c \in Clients : pc[c] # "crashed"

\* auth.c: "Anonymous user can be defined here or will use default settings
\* ... # anonymous::/pub:1": without the exception of ActsAsLoggedIn.
ActsAsDocumented ==
    \A c \in Clients :
        pc[c] = "ACT" /\ authenticated[c] => rights[c] = Granted(login[c].name)

=============================================================================
