--------------------------- MODULE SessionControl ---------------------------
(***************************************************************************)
(* The control connection of one session: login, working directory, the    *)
(* pending REST and RNFR, and the test of a path against the rights of the *)
(* login (session.c, handler.c, command.c, auth.c).                        *)
(*                                                                         *)
(* The client thread handles one command at a time, so a command is a      *)
(* step: first the "previous handler" of the command table, which clears   *)
(* what is pending, then the handler.  A path is a sequence of names.      *)
(* Whether a file exists, a password is right, the data connection opens,  *)
(* is a choice to refuse.  QUIT and the transfers are in SessionTransfer.  *)
(***************************************************************************)
EXTENDS Integers, Sequences, SequencesExt

CONSTANTS Users,        \* the user database, and "anonymous" if enabled
          NoUser,
          NoPath,       \* no rename is pending, no home is set
          HomeOf,       \* HomeOf[u]: the home directory of u
          PermsOf,      \* PermsOf[u]: the permissions of u
          Dirs,         \* the directories that exist
          Args,         \* bound: the arguments that clients send
          MaxOffset     \* bound: the largest REST offset

Rights == {"READ", "WRITE", "DELETE", "RENAME", "MKDIR", "RMDIR", "ADMIN"}

Root == <<>>

ASSUME NoUserIsNoUser == NoUser \notin Users
ASSUME PermsOfTyped   == PermsOf \in [Users -> SUBSET Rights]
ASSUME MaxOffsetIsNat == MaxOffset \in Nat

VARIABLES session,      \* the control part of session_t
          login,        \* ghost: the user whose password was last accepted
          since,        \* ghost: the commands handled since REST, since RNFR
          acted         \* ghost: what the command just handled did to files

vars == <<session, login, since, acted>>

-----------------------------------------------------------------------------
(* The command table                                                       *)

\* What each command on a path needs.
Needs == [RETR |-> "READ", LIST |-> "READ", SIZE |-> "READ", CWD |-> "READ",
          STOR |-> "WRITE", APPE |-> "WRITE", DELE |-> "DELETE",
          MKD |-> "MKDIR", RMD |-> "RMDIR", RNFR |-> "RENAME", RNTO |-> "RENAME"]

\* LIST is NLST too, SIZE is MDTM, CWD is CDUP, TYPE is every command that
\* touches nothing of this module (PWD, PASV, ABOR, ...).  NOOP, with FEAT
\* and unknown commands, has no previous handler.
Commands == DOMAIN Needs \cup {"USER", "PASS", "REIN", "REST", "TYPE", "NOOP"}

\* Faulty variant: USER keeps the pending rename, as RNTO does.
ClearsRenameButUser == Commands \ {"RNTO", "NOOP", "USER"}

ClearsRename  == Commands \ {"RNTO", "NOOP"}
ClearsRestart == Commands \ {"RETR", "STOR", "REST", "NOOP"}

\* The session after the previous handler of a command.
Cleared(cmd) ==
    [session EXCEPT !.rename_from = IF cmd \in ClearsRename THEN NoPath ELSE @,
                    !.restart_offset = IF cmd \in ClearsRestart THEN 0 ELSE @]

\* session_reset_state, for a new session and for REIN.
Fresh == [state |-> "connected", authenticated |-> FALSE, username |-> NoUser,
          permissions |-> {}, user_home_dir |-> NoPath, current_dir |-> Root,
          restart_offset |-> 0, rename_from |-> NoPath]

Nothing == [op |-> "NOOP", paths |-> {}, offset |-> 0]

Init ==
    /\ session = Fresh
    /\ login = NoUser
    /\ since = [restart |-> {}, rename |-> {}]
    /\ acted = Nothing

\* A handled command leaves the session as new.  Bookkeeping: it counts
\* against what stays pending.
Handled(cmd, new) ==
    /\ session' = new
    /\ since' = [restart |-> IF new.restart_offset = 0 THEN {} ELSE since.restart \cup {cmd},
                 rename |-> IF new.rename_from = NoPath THEN {} ELSE since.rename \cup {cmd}]

Acts(cmd, paths, offset) == acted' = [op |-> cmd, paths |-> paths, offset |-> offset]

ActsNot == acted' = Nothing

-----------------------------------------------------------------------------
(* Paths                                                                   *)

\* normalize_and_validate_path: ".." stops at the root.
Component(path, name) ==
    CASE name = "."  -> path
      [] name = ".." -> IF path = Root THEN Root ELSE Front(path)
      [] OTHER       -> Append(path, name)

Resolve(arg) ==
    FoldLeft(Component, Root,
             IF arg.absolute THEN arg.names ELSE session.current_dir \o arg.names)

\* The prefix test of session_check_path_access.  It is made on characters,
\* and after the home "/" no other "/" can follow.
Within(home, path) == IF home = Root THEN path = Root ELSE IsPrefix(home, path)

\* Faulty variant: the home directory is not looked at.
CheckAccessAnywhere(path, right) ==
    /\ session.authenticated
    /\ "ADMIN" \in session.permissions \/ right \in session.permissions

CheckAccess(path, right) ==
    /\ session.authenticated
    /\ \/ "ADMIN" \in session.permissions
       \/ right \in session.permissions /\ Within(session.user_home_dir, path)

-----------------------------------------------------------------------------
(* Login                                                                   *)

\* The name changes, what was granted stays.
User(u) ==
    /\ Handled("USER", [Cleared("USER") EXCEPT !.username = u, !.state = "wait_password"])
    /\ ActsNot
    /\ UNCHANGED login

\* Faulty variant: the permissions are set, the home directory is not.
PassKeepsHome ==
    LET u == session.username IN
    /\ session.state = "wait_password"
    /\ Handled("PASS", [Cleared("PASS") EXCEPT
                          !.permissions = PermsOf[u], !.authenticated = TRUE,
                          !.state = "authenticated"])
    /\ login' = u
    /\ ActsNot

\* session_authenticate: the directory changes only to a home that exists.
Pass ==
    LET u == session.username IN
    /\ session.state = "wait_password"
    /\ Handled("PASS", [Cleared("PASS") EXCEPT
                          !.permissions = PermsOf[u], !.user_home_dir = HomeOf[u],
                          !.authenticated = TRUE, !.state = "authenticated",
                          !.current_dir = IF HomeOf[u] \in Dirs THEN HomeOf[u] ELSE @])
    /\ login' = u
    /\ ActsNot

Rein == Handled("REIN", Fresh) /\ login' = NoUser /\ ActsNot

-----------------------------------------------------------------------------
(* Commands on files                                                       *)

\* Any command may be refused, for its argument, its moment, the rights, the
\* files or the network; what its previous handler cleared stays cleared.  TYPE
\* and NOOP do no more when they succeed.
Refused(cmd) == Handled(cmd, Cleared(cmd)) /\ ActsNot /\ UNCHANGED login

Cwd(arg) ==
    /\ CheckAccess(Resolve(arg), Needs.CWD)
    /\ Resolve(arg) \in Dirs
    /\ Handled("CWD", [Cleared("CWD") EXCEPT !.current_dir = Resolve(arg)])
    /\ Acts("CWD", {Resolve(arg)}, 0)
    /\ UNCHANGED login

\* Faulty variant: the sign of the offset is not looked at.
RestAnyOffset(offset) ==
    /\ session.authenticated
    /\ session' = [Cleared("REST") EXCEPT !.restart_offset = offset]
    /\ since' = [restart |-> {}, rename |-> {}]
    /\ ActsNot
    /\ UNCHANGED login

Rest(offset) ==
    /\ session.authenticated
    /\ offset >= 0
    /\ session' = [Cleared("REST") EXCEPT !.restart_offset = offset]
    /\ since' = [restart |-> {}, rename |-> {}]
    /\ ActsNot
    /\ UNCHANGED login

\* The offset is cleared when the data connection is open; the start of the
\* thread may still fail.
RetrOrStor(cmd, arg) ==
    /\ CheckAccess(Resolve(arg), Needs[cmd])
    /\ Handled(cmd, [Cleared(cmd) EXCEPT !.restart_offset = 0])
    /\ ActsNot \/ Acts(cmd, {Resolve(arg)}, session.restart_offset)
    /\ UNCHANGED login

\* APPE, DELE, MKD, RMD, LIST and SIZE.
OnPath(cmd, arg) ==
    /\ CheckAccess(Resolve(arg), Needs[cmd])
    /\ Handled(cmd, Cleared(cmd))
    /\ Acts(cmd, {Resolve(arg)}, 0)
    /\ UNCHANGED login

Rnfr(arg) ==
    /\ CheckAccess(Resolve(arg), Needs.RNFR)
    /\ session' = [Cleared("RNFR") EXCEPT !.rename_from = Resolve(arg)]
    /\ since' = [restart |-> {}, rename |-> {}]
    /\ ActsNot
    /\ UNCHANGED login

\* The source was tested by RNFR.  Once past the tests the pending rename is
\* cleared, whether the rename succeeds or not.
Rnto(arg) ==
    /\ session.rename_from # NoPath
    /\ CheckAccess(Resolve(arg), Needs.RNTO)
    /\ Handled("RNTO", [Cleared("RNTO") EXCEPT !.rename_from = NoPath])
    /\ ActsNot \/ Acts("RNTO", {session.rename_from, Resolve(arg)}, 0)
    /\ UNCHANGED login

-----------------------------------------------------------------------------
Next ==
    \/ \E u \in Users : User(u)
    \/ Pass
    \/ Rein
    \/ \E cmd \in Commands : Refused(cmd)
    \/ \E offset \in -1 .. MaxOffset : Rest(offset)
    \/ \E arg \in Args :
          \/ Cwd(arg) \/ Rnfr(arg) \/ Rnto(arg)
          \/ \E cmd \in {"RETR", "STOR"} : RetrOrStor(cmd, arg)
          \/ \E cmd \in {"APPE", "DELE", "MKD", "RMD", "LIST", "SIZE"} : OnPath(cmd, arg)

Spec == Init /\ [][Next]_vars

-----------------------------------------------------------------------------
(* Properties                                                              *)

\* The types of the control state.
TypeOK ==
    /\ DOMAIN session = DOMAIN Fresh
    /\ session.state \in {"connected", "wait_password", "authenticated"}
    /\ session.authenticated \in BOOLEAN
    /\ session.username \in Users \cup {NoUser}
    /\ session.state # "connected" => session.username \in Users
    /\ session.permissions \in SUBSET Rights
    /\ session.restart_offset \in 0 .. MaxOffset
    /\ login \in Users \cup {NoUser}
    /\ \A pending \in {"restart", "rename"} : since[pending] \subseteq Commands

\* What the session may do is what the user whose password it gave last may
\* do, all of it and nothing left of an earlier login: neither USER, which
\* changes the name at once, nor a refused PASS, nor REIN mixes two logins.
RightsOfLogin ==
    /\ session.authenticated <=> login # NoUser
    /\ session.authenticated => /\ session.permissions = PermsOf[login]
                                /\ session.user_home_dir = HomeOf[login]
    /\ ~ session.authenticated => session.permissions = {}

\* "Admin users can access any path; regular users can only access paths
\* within their home directory".
Entitled(u, path, right) ==
    \/ "ADMIN" \in PermsOf[u]
    \/ right \in PermsOf[u] /\ IsPrefix(HomeOf[u], path)

\* Every path that a command acts on is one that the present login may act on
\* in that way: also the source of a rename, tested by an earlier command, and
\* a path relative to a directory that an earlier login has left behind.
ActsWithinRights ==
    acted # Nothing =>
        /\ login # NoUser
        /\ \A path \in acted.paths : Entitled(login, path, Needs[acted.op])

\* A restart offset, or a rename, that is pending was asked for by the login
\* present, and nothing has been handled since that should have cleared it,
\* with one exception each: a RETR or STOR that is refused gets the offset and
\* does not clear it, so that it waits for the next one, of whatever file, and
\* so does the source of a rename when RNTO is refused.
OnlyRefusalsLeavePending ==
    /\ session.restart_offset > 0 =>
          /\ login # NoUser
          /\ since.restart \subseteq {"NOOP", "REST"} \cup {"RETR", "STOR"}
    /\ session.rename_from # NoPath =>
          /\ login # NoUser
          /\ Entitled(login, session.rename_from, "RENAME")
          /\ since.rename \subseteq {"NOOP"} \cup {"RNTO"}

\* session.h: "Gets and clears the restart offset", "Gets and clears the rename
\* source path": no transfer command and no RNTO, done or refused, is outlived by
\* what it got.  It does not hold (MCSessionControlPending.cfg): the handlers
\* clear them late, and return before that on every refusal.
PendingIsGotAndCleared ==
    /\ session.restart_offset > 0 => since.restart \cap {"RETR", "STOR"} = {}
    /\ session.rename_from # NoPath => "RNTO" \notin since.rename

\* server.c: "anonymous login by default with read-only access".  Who may read
\* can read every path in his home.
HomeIsReadable ==
    session.authenticated /\ "READ" \in session.permissions =>
        \A dir \in Dirs : IsPrefix(session.user_home_dir, dir) => CheckAccess(dir, "READ")

=============================================================================
