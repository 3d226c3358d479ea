------------------------ MODULE SessionControlProofs ------------------------
(***************************************************************************)
(* The properties of SessionControl, for every set of users, homes and     *)
(* permissions, whatever paths the clients send.  How a path is resolved   *)
(* does not matter to them.                                                *)
(***************************************************************************)
EXTENDS SessionControl, TLAPS

-----------------------------------------------------------------------------
\* Whatever passes the prefix test of session_check_path_access is in the home
\* in the sense of its documentation (not the other way round: HomeIsReadable).
LEMMA WithinIsPrefix ==
    ASSUME NEW home, NEW path, Within(home, path)
    PROVE  IsPrefix(home, path)
  <1>1. CASE home = Root
    <2>1. home = <<>> /\ path = <<>>
      BY <1>1 DEF Within, Root
    <2>2. Len(<<>>) <= Len(<<>>)
      OBVIOUS
    <2>3. QED
      BY <2>1, <2>2 DEF IsPrefix
  <1>2. CASE home # Root
    BY <1>2 DEF Within
  <1>3. QED
    BY <1>1, <1>2

-----------------------------------------------------------------------------
IInv == TypeOK /\ RightsOfLogin /\ ActsWithinRights /\ OnlyRefusalsLeavePending

\* What session_check_path_access lets pass, the login is entitled to.
LEMMA AccessIsEntitled ==
    ASSUME RightsOfLogin, NEW path, NEW right, CheckAccess(path, right)
    PROVE  login # NoUser /\ Entitled(login, path, right)
  BY WithinIsPrefix DEF RightsOfLogin, CheckAccess, Entitled

\* A handler that leaves login and rights as they are and acts on nothing
\* keeps the invariant, if what it leaves pending was pending before.
LEMMA HandledKeeps ==
    ASSUME IInv, NEW cmd \in Commands, NEW new,
           Handled(cmd, new), UNCHANGED login,
           DOMAIN new = DOMAIN Fresh,
           new.state \in {"connected", "wait_password", "authenticated"},
           new.username \in Users \cup {NoUser},
           new.state # "connected" => new.username \in Users,
           new.authenticated = session.authenticated,
           new.permissions = session.permissions,
           new.user_home_dir = session.user_home_dir,
           \/ new.restart_offset = 0
           \/ new.restart_offset = session.restart_offset /\ cmd \in {"RETR", "STOR", "REST", "NOOP"},
           \/ new.rename_from = NoPath
           \/ new.rename_from = session.rename_from /\ cmd \in {"RNTO", "NOOP"}
    PROVE  TypeOK' /\ RightsOfLogin' /\ OnlyRefusalsLeavePending'
  <1>1. session' = new /\ login' = login
    BY DEF Handled
  <1>2. since' = [restart |-> IF new.restart_offset = 0 THEN {} ELSE since.restart \cup {cmd},
                  rename |-> IF new.rename_from = NoPath THEN {} ELSE since.rename \cup {cmd}]
    BY DEF Handled
  <1>3. TypeOK'
    BY <1>1, <1>2, MaxOffsetIsNat DEF IInv, TypeOK
  <1>4. RightsOfLogin'
    BY <1>1 DEF IInv, RightsOfLogin
  <1>5. OnlyRefusalsLeavePending'
    BY <1>1, <1>2 DEF IInv, OnlyRefusalsLeavePending, Entitled
  <1>6. QED
    BY <1>3, <1>4, <1>5

\* What the previous handler of a command leaves of the session.
LEMMA ClearedSession ==
    ASSUME TypeOK, NEW cmd \in Commands
    PROVE  /\ DOMAIN Cleared(cmd) = DOMAIN Fresh
           /\ \A field \in DOMAIN Fresh \ {"rename_from", "restart_offset"} :
                 Cleared(cmd)[field] = session[field]
           /\ \/ Cleared(cmd).restart_offset = 0
              \/ /\ Cleared(cmd).restart_offset = session.restart_offset
                 /\ cmd \in {"RETR", "STOR", "REST", "NOOP"}
           /\ \/ Cleared(cmd).rename_from = NoPath
              \/ Cleared(cmd).rename_from = session.rename_from /\ cmd \in {"RNTO", "NOOP"}
  BY DEF TypeOK, Cleared, ClearsRename, ClearsRestart, Fresh

-----------------------------------------------------------------------------
LEMMA InitInv == Init => IInv
  BY NoUserIsNoUser, MaxOffsetIsNat
     DEF Init, IInv, TypeOK, RightsOfLogin, ActsWithinRights, OnlyRefusalsLeavePending,
         Fresh, Nothing

\* Login.
LEMMA UserKeeps == ASSUME IInv, NEW u \in Users, User(u) PROVE IInv'
  <1>1. "USER" \in Commands
    BY DEF Commands
  <1> DEFINE new == [Cleared("USER") EXCEPT !.username = u, !.state = "wait_password"]
  <1>2. /\ DOMAIN new = DOMAIN Fresh /\ new.username = u /\ new.state = "wait_password"
        /\ \A field \in DOMAIN Fresh \ {"username", "state"} : new[field] = Cleared("USER")[field]
    BY <1>1, ClearedSession DEF IInv, Fresh
  <1>3. Handled("USER", new) /\ UNCHANGED login
    BY DEF User
  <1> HIDE DEF new
  <1>4. TypeOK' /\ RightsOfLogin' /\ OnlyRefusalsLeavePending'
    BY <1>1, <1>2, <1>3, ClearedSession, HandledKeeps DEF IInv, Fresh
  <1>5. ActsWithinRights'
    BY DEF User, ActsNot, ActsWithinRights
  <1>6. QED
    BY <1>4, <1>5 DEF IInv

LEMMA PassKeeps == ASSUME IInv, Pass PROVE IInv'
  <1>1. "PASS" \in Commands /\ session.username \in Users
    BY DEF Commands, Pass, IInv, TypeOK
  <1> DEFINE u == session.username
  <1>2. /\ DOMAIN session' = DOMAIN Fresh
        /\ session'.state = "authenticated" /\ session'.authenticated = TRUE
        /\ session'.permissions = PermsOf[u] /\ session'.user_home_dir = HomeOf[u]
        /\ session'.username = u
        /\ session'.restart_offset = 0 /\ session'.rename_from = NoPath
    BY <1>1, ClearedSession DEF Pass, Handled, IInv, Fresh
  <1>3. login' = u /\ acted' = Nothing /\ since' = [restart |-> {}, rename |-> {}]
    BY <1>2 DEF Pass, Handled, ActsNot
  <1>4. PermsOf[u] \in SUBSET Rights /\ u # NoUser
    BY <1>1, PermsOfTyped, NoUserIsNoUser
  <1>5. TypeOK'
    <2>1. session'.authenticated \in BOOLEAN
      BY <1>2
    <2>2. \A pending \in {"restart", "rename"} : since'[pending] \subseteq Commands
      BY <1>3
    <2>3. QED
      BY <1>1, <1>2, <1>3, <1>4, <2>1, <2>2, MaxOffsetIsNat DEF TypeOK
  <1>6. RightsOfLogin' /\ ActsWithinRights' /\ OnlyRefusalsLeavePending'
    BY <1>2, <1>3, <1>4 DEF RightsOfLogin, ActsWithinRights, OnlyRefusalsLeavePending
  <1>7. QED
    BY <1>5, <1>6 DEF IInv

LEMMA ReinKeeps == ASSUME IInv, Rein PROVE IInv'
  <1>1. session' = Fresh /\ login' = NoUser /\ acted' = Nothing
        /\ since' = [restart |-> {}, rename |-> {}]
    BY DEF Rein, Handled, Fresh, ActsNot
  <1>2. QED
    BY <1>1, NoUserIsNoUser, MaxOffsetIsNat
       DEF IInv, TypeOK, RightsOfLogin, ActsWithinRights, OnlyRefusalsLeavePending, Fresh

LEMMA RefusedKeeps == ASSUME IInv, NEW cmd \in Commands, Refused(cmd) PROVE IInv'
  <1>1. Handled(cmd, Cleared(cmd)) /\ UNCHANGED login
    BY DEF Refused
  <1>2. TypeOK' /\ RightsOfLogin' /\ OnlyRefusalsLeavePending'
    BY <1>1, ClearedSession, HandledKeeps DEF IInv, TypeOK, Fresh
  <1>3. ActsWithinRights'
    BY DEF Refused, ActsNot, ActsWithinRights
  <1>4. QED
    BY <1>2, <1>3 DEF IInv

-----------------------------------------------------------------------------
\* Commands on files.  An action on paths the login is entitled to.
LEMMA ActsEntitled ==
    ASSUME NEW cmd \in DOMAIN Needs, NEW paths, NEW offset,
           Acts(cmd, paths, offset), login' = login, login # NoUser,
           \A path \in paths : Entitled(login, path, Needs[cmd])
    PROVE  ActsWithinRights'
  <1>1. acted'.op = cmd /\ acted'.paths = paths
    BY DEF Acts
  <1>2. QED
    BY <1>1 DEF ActsWithinRights, Entitled

LEMMA CwdKeeps == ASSUME IInv, NEW arg, Cwd(arg) PROVE IInv'
  <1>1. "CWD" \in Commands /\ "CWD" \in DOMAIN Needs /\ Needs.CWD = Needs["CWD"]
    BY DEF Commands, Needs
  <1> DEFINE new == [Cleared("CWD") EXCEPT !.current_dir = Resolve(arg)]
  <1>2. /\ DOMAIN new = DOMAIN Fresh
        /\ \A field \in DOMAIN Fresh \ {"current_dir"} : new[field] = Cleared("CWD")[field]
    BY <1>1, ClearedSession DEF IInv, Fresh
  <1>3. Handled("CWD", new) /\ UNCHANGED login
    BY DEF Cwd
  <1> HIDE DEF new
  <1>4. TypeOK' /\ RightsOfLogin' /\ OnlyRefusalsLeavePending'
    BY <1>1, <1>2, <1>3, ClearedSession, HandledKeeps DEF IInv, TypeOK, Fresh
  <1>5. login # NoUser /\ Entitled(login, Resolve(arg), Needs["CWD"])
    BY <1>1, AccessIsEntitled DEF Cwd, IInv
  <1>6. ActsWithinRights'
    <2>1. Acts("CWD", {Resolve(arg)}, 0)
      BY DEF Cwd
    <2>2. QED
      BY <1>1, <1>3, <1>5, <2>1, ActsEntitled
  <1>7. QED
    BY <1>4, <1>6 DEF IInv

LEMMA RestKeeps == ASSUME IInv, NEW offset \in -1 .. MaxOffset, Rest(offset) PROVE IInv'
  <1>1. "REST" \in Commands
    BY DEF Commands
  <1>2. /\ DOMAIN session' = DOMAIN Fresh
        /\ session'.restart_offset = offset
        /\ \A field \in DOMAIN Fresh \ {"restart_offset", "rename_from"} :
              session'[field] = session[field]
        /\ session'.rename_from = NoPath
    BY <1>1, ClearedSession DEF Rest, IInv, Fresh
  <1>3. since' = [restart |-> {}, rename |-> {}] /\ login' = login /\ acted' = Nothing
    BY DEF Rest, ActsNot
  <1>4. TypeOK'
    <2>1. offset \in 0 .. MaxOffset
      BY MaxOffsetIsNat DEF Rest
    <2>2. \A pending \in {"restart", "rename"} : since'[pending] \subseteq Commands
      BY <1>3
    <2>3. QED
      BY <1>2, <1>3, <2>1, <2>2 DEF IInv, TypeOK, Fresh
  <1>5. RightsOfLogin'
    BY <1>2, <1>3 DEF IInv, RightsOfLogin, Fresh
  <1>6. ActsWithinRights'
    BY <1>3 DEF ActsWithinRights
  <1>7. OnlyRefusalsLeavePending'
    BY <1>2, <1>3 DEF IInv, OnlyRefusalsLeavePending, RightsOfLogin, Rest
  <1>8. QED
    BY <1>4, <1>5, <1>6, <1>7 DEF IInv

LEMMA RetrOrStorKeeps ==
    ASSUME IInv, NEW cmd \in {"RETR", "STOR"}, NEW arg, RetrOrStor(cmd, arg)
    PROVE  IInv'
  <1>1. cmd \in Commands /\ cmd \in DOMAIN Needs
    BY DEF Commands, Needs
  <1> DEFINE new == [Cleared(cmd) EXCEPT !.restart_offset = 0]
  <1>2. /\ DOMAIN new = DOMAIN Fresh /\ new.restart_offset = 0
        /\ \A field \in DOMAIN Fresh \ {"restart_offset"} : new[field] = Cleared(cmd)[field]
    BY <1>1, ClearedSession DEF IInv, Fresh
  <1>3. Handled(cmd, new) /\ UNCHANGED login
    BY DEF RetrOrStor
  <1> HIDE DEF new
  <1>4. TypeOK' /\ RightsOfLogin' /\ OnlyRefusalsLeavePending'
    BY <1>1, <1>2, <1>3, ClearedSession, HandledKeeps DEF IInv, TypeOK, Fresh
  <1>5. login # NoUser /\ Entitled(login, Resolve(arg), Needs[cmd])
    BY AccessIsEntitled DEF RetrOrStor, IInv
  <1>6. ActsWithinRights'
    <2>1. CASE ActsNot
      BY <2>1 DEF ActsNot, ActsWithinRights
    <2>2. CASE Acts(cmd, {Resolve(arg)}, session.restart_offset)
      BY <1>1, <1>3, <1>5, <2>2, ActsEntitled
    <2>3. QED
      BY <2>1, <2>2 DEF RetrOrStor
  <1>7. QED
    BY <1>4, <1>6 DEF IInv

LEMMA OnPathKeeps ==
    ASSUME IInv, NEW cmd \in {"APPE", "DELE", "MKD", "RMD", "LIST", "SIZE"}, NEW arg,
           OnPath(cmd, arg)
    PROVE  IInv'
  <1>1. cmd \in Commands /\ cmd \in DOMAIN Needs
    BY DEF Commands, Needs
  <1>2. Handled(cmd, Cleared(cmd)) /\ UNCHANGED login /\ Acts(cmd, {Resolve(arg)}, 0)
    BY DEF OnPath
  <1>3. TypeOK' /\ RightsOfLogin' /\ OnlyRefusalsLeavePending'
    BY <1>1, <1>2, ClearedSession, HandledKeeps DEF IInv, TypeOK, Fresh
  <1>4. login # NoUser /\ Entitled(login, Resolve(arg), Needs[cmd])
    BY AccessIsEntitled DEF OnPath, IInv
  <1>5. ActsWithinRights'
    BY <1>1, <1>2, <1>4, ActsEntitled
  <1>6. QED
    BY <1>3, <1>5 DEF IInv

LEMMA RnfrKeeps == ASSUME IInv, NEW arg, Rnfr(arg) PROVE IInv'
  <1>1. "RNFR" \in Commands /\ Needs.RNFR = "RENAME"
    BY DEF Commands, Needs
  <1>2. /\ DOMAIN session' = DOMAIN Fresh
        /\ session'.rename_from = Resolve(arg)
        /\ \A field \in DOMAIN Fresh \ {"restart_offset", "rename_from"} :
              session'[field] = session[field]
        /\ session'.restart_offset = 0
    BY <1>1, ClearedSession DEF Rnfr, IInv, Fresh
  <1>3. since' = [restart |-> {}, rename |-> {}] /\ login' = login /\ acted' = Nothing
    BY DEF Rnfr, ActsNot
  <1>4. TypeOK'
    <2>1. \A pending \in {"restart", "rename"} : since'[pending] \subseteq Commands
      BY <1>3
    <2>2. QED
      BY <1>2, <1>3, <2>1, MaxOffsetIsNat DEF IInv, TypeOK, Fresh
  <1>5. RightsOfLogin'
    BY <1>2, <1>3 DEF IInv, RightsOfLogin, Fresh
  <1>6. ActsWithinRights'
    BY <1>3 DEF ActsWithinRights
  <1>7. OnlyRefusalsLeavePending'
    <2>1. login # NoUser /\ Entitled(login, Resolve(arg), "RENAME")
      BY <1>1, AccessIsEntitled DEF Rnfr, IInv
    <2>2. QED
      BY <1>2, <1>3, <2>1 DEF OnlyRefusalsLeavePending, Entitled
  <1>8. QED
    BY <1>4, <1>5, <1>6, <1>7 DEF IInv

LEMMA RntoKeeps == ASSUME IInv, NEW arg, Rnto(arg) PROVE IInv'
  <1>1. "RNTO" \in Commands /\ "RNTO" \in DOMAIN Needs /\ Needs["RNTO"] = "RENAME"
    BY DEF Commands, Needs
  <1> DEFINE new == [Cleared("RNTO") EXCEPT !.rename_from = NoPath]
  <1>2. /\ DOMAIN new = DOMAIN Fresh /\ new.rename_from = NoPath
        /\ \A field \in DOMAIN Fresh \ {"rename_from"} : new[field] = Cleared("RNTO")[field]
    BY <1>1, ClearedSession DEF IInv, Fresh
  <1>3. Handled("RNTO", new) /\ UNCHANGED login
    BY DEF Rnto
  <1> HIDE DEF new
  <1>4. TypeOK' /\ RightsOfLogin' /\ OnlyRefusalsLeavePending'
    BY <1>1, <1>2, <1>3, ClearedSession, HandledKeeps DEF IInv, TypeOK, Fresh
  <1>5. login # NoUser /\ Entitled(login, Resolve(arg), Needs["RNTO"])
    BY <1>1, AccessIsEntitled DEF Rnto, IInv
  <1>6. Entitled(login, session.rename_from, Needs["RNTO"])
    BY <1>1 DEF Rnto, IInv, OnlyRefusalsLeavePending
  <1>7. ActsWithinRights'
    <2>1. CASE ActsNot
      BY <2>1 DEF ActsNot, ActsWithinRights
    <2>2. CASE Acts("RNTO", {session.rename_from, Resolve(arg)}, 0)
      BY <1>1, <1>3, <1>5, <1>6, <2>2, ActsEntitled
    <2>3. QED
      BY <2>1, <2>2 DEF Rnto
  <1>8. QED
    BY <1>4, <1>7 DEF IInv

-----------------------------------------------------------------------------
LEMMA StepInv == IInv /\ [Next]_vars => IInv'
  <1> SUFFICES ASSUME IInv, [Next]_vars PROVE IInv'
    OBVIOUS
  <1>1. CASE UNCHANGED vars
    BY <1>1 DEF vars, IInv, TypeOK, RightsOfLogin, ActsWithinRights,
                OnlyRefusalsLeavePending, Entitled
  <1>2. CASE Next
    BY <1>2, UserKeeps, PassKeeps, ReinKeeps, RefusedKeeps, RestKeeps, CwdKeeps, RnfrKeeps,
       RntoKeeps, RetrOrStorKeeps, OnPathKeeps DEF Next
  <1>3. QED
    BY <1>1, <1>2

\* All of it together is inductive: the rights of the login are what the tests
\* look at, and what is pending was tested under the login that is present.
THEOREM Invariance == Spec => []IInv
  BY InitInv, StepInv, PTL DEF Spec

\* The control state of a session is well typed.
THEOREM TypeCorrect == Spec => []TypeOK
  BY Invariance, PTL DEF IInv

\* session_set_user, session_authenticate and session_reset_state never leave
\* the session with rights of two logins.
THEOREM RightsAreOfLogin == Spec => []RightsOfLogin
  BY Invariance, PTL DEF IInv

\* No handler acts on a path that the present login may not act on.
THEOREM ActionsEntitled == Spec => []ActsWithinRights
  BY Invariance, PTL DEF IInv

\* No REST and no RNFR stays pending over another login, or over a command
\* other than those of its own kind.  It is not said, and not so, that a refused
\* RETR or STOR clears the offset, or a refused RNTO the source of the rename
\* (PendingIsGotAndCleared).
THEOREM PendingOutlivesNoLogin == Spec => []OnlyRefusalsLeavePending
  BY Invariance, PTL DEF IInv

=============================================================================
