----------------------------- MODULE AuthProofs -----------------------------
(***************************************************************************)
(* The user table, for any users.db and any number of slots: a look-up     *)
(* finds the first line of a name among those that fit the table; and for  *)
(* any number of client threads: a handler that acts for a session has     *)
(* the rights of the login, whatever auth_cleanup zeroes meanwhile.        *)
(***************************************************************************)
EXTENDS Auth, FiniteSetTheorems, WellFoundedInduction, TLAPS

-----------------------------------------------------------------------------
(* The inductive invariant                                                 *)

MainSteps == {"start", "defaults", "load", "listen", "run", "cleanup", "auth_cleanup",
              "zeroing", "exit", "exited"}
Before    == {"start", "defaults", "load", "listen"}
Loaded    == {"listen", "run", "cleanup", "auth_cleanup"}

Steps == {"none", "loop", "receive", "dispatch", "call", "USER", "PASS", "ACT",
          "verify", "get", "find", "permissions", "home", "left", "crashed"}
Ops   == {"none", "USER", "PASS", "ACT"}
Args  == Names \cup Passwords \cup {Nothing}

Entries == [in_use : BOOLEAN, username : Texts, password_hash : Texts,
            home_dir : Texts, permissions : PermissionSets]

Types ==
    /\ main \in MainSteps /\ file \in Seq(Lines) /\ line_num \in Nat
    /\ g_initialized \in BOOLEAN /\ g_anonymous_enabled \in BOOLEAN /\ lock \in BOOLEAN
    /\ g_handlers \in BOOLEAN /\ g_server_running \in BOOLEAN
    /\ g_users \in [Slots -> Entries] /\ g_virtual_anonymous \in Rights
    /\ pc \in [Clients -> Steps] /\ cmd \in [Clients -> [op : Ops, arg : Args]]
    /\ username \in [Clients -> Names \cup {Nothing}]
    /\ waiting \in [Clients -> BOOLEAN] /\ authenticated \in [Clients -> BOOLEAN]
    /\ user \in [Clients -> Slots \cup {NULL, Virtual}]
    /\ rights \in [Clients -> Rights]
    /\ login \in [Clients -> [name : Names \cup {Nothing}, password : Args]]
    /\ \A c \in Clients : /\ cmd[c].op = "USER" => cmd[c].arg \in Names
                          /\ pc[c] = "USER" => cmd[c].op = "USER"
                          /\ pc[c] \in {"permissions", "home"} => user[c] # NULL

\* What the main thread has done when it is where it is.
Phases ==
    /\ g_server_running <=> main = "run"
    /\ main \in Before => \A c \in Clients : pc[c] = "none"
    /\ main \notin {"start", "defaults"} => g_virtual_anonymous = Defaults
    /\ g_anonymous_enabled = TRUE
    /\ lock => main \notin Before \cup Loaded

\* What a line makes of its slot.
Row(line) == [in_use |-> TRUE, username |-> line.username, password_hash |-> line.password_hash,
              home_dir |-> line.home_dir, permissions |-> line.permissions]

\* The lines read so far that parse fill the table from its first slot on, in
\* their order.
Filled ==
    /\ line_num \in 0 .. Len(file) /\ Rank(line_num) <= MaxUsers
    /\ \A s \in Slots : g_users[s].in_use <=> s <= Rank(line_num)
    /\ \A i \in 1 .. line_num : Parses(file[i]) => /\ Rank(i) \in 1 .. Rank(line_num)
                                                  /\ g_users[Rank(i)] = Row(file[i])
    /\ \A s \in 1 .. Rank(line_num) : \E i \in 1 .. line_num : Parses(file[i]) /\ Rank(i) = s

Table ==
    /\ main = "start" => line_num = 0
    /\ main = "defaults" => line_num = 0 /\ \A s \in Slots : ~ g_users[s].in_use
    /\ main \in {"load"} \cup Loaded => Filled
    /\ main \in Loaded => line_num = Len(file) \/ Rank(line_num) = MaxUsers

\* The password was that of the account of that name.
Admitted(name, password) ==
    \/ name = Anonymous
    \/ /\ Stored(name) # {}
       /\ file[Min(Stored(name))].password_hash = Hash[password]

\* The session has the rights of its last login.
AsLoggedIn(c) == /\ rights[c] = Given(login[c].name)
                 /\ Admitted(login[c].name, login[c].password)

\* Where a thread is that found the server running since it last had a login.
Trusted == {"receive", "dispatch", "call", "USER", "PASS", "ACT", "verify", "get", "find"}

\* What a login knows, while the server runs, at each of its steps.  Once the
\* server stops, a login may get anything, but then its thread leaves.
Session(c) ==
    /\ pc[c] = "none" => ~ authenticated[c]
    /\ pc[c] \in {"dispatch", "call"} => cmd[c].op # "none"
    /\ authenticated[c] /\ pc[c] \in Trusted => AsLoggedIn(c)
    /\ main = "run" =>
          /\ authenticated[c] /\ pc[c] = "loop" => AsLoggedIn(c)
          /\ pc[c] \in {"get", "find", "permissions", "home"}
                => Admitted(username[c], cmd[c].arg)
          /\ pc[c] \in {"permissions", "home"}
                => user[c] # NULL /\ RightsAt(g_users, user[c]) = Given(username[c])
          /\ pc[c] = "home" => rights[c].permissions = Given(username[c]).permissions

Sessions == \A c \in Clients : Session(c)

IInv == Types /\ Phases /\ Table /\ Sessions

-----------------------------------------------------------------------------
(* Counting the lines that parse                                           *)

ParsedTo(n) == {i \in 1 .. n : Parses(file[i])}

LEMMA ParsedFinite ==
    ASSUME NEW n \in Nat
    PROVE  IsFiniteSet(ParsedTo(n)) /\ Cardinality(ParsedTo(n)) \in Nat
                                    /\ Rank(n) = Cardinality(ParsedTo(n))
<1>1. IsFiniteSet(1 .. n)
  BY FS_Interval
<1>2. ParsedTo(n) \subseteq 1 .. n
  BY DEF ParsedTo
<1>3. IsFiniteSet(ParsedTo(n))
  BY <1>1, <1>2, FS_Subset
<1> QED
  BY <1>3, FS_CardinalityType DEF ParsedTo, Rank

LEMMA RankNat == ASSUME NEW n \in Nat PROVE Rank(n) \in Nat
  BY ParsedFinite

LEMMA RankZero == Rank(0) = 0
<1>1. ParsedTo(0) = {}
  BY DEF ParsedTo
<1> QED
  BY <1>1, ParsedFinite, FS_EmptySet

\* One more line.
LEMMA RankNext ==
    ASSUME NEW n \in Nat
    PROVE  Rank(n + 1) = IF Parses(file[n + 1]) THEN Rank(n) + 1 ELSE Rank(n)
<1>1. CASE Parses(file[n + 1])
  <2>1. ParsedTo(n + 1) = ParsedTo(n) \cup {n + 1}
    BY <1>1 DEF ParsedTo
  <2>2. n + 1 \notin ParsedTo(n)
    BY DEF ParsedTo
  <2> QED
    BY <1>1, <2>1, <2>2, ParsedFinite, FS_AddElement
<1>2. CASE ~ Parses(file[n + 1])
  <2>1. ParsedTo(n + 1) = ParsedTo(n)
    BY <1>2 DEF ParsedTo
  <2> QED
    BY <1>2, <2>1, ParsedFinite
<1> QED
  BY <1>1, <1>2

LEMMA RankGrows ==
    ASSUME NEW m \in Nat, NEW n \in Nat, m <= n
    PROVE  Rank(m) <= Rank(n)
<1>1. ParsedTo(m) \subseteq ParsedTo(n)
  BY DEF ParsedTo
<1> QED
  BY <1>1, ParsedFinite, FS_Subset

\* Lines that parse have ranks of their own.
LEMMA RankOrders ==
    ASSUME NEW m \in Nat, NEW n \in Nat, m < n, Parses(file[n])
    PROVE  Rank(m) < Rank(n)
<1>1. n - 1 \in Nat /\ m <= n - 1 /\ (n - 1) + 1 = n
  OBVIOUS
<1>2. Rank(n) = Rank(n - 1) + 1
  BY <1>1, RankNext
<1>3. Rank(m) <= Rank(n - 1)
  BY <1>1, RankGrows
<1> QED
  BY <1>1, <1>2, <1>3, RankNat

-----------------------------------------------------------------------------
(* What steps have in common                                               *)

LEMMA Kinds ==
    /\ Slots \subseteq Nat /\ NULL \notin Slots /\ Virtual \notin Slots /\ Virtual # NULL
    /\ Zero \in Entries /\ NoCmd \in [op : Ops, arg : Args]
    /\ [home_dir |-> Nothing, permissions |-> {}] \in Rights
<1>1. /\ Slots \subseteq Nat /\ NULL \notin Slots /\ Virtual \notin Slots /\ Virtual # NULL
  BY MaxUsersIsPositive DEF Slots, NULL, Virtual
<1>2. {} \in PermissionSets
  BY DEF PermissionSets
<1>5. Nothing \in Texts
  BY DEF Texts
<1>3. Zero \in Entries /\ [home_dir |-> Nothing, permissions |-> {}] \in Rights
  BY <1>2, <1>5 DEF Zero, Entries, Rights
<1>4. NoCmd \in [op : Ops, arg : Args]
  BY DEF NoCmd, Ops, Args
<1> QED
  BY <1>1, <1>3, <1>4

LEMMA CommandKinds ==
    ASSUME NEW command \in Commands
    PROVE  /\ command \in [op : Ops, arg : Args]
           /\ command.op = "USER" => command.arg \in Names
  BY DEF Commands, Ops, Args

\* A set of numbers that is not empty has a least one.
LEMMA MinOf ==
    ASSUME NEW S \in SUBSET Nat, S # {}
    PROVE  Min(S) \in S /\ \A n \in S : Min(S) <= n
<1> DEFINE Below == {p \in Nat \X Nat : p[1] < p[2]}
<1>1. IsWellFoundedOn(Below, Nat)
  <2>1. Below = OpToRel(<, Nat)
    BY Zenon DEF OpToRel
  <2> QED
    BY <2>1, NatLessThanWellFounded, Zenon
<1> HIDE DEF Below
<1>2. PICK m \in S : \A n \in S : ~ (<<n, m>> \in Below)
  BY <1>1, WFMin, Zenon
<1>3. \A n \in S : <<n, m>> \in Below <=> n < m
  BY DEF Below
<1>4. \A n \in S : m <= n
  <2>1. \A n \in S : m \in Nat /\ n \in Nat /\ ~ (n < m)
    BY <1>2, <1>3
  <2> QED
    BY <2>1
<1> QED
  BY <1>4 DEF Min

LEMMA FindKind ==
    ASSUME NEW users, NEW name
    PROVE  Find(users, name) \in Slots \cup {NULL}
<1> DEFINE found == {s \in Slots : users[s].in_use /\ users[s].username = name}
<1>1. CASE found = {}
  BY <1>1 DEF Find
<1>2. CASE found # {}
  BY <1>2, MinOf, Kinds DEF Find
<1> QED
  BY <1>1, <1>2

LEMMA PointerKind ==
    ASSUME NEW name
    PROVE  Pointer(g_users, name) \in Slots \cup {NULL, Virtual}
  BY FindKind DEF Pointer

LEMMA RightsAtKind ==
    ASSUME Types, NEW u \in Slots \cup {Virtual}
    PROVE  RightsAt(g_users, u) \in Rights
<1>1. CASE u = Virtual
  BY <1>1 DEF RightsAt, Types
<1>2. CASE u \in Slots
  <2>1. g_users[u] \in Entries /\ u # Virtual
    BY <1>2, Kinds DEF Types
  <2> QED
    BY <2>1 DEF RightsAt, Entries, Rights
<1> QED
  BY <1>1, <1>2

LEMMA LineKind ==
    ASSUME Types, NEW i \in 1 .. Len(file)
    PROVE  file[i] \in Lines
  BY DEF Types

LEMMA AddLineKind ==
    ASSUME NEW users \in [Slots -> Entries], NEW line \in Lines
    PROVE  AddLine(users, line) \in [Slots -> Entries]
  BY DEF AddLine, Entries, Lines, Texts

-----------------------------------------------------------------------------
(* Types                                                                   *)

LEMMA TypesInit == Init => Types
<1> SUFFICES ASSUME Init PROVE Types
  OBVIOUS
<1>1. file \in Seq(Lines)
  BY FilesHaveLines DEF Init
<1>2. g_virtual_anonymous \in Rights
  BY DEF Init, BuiltIn, Rights, Texts, PermissionSets
<1>3. login \in [Clients -> [name : Names \cup {Nothing}, password : Args]]
  BY DEF Init, NoLogin, Args
<1>4. \A c \in Clients : cmd[c].op # "USER" /\ pc[c] = "none"
  BY DEF Init, NoCmd
<1> QED
  BY <1>1, <1>2, <1>3, <1>4, Kinds DEF Init, Types, MainSteps, Steps

LEMMA TypesMain ==
    ASSUME Types, MainThread
    PROVE  Types'
<1> USE DEF Types, Main, MainSteps, tableVars, fileVars, serverVars, clientVars, sessionVars,
            nameVars, loginVars
<1>1. CASE AuthInit
  BY <1>1, Kinds DEF AuthInit
<1>2. CASE SetAnonymous
  BY <1>2, DefaultsAreRights DEF SetAnonymous
<1>3. CASE LoadLine
  <2>1. line_num + 1 \in 1 .. Len(file)
    BY <1>3 DEF LoadLine
  <2>2. g_users' \in [Slots -> Entries]
    BY <1>3, <2>1, LineKind, AddLineKind DEF LoadLine
  <2> QED
    BY <1>3, <2>2 DEF LoadLine
<1>4. CASE LoadEnds
  BY <1>4 DEF LoadEnds
<1>5. CASE Listen
  BY <1>5 DEF Listen
<1>6. CASE ListenFails
  BY <1>6, Kinds DEF ListenFails
<1>7. CASE Stop
  BY <1>7 DEF Stop
<1>8. CASE CmdCleanup
  BY <1>8 DEF CmdCleanup
<1>9. CASE LockTable
  <2>1. ASSUME NEW s \in Slots
        PROVE  [Zero EXCEPT !.home_dir = g_users[s].home_dir,
                            !.permissions = g_users[s].permissions] \in Entries
    BY Kinds DEF Entries, Zero
  <2> QED
    BY <1>9, <2>1 DEF LockTable
<1>10. CASE UnlockTable
  BY <1>10 DEF UnlockTable
<1>11. CASE Exit
  BY <1>11 DEF Exit
<1>12. ASSUME NEW s \in Slots, ZeroHome(s) PROVE Types'
  <2>1. Nothing \in Texts
    BY DEF Texts
  <2>2. [g_users[s] EXCEPT !.home_dir = Nothing] \in Entries
    <3>1. g_users[s] \in Entries
      OBVIOUS
    <3> QED
      BY <2>1, <3>1 DEF Entries
  <2>3. g_users' \in [Slots -> Entries]
    BY <1>12, <2>2 DEF ZeroHome
  <2> QED
    BY <1>12, <2>3 DEF ZeroHome
<1>13. ASSUME NEW s \in Slots, ZeroPermissions(s) PROVE Types'
  <2>1. {} \in PermissionSets
    BY DEF PermissionSets
  <2>2. [g_users[s] EXCEPT !.permissions = {}] \in Entries
    <3>1. g_users[s] \in Entries
      OBVIOUS
    <3> QED
      BY <2>1, <3>1 DEF Entries
  <2>3. g_users' \in [Slots -> Entries]
    BY <1>13, <2>2 DEF ZeroPermissions
  <2> QED
    BY <1>13, <2>3 DEF ZeroPermissions
<1> QED
  BY <1>1, <1>2, <1>3, <1>4, <1>5, <1>6, <1>7, <1>8, <1>9, <1>10, <1>11, <1>12, <1>13
     DEF MainThread

\* What a step of a client thread may do to its place and its command.
LEMMA GoesKind ==
    ASSUME Types, NEW c \in Clients, NEW from, NEW to \in Steps, Goes(c, from, to)
    PROVE  pc' \in [Clients -> Steps] /\ pc' = [pc EXCEPT ![c] = to]
  BY DEF Types, Goes

LEMMA GoesIfKind ==
    ASSUME Types, NEW c \in Clients, NEW from, NEW test, NEW to \in Steps \ {"USER"},
           GoesIf(c, from, test, to)
    PROVE  /\ pc' \in [Clients -> Steps] /\ cmd' \in [Clients -> [op : Ops, arg : Args]]
           /\ \A d \in Clients : /\ cmd'[d].op = "USER" => cmd'[d].arg \in Names
                                 /\ pc'[d] = "USER" => cmd'[d].op = "USER"
           /\ pc' = [pc EXCEPT ![c] = IF test THEN to ELSE "loop"]
<1>1. (IF test THEN to ELSE "loop") \in Steps \ {"USER"}
  BY DEF Steps
<1>2. pc' \in [Clients -> Steps] /\ pc' = [pc EXCEPT ![c] = IF test THEN to ELSE "loop"]
  BY <1>1, GoesKind DEF GoesIf
<1>3. cmd' \in [Clients -> [op : Ops, arg : Args]]
  BY Kinds DEF GoesIf, Types
<1>4. \A d \in Clients : cmd'[d].op = "USER" => cmd'[d].arg \in Names
  BY Kinds DEF GoesIf, Types, NoCmd
<1>5. \A d \in Clients : pc'[d] = "USER" => cmd'[d].op = "USER"
  BY <1>1, <1>2 DEF GoesIf, Types
<1> QED
  BY <1>2, <1>3, <1>4, <1>5

LEMMA TypesClient ==
    ASSUME Types, NEW c \in Clients, Client(c)
    PROVE  Types'
<1> USE DEF ServerUnchanged, tableVars, fileVars, serverVars, sessionVars, nameVars, loginVars
<1>1. CASE Connect(c) \/ LoopTest(c) \/ Call(c)
  <2>1. cmd[c].op \in Steps /\ (IF g_handlers THEN cmd[c].op ELSE "crashed") \in Steps
           /\ (IF g_server_running THEN "receive" ELSE "left") \in Steps /\ "loop" \in Steps
    BY DEF Types, Ops, Steps
  <2>2. pc' \in [Clients -> Steps] /\ \A d \in Clients :
           /\ pc'[d] = "USER" => cmd'[d].op = "USER"
           /\ pc'[d] \in {"permissions", "home"} => user'[d] # NULL
    BY <1>1, <2>1, GoesKind DEF Connect, LoopTest, Call, Types, Ops
  <2> QED
    BY <1>1, <2>2 DEF Connect, LoopTest, Call, Types
<1>2. CASE Receive(c)
  <2>1. CASE UNCHANGED cmd /\ Goes(c, "receive", "left")
    <3>1. pc' \in [Clients -> Steps] /\ pc' = [pc EXCEPT ![c] = "left"]
      BY <2>1, GoesKind DEF Steps
    <3> QED
      BY <1>2, <2>1, <3>1 DEF Receive, Types
  <2>2. ASSUME NEW command \in Commands, Goes(c, "receive", "dispatch"),
               cmd' = [cmd EXCEPT ![c] = command]
        PROVE  Types'
    <3>1. pc' \in [Clients -> Steps] /\ pc' = [pc EXCEPT ![c] = "dispatch"]
      BY <2>2, GoesKind DEF Steps
    <3>2. cmd' \in [Clients -> [op : Ops, arg : Args]]
            /\ \A d \in Clients : cmd'[d].op = "USER" => cmd'[d].arg \in Names
      BY <2>2, CommandKinds DEF Types
    <3>3. \A d \in Clients : /\ pc'[d] = "USER" => cmd'[d].op = "USER"
                             /\ pc'[d] \in {"permissions", "home"} => user'[d] # NULL
      BY <1>2, <2>2, <3>1 DEF Receive, Types
    <3> QED
      BY <1>2, <3>1, <3>2, <3>3 DEF Receive, Types
  <2> QED
    BY <1>2, <2>1, <2>2 DEF Receive
<1>3. CASE Lookup(c) \/ Pass(c) \/ Verify(c) \/ GetTest(c)
  <2>1. {"call", "verify", "get", "find"} \subseteq Steps \ {"USER"}
    BY DEF Steps
  <2>2. /\ pc' \in [Clients -> Steps] /\ cmd' \in [Clients -> [op : Ops, arg : Args]]
        /\ \A d \in Clients : /\ cmd'[d].op = "USER" => cmd'[d].arg \in Names
                              /\ pc'[d] = "USER" => cmd'[d].op = "USER"
        /\ \E to \in Steps \ {"permissions", "home"} : pc' = [pc EXCEPT ![c] = to]
    <3>1. CASE Lookup(c)
      BY <3>1, <2>1, GoesIfKind DEF Lookup, Steps
    <3>2. CASE Pass(c)
      BY <3>2, <2>1, GoesIfKind DEF Pass, Steps
    <3>3. CASE Verify(c)
      BY <3>3, <2>1, GoesIfKind DEF Verify, Steps
    <3>4. CASE GetTest(c)
      BY <3>4, <2>1, GoesIfKind DEF GetTest, Steps
    <3> QED
      BY <1>3, <3>1, <3>2, <3>3, <3>4
  <2>3. \A d \in Clients : pc'[d] \in {"permissions", "home"} => user'[d] # NULL
    BY <1>3, <2>2 DEF Lookup, Pass, Verify, GetTest, Types
  <2> QED
    BY <1>3, <2>2, <2>3 DEF Lookup, Pass, Verify, GetTest, Types
<1>4. CASE GetUser(c)
  <2>1. user' \in [Clients -> Slots \cup {NULL, Virtual}]
    BY <1>4, PointerKind DEF GetUser, Types
  <2>2. /\ pc' \in [Clients -> Steps] /\ cmd' \in [Clients -> [op : Ops, arg : Args]]
        /\ \A d \in Clients : /\ cmd'[d].op = "USER" => cmd'[d].arg \in Names
                              /\ pc'[d] = "USER" => cmd'[d].op = "USER"
        /\ pc' = [pc EXCEPT ![c] = IF user'[c] # NULL THEN "permissions" ELSE "loop"]
    BY <1>4, GoesIfKind DEF GetUser, Steps
  <2>3. \A d \in Clients : pc'[d] \in {"permissions", "home"} => user'[d] # NULL
    BY <1>4, <2>2 DEF GetUser, Types
  <2> QED
    BY <1>4, <2>1, <2>2, <2>3 DEF GetUser, Types
<1>5. CASE ReadPermissions(c)
  <2>1. pc' \in [Clients -> Steps] /\ pc' = [pc EXCEPT ![c] = "home"] /\ pc[c] = "permissions"
    BY <1>5, GoesKind DEF ReadPermissions, Goes, Steps
  <2>2. RightsAt(g_users, user[c]) \in Rights
    BY <2>1, RightsAtKind DEF Types
  <2>3. rights' \in [Clients -> Rights]
    BY <1>5, <2>2 DEF ReadPermissions, Types, Rights
  <2> QED
    BY <1>5, <2>1, <2>3 DEF ReadPermissions, Types
<1>6. CASE User(c) \/ ReadHome(c) \/ Act(c)
  <2>1. pc' \in [Clients -> Steps] /\ pc' = [pc EXCEPT ![c] = "loop"]
    BY <1>6, GoesKind DEF User, ReadHome, Act, Steps
  <2>2. cmd' \in [Clients -> [op : Ops, arg : Args]]
          /\ \A d \in Clients : cmd'[d].op = "USER" => cmd'[d].arg \in Names
    <3>1. cmd' = [cmd EXCEPT ![c] = NoCmd]
      BY <1>6 DEF User, ReadHome, Act, Done
    <3>2. NoCmd.op # "USER"
      BY DEF NoCmd
    <3> QED
      BY <3>1, <3>2, Kinds DEF Types
  <2>3. username' \in [Clients -> Names \cup {Nothing}] /\ waiting' \in [Clients -> BOOLEAN]
          /\ authenticated' \in [Clients -> BOOLEAN]
    BY <1>6 DEF User, ReadHome, Act, Goes, Types
  <2>4. user' \in [Clients -> Slots \cup {NULL, Virtual}]
          /\ \A d \in Clients : pc'[d] \in {"permissions", "home"} => user'[d] # NULL
    BY <1>6, <2>1 DEF User, ReadHome, Act, Types
  <2>5. \A d \in Clients : pc'[d] = "USER" => cmd'[d].op = "USER"
    BY <1>6, <2>1 DEF User, ReadHome, Act, Done, Types
  <2>6. rights' \in [Clients -> Rights]
    <3>1. CASE ReadHome(c)
      <4>1. RightsAt(g_users, user[c]) \in Rights
        BY <3>1, RightsAtKind DEF ReadHome, Goes, Types
      <4>2. PICK home \in Texts : rights' = [rights EXCEPT ![c].home_dir = home]
        BY <3>1, <4>1 DEF ReadHome, Rights, Texts
      <4> QED
        BY <4>2 DEF Types, Rights
    <3> QED
      BY <1>6, <3>1 DEF User, Act, Types
  <2>7. login' \in [Clients -> [name : Names \cup {Nothing}, password : Args]]
    BY <1>6 DEF User, ReadHome, Act, Types
  <2> QED
    BY <1>6, <2>1, <2>2, <2>3, <2>4, <2>5, <2>6, <2>7 DEF User, ReadHome, Act, Types
<1> QED
  BY <1>1, <1>2, <1>3, <1>4, <1>5, <1>6 DEF Client

LEMMA TypesKept == Types /\ [Next]_vars => Types'
<1>1. CASE UNCHANGED vars
  BY <1>1 DEF vars, Types, tableVars, fileVars, serverVars, clientVars, sessionVars, nameVars,
              loginVars
<1> QED
  BY <1>1, TypesMain, TypesClient DEF Next

\* The table, the sessions and the process have their types, and no pointer
\* that is read through is NULL (auth.c:24-35, session.c:206-232).
THEOREM TypeCorrect == Spec => []TypeOK
<1>1. Types => TypeOK
  <2> SUFFICES ASSUME Types PROVE TypeOK
    OBVIOUS
  <2>1. \A s \in Slots : g_users[s] \in Entries
    BY DEF Types
  <2>2. \A s \in Slots : DOMAIN g_users[s] = DOMAIN Zero /\ g_users[s].in_use \in BOOLEAN
                            /\ g_users[s].permissions \in PermissionSets
    BY <2>1 DEF Entries, Zero
  <2>3. \A c \in Clients : rights[c].permissions \in PermissionSets
    BY DEF Types, Rights
  <2> QED
    BY <2>2, <2>3 DEF Types, TypeOK, MainSteps, Steps, Ops, Rights
<1> QED
  BY <1>1, TypesInit, TypesKept, PTL DEF Spec

-----------------------------------------------------------------------------
(* Loading the table                                                       *)

LEMMA SameRank ==
    ASSUME file' = file
    PROVE  \A n : Rank(n)' = Rank(n) /\ Parses(file[n])' = Parses(file[n])
  BY DEF Rank, Parses

LEMMA SameFilled ==
    ASSUME file' = file, line_num' = line_num, g_users' = g_users
    PROVE  Filled' = Filled
<1>1. Rank(line_num)' = Rank(line_num)
  BY DEF Rank, Parses
<1>2. \A n : Rank(n)' = Rank(n) /\ Parses(file[n])' = Parses(file[n])
  BY SameRank
<1> QED
  BY <1>1, <1>2 DEF Filled

\* The free slot is the one after those that the lines read so far fill.
LEMMA FreeSlot ==
    ASSUME Types, Filled
    PROVE  Free(g_users) = IF Rank(line_num) < MaxUsers THEN {Rank(line_num) + 1} ELSE {}
<1> DEFINE n == Rank(line_num)
<1>1. n \in Nat /\ n <= MaxUsers /\ MaxUsers \in Nat
  BY RankNat, MaxUsersIsPositive DEF Types, Filled
<1>2. \A s \in Slots : g_users[s].in_use <=> s <= n
  BY DEF Filled
<1> HIDE DEF n
<1>3. CASE n < MaxUsers
  <2>1. n + 1 \in Slots /\ \A t \in Slots : t < n + 1 <=> t <= n
    BY <1>1, <1>3 DEF Slots
  <2>2. n + 1 \in Free(g_users)
    BY <1>1, <1>2, <2>1 DEF Free
  <2>3. ASSUME NEW s \in Free(g_users) PROVE s = n + 1
    <3>1. s \in Slots /\ ~ (s <= n) /\ ~ (n + 1 < s)
      BY <1>1, <1>2, <2>1 DEF Free
    <3> QED
      BY <1>1, <3>1 DEF Slots
  <2> QED
    BY <1>3, <2>2, <2>3 DEF n
<1>4. CASE ~ (n < MaxUsers)
  <2>1. \A s \in Slots : s <= n
    BY <1>1, <1>4 DEF Slots
  <2> QED
    BY <1>2, <1>4, <2>1 DEF Free, n
<1> QED
  BY <1>3, <1>4

\* A line goes to the slot of its rank.
LEMMA LineStored ==
    ASSUME Types, Filled, LoadLine
    PROVE  Filled'
<1> DEFINE k == line_num
           n == Rank(k)
           line == file[k + 1]
<1>1. k \in Nat /\ k + 1 \in 1 .. Len(file) /\ n \in Nat /\ n < MaxUsers /\ MaxUsers \in Nat
  <2>1. k \in Nat /\ Len(file) \in Nat /\ k < Len(file) /\ Free(g_users) # {}
    BY DEF LoadLine, Types
  <2>2. n \in Nat /\ MaxUsers \in Nat
    BY <2>1, RankNat, MaxUsersIsPositive
  <2>3. n < MaxUsers
    BY <2>1, FreeSlot
  <2> QED
    BY <2>1, <2>2, <2>3
<1>2. Free(g_users) = {n + 1} /\ n + 1 \in Slots
  BY <1>1, FreeSlot DEF Slots
<1>3. file' = file /\ line_num' = k + 1 /\ g_users' = AddLine(g_users, line)
  BY DEF LoadLine
<1>4. \A i : Rank(i)' = Rank(i) /\ Parses(file[i])' = Parses(file[i])
  BY <1>3, SameRank
<1>5. Rank(line_num)' = Rank(k + 1)
  BY <1>3 DEF Rank, Parses
<1>6. Rank(k + 1) = IF Parses(line) THEN n + 1 ELSE n
  BY <1>1, RankNext
<1>7. Rank(k + 1) \in Nat /\ Rank(k + 1) <= MaxUsers
  BY <1>1, <1>6
<1>8. \A s \in Slots : g_users'[s] = IF Parses(line) /\ s = n + 1 THEN Row(line) ELSE g_users[s]
  BY <1>2, <1>3 DEF AddLine, Row
<1>9. \A s \in Slots : s \in Nat /\ (g_users[s].in_use <=> s <= n)
  BY Kinds DEF Filled
<1>10. \A i \in 1 .. k : Parses(file[i]) => Rank(i) \in 1 .. n /\ g_users[Rank(i)] = Row(file[i])
  BY DEF Filled
<1>11. \A s \in 1 .. n : \E i \in 1 .. k : Parses(file[i]) /\ Rank(i) = s
  BY DEF Filled
<1> HIDE DEF k, n, line
<1>12. \A s \in Slots : g_users'[s].in_use <=> s <= Rank(k + 1)
  <2> SUFFICES ASSUME NEW s \in Slots
               PROVE  g_users'[s].in_use <=> s <= Rank(k + 1)
    OBVIOUS
  <2>1. CASE Parses(line) /\ s = n + 1
    BY <1>1, <1>6, <1>8, <2>1 DEF Row
  <2>2. CASE ~ (Parses(line) /\ s = n + 1)
    BY <1>1, <1>6, <1>8, <1>9, <2>2
  <2> QED
    BY <2>1, <2>2
<1>13. ASSUME NEW i \in 1 .. k + 1, Parses(file[i])
       PROVE  Rank(i) \in 1 .. Rank(k + 1) /\ g_users'[Rank(i)] = Row(file[i])
  <2>1. CASE i = k + 1
    BY <1>1, <1>2, <1>6, <1>8, <1>13, <2>1 DEF line
  <2>2. CASE i # k + 1
    <3>1. i \in 1 .. k
      BY <1>1, <2>2
    <3>2. Rank(i) \in 1 .. n /\ g_users[Rank(i)] = Row(file[i])
      BY <1>10, <1>13, <3>1
    <3>3. Rank(i) \in Slots /\ Rank(i) # n + 1 /\ Rank(i) \in 1 .. Rank(k + 1)
      BY <1>1, <1>6, <3>2 DEF Slots
    <3> QED
      BY <1>8, <3>2, <3>3
  <2> QED
    BY <2>1, <2>2
<1>14. ASSUME NEW s \in 1 .. Rank(k + 1)
       PROVE  \E i \in 1 .. k + 1 : Parses(file[i]) /\ Rank(i) = s
  <2>1. CASE s \in 1 .. n
    BY <1>1, <1>11, <2>1
  <2>2. CASE s \notin 1 .. n
    <3>1. Parses(line) /\ s = n + 1
      BY <1>1, <1>6, <2>2
    <3> QED
      BY <1>1, <1>6, <3>1 DEF line
  <2> QED
    BY <2>1, <2>2
<1>15. k + 1 \in 0 .. Len(file)
  BY <1>1
<1> QED
  BY <1>3, <1>4, <1>5, <1>7, <1>12, <1>13, <1>14, <1>15 DEF Filled

LEMMA PhasesInit == Init => Phases
  BY DEF Init, Phases, Before, Loaded

LEMMA PhasesMain ==
    ASSUME Phases, MainThread
    PROVE  Phases'
<1> USE DEF Main, Phases, Before, Loaded, tableVars, fileVars, serverVars, clientVars
<1>1. CASE AuthInit
  BY <1>1 DEF AuthInit
<1>2. CASE SetAnonymous
  BY <1>2 DEF SetAnonymous
<1>3. CASE LoadLine
  BY <1>3 DEF LoadLine
<1>4. CASE LoadEnds
  BY <1>4 DEF LoadEnds
<1>5. CASE Listen
  BY <1>5 DEF Listen
<1>6. CASE ListenFails
  BY <1>6 DEF ListenFails
<1>7. CASE Stop
  BY <1>7 DEF Stop
<1>8. CASE CmdCleanup
  BY <1>8 DEF CmdCleanup
<1>9. CASE LockTable
  BY <1>9 DEF LockTable
<1>10. CASE UnlockTable
  BY <1>10 DEF UnlockTable
<1>11. CASE Exit
  BY <1>11 DEF Exit
<1>12. ASSUME NEW s \in Slots, ZeroHome(s) \/ ZeroPermissions(s)
       PROVE  Phases'
  <2>1. UNCHANGED <<main, g_server_running, g_anonymous_enabled, g_virtual_anonymous, lock, pc>>
    BY <1>12 DEF ZeroHome, ZeroPermissions
  <2> QED
    BY <2>1
<1> QED
  BY <1>1, <1>2, <1>3, <1>4, <1>5, <1>6, <1>7, <1>8, <1>9, <1>10, <1>11, <1>12 DEF MainThread

LEMMA PhasesClient ==
    ASSUME Types, Phases, NEW c \in Clients, Client(c)
    PROVE  Phases'
<1>1. ServerUnchanged
  BY DEF Client, Connect, LoopTest, Receive, Lookup, Call, User, Pass, Verify, GetTest, GetUser,
         ReadPermissions, ReadHome, Act
<1>2. main \notin Before
  <2>1. CASE Connect(c)
    BY <2>1 DEF Connect, Before
  <2>2. CASE ~ Connect(c)
    BY <2>2 DEF Client, LoopTest, Receive, Lookup, Call, User, Pass, Verify, GetTest, GetUser,
                ReadPermissions, ReadHome, Act, GoesIf, Goes, Phases
  <2> QED
    BY <2>1, <2>2
<1> QED
  BY <1>1, <1>2 DEF Phases, ServerUnchanged, tableVars, serverVars

LEMMA TableInit == Init => Table
  BY DEF Init, Table, Loaded

LEMMA TableMain ==
    ASSUME Types, Table, MainThread
    PROVE  Table'
<1> USE DEF Table, Loaded, Main, tableVars, fileVars
<1>1. CASE AuthInit
  BY <1>1 DEF AuthInit, Zero
<1>2. CASE SetAnonymous
  <2>1. line_num' = 0 /\ main' = "load" /\ \A s \in Slots : ~ g_users'[s].in_use
    BY <1>2 DEF SetAnonymous
  <2>2. Rank(line_num)' = 0
    <3>1. Rank(0)' = 0
      BY RankZero DEF Rank, Parses
    <3> QED
      BY <2>1, <3>1 DEF Rank
  <2>3. Len(file') \in Nat
    BY <1>2 DEF SetAnonymous, Types
  <2>4. Filled'
    BY <2>1, <2>2, <2>3, MaxUsersIsPositive DEF Filled, Slots
  <2> QED
    BY <2>1, <2>4
<1>3. CASE LoadLine
  BY <1>3, LineStored DEF LoadLine
<1>4. CASE LoadEnds
  <2>1. Filled /\ Filled'
    BY <1>4, SameFilled DEF LoadEnds
  <2>2. line_num = Len(file) \/ Rank(line_num) = MaxUsers
    <3>1. Rank(line_num) \in Nat /\ Rank(line_num) <= MaxUsers /\ MaxUsers \in Nat
      BY <2>1, RankNat, MaxUsersIsPositive DEF Types, Filled
    <3>2. CASE Free(g_users) = {}
      <4>1. ~ (Rank(line_num) < MaxUsers)
        BY <2>1, <3>2, FreeSlot
      <4> QED
        BY <3>1, <4>1
    <3> QED
      BY <1>4, <3>2 DEF LoadEnds
  <2>3. Rank(line_num)' = Rank(line_num)
    BY <1>4 DEF LoadEnds, Rank, Parses
  <2> QED
    BY <1>4, <2>1, <2>2, <2>3 DEF LoadEnds
<1>5. CASE Listen \/ Stop \/ CmdCleanup
  <2>1. Filled /\ Filled' /\ file' = file /\ line_num' = line_num
    BY <1>5, SameFilled DEF Listen, Stop, CmdCleanup
  <2>2. Rank(line_num)' = Rank(line_num)
    BY <2>1 DEF Rank, Parses
  <2> QED
    BY <1>5, <2>1, <2>2 DEF Listen, Stop, CmdCleanup
<1>6. CASE ListenFails \/ LockTable \/ UnlockTable \/ Exit
           \/ \E s \in Slots : ZeroHome(s) \/ ZeroPermissions(s)
  BY <1>6 DEF ListenFails, LockTable, UnlockTable, Exit, ZeroHome, ZeroPermissions
<1> QED
  BY <1>1, <1>2, <1>3, <1>4, <1>5, <1>6 DEF MainThread

LEMMA TableSame ==
    ASSUME Table, UNCHANGED <<main, tableVars>>
    PROVE  Table'
<1>1. Rank(line_num)' = Rank(line_num)
  BY DEF Rank, Parses, tableVars, fileVars
<1> QED
  BY <1>1, SameFilled DEF Table, Loaded, tableVars, fileVars

-----------------------------------------------------------------------------
(* Looking up                                                              *)

Intact == main \in Loaded

\* The lines that count are those that were read and fit.
LEMMA CountedRead ==
    ASSUME Types, Table, Intact
    PROVE  Counted = {i \in 1 .. line_num : Parses(file[i])}
<1> DEFINE len == Len(file)
<1>1. Filled /\ (line_num = len \/ Rank(line_num) = MaxUsers)
  BY DEF Table, Intact, Loaded
<1>2. line_num \in Nat /\ len \in Nat /\ line_num <= len /\ MaxUsers \in Nat
        /\ DOMAIN file = 1 .. len
  BY <1>1, MaxUsersIsPositive DEF Types, Filled
<1> HIDE DEF len
<1>3. ASSUME NEW i \in 1 .. line_num, Parses(file[i]) PROVE i \in Counted
  <2>1. Rank(i) <= Rank(line_num) /\ Rank(i) \in Nat /\ Rank(line_num) \in Nat
    BY <1>2, RankGrows, RankNat
  <2>2. Rank(line_num) <= MaxUsers
    BY <1>1 DEF Filled
  <2>3. Rank(i) <= MaxUsers
    BY <1>2, <2>1, <2>2
  <2>4. i \in DOMAIN file
    BY <1>2
  <2> QED
    BY <1>3, <2>3, <2>4 DEF Counted
<1>4. ASSUME NEW i \in Counted PROVE i \in 1 .. line_num /\ Parses(file[i])
  <2>1. i \in 1 .. len /\ Parses(file[i]) /\ Rank(i) <= MaxUsers
    BY <1>2 DEF Counted
  <2>2. CASE line_num < i
    <3>1. i \in Nat /\ i <= len
      BY <1>2, <2>1
    <3>2. Rank(line_num) < Rank(i) /\ Rank(i) \in Nat /\ Rank(line_num) \in Nat
      BY <1>2, <2>1, <2>2, <3>1, RankOrders, RankNat
    <3>3. line_num < len
      BY <1>2, <2>2, <3>1
    <3>4. Rank(line_num) = MaxUsers
      BY <1>1, <1>2, <3>3
    <3> QED
      BY <1>2, <2>1, <3>2, <3>4
  <2> QED
    BY <1>2, <2>1, <2>2
<1> QED
  BY <1>3, <1>4

\* A look-up finds the slot of the first line of that name.
LEMMA LookUp ==
    ASSUME Types, Table, Intact, NEW name
    PROVE  IF Stored(name) = {} THEN Find(g_users, name) = NULL
           ELSE /\ Min(Stored(name)) \in DOMAIN file
                /\ Find(g_users, name) \in Slots
                /\ g_users[Find(g_users, name)] = Row(file[Min(Stored(name))])
<1> DEFINE found == {s \in Slots : g_users[s].in_use /\ g_users[s].username = name}
<1>1. /\ \A s \in Slots : g_users[s].in_use <=> s <= Rank(line_num)
      /\ \A i \in 1 .. line_num : Parses(file[i]) => /\ Rank(i) \in 1 .. Rank(line_num)
                                                    /\ g_users[Rank(i)] = Row(file[i])
      /\ \A s \in 1 .. Rank(line_num) : \E i \in 1 .. line_num : Parses(file[i]) /\ Rank(i) = s
  BY DEF Table, Intact, Loaded, Filled
<1>2. Rank(line_num) \in Nat /\ Rank(line_num) <= MaxUsers /\ line_num \in Nat /\ MaxUsers \in Nat
        /\ line_num <= Len(file) /\ Len(file) \in Nat /\ DOMAIN file = 1 .. Len(file)
  BY RankNat, MaxUsersIsPositive DEF Types, Table, Intact, Loaded, Filled
<1>3. Stored(name) = {i \in 1 .. line_num : Parses(file[i]) /\ file[i].username = name}
  BY CountedRead DEF Stored
\* What is found is the slot of a line of that name, ...
<1>4. ASSUME NEW s \in found PROVE \E i \in Stored(name) : Rank(i) = s
  <2>1. s \in 1 .. Rank(line_num) /\ g_users[s].username = name
    BY <1>1, <1>2 DEF Slots
  <2>2. PICK i \in 1 .. line_num : Parses(file[i]) /\ Rank(i) = s
    BY <1>1, <2>1
  <2>3. g_users[s].username = file[i].username
    <3>1. g_users[s] = Row(file[i])
      BY <1>1, <2>2
    <3> QED
      BY <3>1 DEF Row
  <2> QED
    BY <1>3, <2>2, <2>3
\* ... and such a slot is found.
<1>5. ASSUME NEW i \in Stored(name)
      PROVE  Rank(i) \in found /\ g_users[Rank(i)] = Row(file[i])
  <2>1. i \in 1 .. line_num /\ Parses(file[i]) /\ file[i].username = name
    BY <1>3
  <2>2. Rank(i) \in 1 .. Rank(line_num) /\ g_users[Rank(i)] = Row(file[i])
    BY <1>1, <2>1
  <2>3. Rank(i) \in Slots
    BY <1>2, <2>2 DEF Slots
  <2> QED
    BY <1>1, <2>1, <2>2, <2>3 DEF Row
<1>6. CASE Stored(name) = {}
  BY <1>4, <1>6 DEF Find
<1>7. CASE Stored(name) # {}
  <2> DEFINE m == Min(Stored(name))
  <2>1. m \in Stored(name) /\ m \in 1 .. line_num /\ \A i \in Stored(name) : m <= i
    <3>1. Stored(name) \in SUBSET Nat /\ Stored(name) \subseteq 1 .. line_num
      BY <1>2, <1>3
    <3>2. m \in Stored(name) /\ \A i \in Stored(name) : m <= i
      BY <1>7, <3>1, MinOf
    <3> QED
      BY <3>1, <3>2
  <2>2. Rank(m) \in found /\ g_users[Rank(m)] = Row(file[m])
    BY <1>5, <2>1
  <2> HIDE DEF m
  <2>3. ASSUME NEW s \in found PROVE Rank(m) <= s
    <3>1. PICK i \in Stored(name) : Rank(i) = s
      BY <1>4
    <3>2. m \in Nat /\ i \in Nat /\ m <= i
      BY <1>2, <1>3, <2>1
    <3> QED
      BY <3>1, <3>2, RankGrows
  <2>4. found \in SUBSET Nat
    BY Kinds
  <2>5. Min(found) \in found /\ \A s \in found : Min(found) <= s
    BY <2>2, <2>4, MinOf
  <2>6. Min(found) = Rank(m)
    <3>1. Min(found) <= Rank(m) /\ Rank(m) <= Min(found) /\ Min(found) \in Nat /\ Rank(m) \in Nat
      BY <2>2, <2>3, <2>4, <2>5
    <3> QED
      BY <3>1
  <2>7. Find(g_users, name) = Rank(m)
    BY <2>2, <2>6 DEF Find
  <2> QED
    BY <1>2, <1>7, <2>1, <2>2, <2>7 DEF m
<1> QED
  BY <1>6, <1>7

-----------------------------------------------------------------------------
(* Sessions                                                                *)

LEMMA SameAccounts ==
    ASSUME file' = file
    PROVE  /\ \A n : Given(n)' = Given(n)
           /\ \A n, p : Admitted(n, p)' = Admitted(n, p)
<1>1. Counted' = Counted
  BY DEF Counted, Rank, Parses
<1>2. \A n : Stored(n)' = Stored(n)
  BY <1>1 DEF Stored
<1> QED
  BY <1>2 DEF Given, RightsOf, Admitted

\* A session that a step does not touch, while the server does not start.
LEMMA SessionSame ==
    ASSUME Sessions, NEW c \in Clients, UNCHANGED file,
           pc'[c] = pc[c], cmd'[c] = cmd[c], username'[c] = username[c],
           authenticated'[c] = authenticated[c], user'[c] = user[c], rights'[c] = rights[c],
           login'[c] = login[c],
           main' = "run" => \/ pc[c] = "none"
                            \/ main = "run" /\ g_users' = g_users
                                 /\ g_virtual_anonymous' = g_virtual_anonymous
    PROVE  Session(c)'
<1>1. AsLoggedIn(c)' = AsLoggedIn(c)
  BY SameAccounts DEF AsLoggedIn
<1>2. Admitted(username[c], cmd[c].arg)' = Admitted(username[c], cmd[c].arg)
  BY SameAccounts
<1>3. Given(username[c])' = Given(username[c])
  BY SameAccounts
<1>4. CASE main' = "run" /\ pc[c] # "none"
  <2>1. RightsAt(g_users, user[c])' = RightsAt(g_users, user[c])
    BY <1>4 DEF RightsAt
  <2> QED
    BY <1>1, <1>2, <1>3, <1>4, <2>1 DEF Sessions, Session
<1>5. CASE ~ (main' = "run" /\ pc[c] # "none")
  BY <1>1, <1>5 DEF Sessions, Session, Trusted
<1> QED
  BY <1>4, <1>5

LEMMA SessionsInit == Init => Sessions
  BY DEF Init, Sessions, Session, Trusted

LEMMA SessionsMain ==
    ASSUME Phases, Sessions, MainThread
    PROVE  Sessions'
<1> USE DEF Main, tableVars, fileVars, serverVars, clientVars, sessionVars, nameVars, loginVars
<1>1. UNCHANGED <<file, clientVars>>
  BY DEF MainThread, AuthInit, SetAnonymous, LoadLine, LoadEnds, Listen, ListenFails, Stop,
         CmdCleanup, LockTable, UnlockTable, Exit, ZeroHome, ZeroPermissions
<1>2. main' = "run" => main = "listen"
  BY DEF MainThread, AuthInit, SetAnonymous, LoadLine, LoadEnds, Listen, ListenFails, Stop,
         CmdCleanup, LockTable, UnlockTable, Exit, ZeroHome, ZeroPermissions
<1>3. main' = "run" => \A c \in Clients : pc[c] = "none"
  BY <1>2 DEF Phases, Before
<1> SUFFICES ASSUME NEW c \in Clients PROVE Session(c)'
  BY DEF Sessions
<1> QED
  BY <1>1, <1>3, SessionSame

\* Who is accepted gave the password of the account.
LEMMA AcceptedIsAdmitted ==
    ASSUME Types, Table, Intact, NEW name, NEW password, Accepts(g_users, name, password)
    PROVE  Admitted(name, password)
<1>1. CASE IsVirtual(name)
  BY <1>1 DEF IsVirtual, Admitted
<1>2. CASE ~ IsVirtual(name)
  <2>1. Find(g_users, name) \in Slots
          /\ g_users[Find(g_users, name)].password_hash = Hash[password]
    BY <1>2 DEF Accepts
  <2>2. Stored(name) # {}
    BY <2>1, LookUp, Kinds
  <2>3. g_users[Find(g_users, name)] = Row(file[Min(Stored(name))])
    BY <2>2, LookUp
  <2> QED
    BY <2>1, <2>2, <2>3 DEF Admitted, Row
<1> QED
  BY <1>1, <1>2

\* What the pointer points at are the rights of the account.
LEMMA PointerIsGranted ==
    ASSUME Types, Phases, Table, Intact, NEW name, Pointer(g_users, name) # NULL
    PROVE  RightsAt(g_users, Pointer(g_users, name)) = Given(name)
<1>1. CASE Stored(name) = {}
  <2>1. Find(g_users, name) = NULL
    BY <1>1, LookUp
  <2>2. Pointer(g_users, name) = Virtual
    BY <2>1 DEF Pointer
  <2>3. g_virtual_anonymous = Defaults
    BY DEF Phases, Intact, Loaded
  <2> QED
    BY <1>1, <2>2, <2>3 DEF RightsAt, Given, RightsOf
<1>2. CASE Stored(name) # {}
  <2>1. Find(g_users, name) \in Slots
          /\ g_users[Find(g_users, name)] = Row(file[Min(Stored(name))])
    BY <1>2, LookUp
  <2>2. Pointer(g_users, name) = Find(g_users, name) /\ Find(g_users, name) # Virtual
    BY <2>1, Kinds DEF Pointer
  <2> QED
    BY <1>2, <2>1, <2>2 DEF RightsAt, Given, RightsOf, Row
<1> QED
  BY <1>1, <1>2

\* The session whose thread steps.
LEMMA SessionSteps ==
    ASSUME Types, Phases, Table, Sessions, NEW c \in Clients, Client(c)
    PROVE  Session(c)'
<1> USE DEF ServerUnchanged, tableVars, fileVars, serverVars, sessionVars, nameVars, loginVars
<1>1. main' = main /\ file' = file /\ g_users' = g_users
        /\ g_virtual_anonymous' = g_virtual_anonymous
  BY DEF Client, Connect, LoopTest, Receive, Lookup, Call, User, Pass, Verify, GetTest, GetUser,
         ReadPermissions, ReadHome, Act
<1>2. main = "run" => Intact
  BY DEF Intact, Loaded
<1>3. Session(c)
  BY DEF Sessions
<1>4. pc[c] \in Steps /\ c \in DOMAIN pc /\ c \in DOMAIN cmd /\ c \in DOMAIN user
        /\ c \in DOMAIN rights /\ c \in DOMAIN login /\ c \in DOMAIN authenticated
        /\ c \in DOMAIN username
  BY DEF Types
\* Most steps leave the login alone.
<1>5. CASE ~ ReadPermissions(c) /\ ~ ReadHome(c)
  <2>1. /\ UNCHANGED loginVars /\ rights' = rights
    BY <1>5 DEF Client, Connect, LoopTest, Receive, Lookup, Call, User, Pass, Verify, GetTest,
                GetUser, Act
  <2>2. AsLoggedIn(c)' = AsLoggedIn(c)
    BY <1>1, <2>1, SameAccounts DEF AsLoggedIn
  <2>3. CASE Connect(c) \/ LoopTest(c)
    <3>1. pc'[c] \in {"loop", "receive", "left"} /\ (pc'[c] = "receive" => pc[c] = "loop" /\ main = "run")
            /\ (pc'[c] = "loop" => pc[c] = "none")
      BY <1>4, <2>3 DEF Connect, LoopTest, Goes, Phases
    <3> QED
      BY <1>1, <1>3, <2>1, <2>2, <3>1 DEF Session, Trusted
  <2>4. CASE Receive(c) \/ Call(c) \/ Lookup(c) \/ Pass(c) \/ User(c) \/ Act(c)
    <3>1. pc[c] \in Trusted \ {"verify", "get", "find"}
            /\ pc'[c] \in {"loop", "left", "dispatch", "call", "USER", "PASS", "ACT", "verify",
                           "crashed"}
      BY <1>3, <1>4, <2>4
         DEF Receive, Call, Lookup, Pass, User, Act, GoesIf, Goes, Session, Trusted, Types, Ops
    <3>2. pc'[c] \in {"dispatch", "call"} => cmd'[c].op # "none"
      BY <1>3, <1>4, <2>4
         DEF Receive, Commands, Call, Lookup, Pass, User, Act, GoesIf, Goes, Session, Types, Ops
    <3> QED
      BY <1>1, <1>3, <2>1, <2>2, <3>1, <3>2 DEF Session, Trusted
  <2>5. CASE Verify(c) \/ GetTest(c)
    <3>1. pc[c] \in {"verify", "get"} /\ pc'[c] \in {"loop", "get", "find"}
            /\ (pc'[c] # "loop" => cmd' = cmd) /\ username' = username
      BY <1>4, <2>5 DEF Verify, GetTest, GoesIf, Goes
    <3>2. pc'[c] # "loop" /\ main = "run" => Admitted(username[c], cmd[c].arg)
      BY <1>2, <1>3, <1>4, <2>5, AcceptedIsAdmitted DEF Verify, GetTest, GoesIf, Goes, Session
    <3>3. Admitted(username[c], cmd[c].arg)' = Admitted(username'[c], cmd'[c].arg)
      BY <1>1, SameAccounts
    <3> QED
      BY <1>1, <1>3, <2>1, <2>2, <3>1, <3>2, <3>3 DEF Session, Trusted
  <2>6. CASE GetUser(c)
    <3>1. pc[c] = "find" /\ pc'[c] \in {"loop", "permissions"} /\ username' = username
            /\ user'[c] = Pointer(g_users, username[c])
            /\ (pc'[c] # "loop" => cmd' = cmd /\ user'[c] # NULL)
      BY <1>4, <2>6 DEF GetUser, GoesIf, Goes
    <3>2. Admitted(username[c], cmd[c].arg)' = Admitted(username'[c], cmd'[c].arg)
      BY <1>1, SameAccounts
    <3>3. Given(username[c])' = Given(username[c])
      BY <1>1, <3>1, SameAccounts
    <3>4. RightsAt(g_users, user[c])' = RightsAt(g_users, user'[c])
      BY <1>1 DEF RightsAt
    <3>5. pc'[c] # "loop" /\ main = "run"
            => RightsAt(g_users, user[c])' = Given(username[c])'
      BY <1>2, <3>1, <3>3, <3>4, PointerIsGranted
    <3> QED
      BY <1>1, <1>3, <2>1, <2>2, <3>1, <3>2, <3>5 DEF Session, Trusted
  <2> QED
    BY <1>5, <2>3, <2>4, <2>5, <2>6 DEF Client
<1>6. CASE ReadPermissions(c)
  <2>1. pc[c] = "permissions" /\ pc'[c] = "home" /\ cmd' = cmd /\ username' = username
          /\ user' = user /\ rights'[c].permissions = RightsAt(g_users, user[c]).permissions
    BY <1>4, <1>6 DEF ReadPermissions, Goes, Types, Rights
  <2>2. /\ Admitted(username[c], cmd[c].arg)' = Admitted(username[c], cmd[c].arg)
        /\ Given(username[c])' = Given(username[c])
    BY <1>1, <2>1, SameAccounts
  <2>3. RightsAt(g_users, user[c])' = RightsAt(g_users, user[c])
    BY <1>1, <2>1 DEF RightsAt
  <2> QED
    BY <1>1, <1>3, <2>1, <2>2, <2>3 DEF Session, Trusted
<1>7. CASE ReadHome(c)
  <2>1. pc[c] = "home" /\ pc'[c] = "loop"
          /\ login'[c] = [name |-> username[c], password |-> cmd[c].arg]
    BY <1>4, <1>7 DEF ReadHome, Goes
  <2>2. ASSUME main = "run" PROVE AsLoggedIn(c)'
    <3>1. /\ Admitted(username[c], cmd[c].arg) /\ user[c] # NULL
          /\ RightsAt(g_users, user[c]) = Given(username[c])
          /\ rights[c].permissions = Given(username[c]).permissions
      BY <1>3, <2>1, <2>2 DEF Session
    <3>2. rights'[c] = [rights[c] EXCEPT !.home_dir = RightsAt(g_users, user[c]).home_dir]
      BY <1>4, <1>7, <2>2 DEF ReadHome, Phases, Loaded
    <3>3. rights[c] \in Rights /\ RightsAt(g_users, user[c]) \in Rights
      BY <3>1, RightsAtKind DEF Types
    <3>4. rights'[c] = Given(username[c])
      BY <3>1, <3>2, <3>3 DEF Rights
    <3>5. /\ Given(login[c].name)' = Given(login'[c].name)
          /\ Admitted(login[c].name, login[c].password)'
               = Admitted(login'[c].name, login'[c].password)
      BY <1>1, SameAccounts
    <3> QED
      BY <2>1, <3>1, <3>4, <3>5 DEF AsLoggedIn
  <2> QED
    BY <1>1, <2>1, <2>2 DEF Session, Trusted
<1> QED
  BY <1>5, <1>6, <1>7

LEMMA SessionsClient ==
    ASSUME Types, Phases, Table, Sessions, NEW c \in Clients, Client(c)
    PROVE  Sessions'
<1> SUFFICES ASSUME NEW d \in Clients, d # c PROVE Session(d)'
  BY SessionSteps DEF Sessions
<1>1. UNCHANGED <<main, file, g_users, g_virtual_anonymous>>
  BY DEF Client, Connect, LoopTest, Receive, Lookup, Call, User, Pass, Verify, GetTest, GetUser,
         ReadPermissions, ReadHome, Act, ServerUnchanged, tableVars, fileVars
<1>2. /\ pc'[d] = pc[d] /\ cmd'[d] = cmd[d] /\ username'[d] = username[d]
      /\ authenticated'[d] = authenticated[d] /\ user'[d] = user[d] /\ rights'[d] = rights[d]
      /\ login'[d] = login[d]
  BY DEF Client, Connect, LoopTest, Receive, Lookup, Call, User, Pass, Verify, GetTest, GetUser,
         ReadPermissions, ReadHome, Act, GoesIf, Goes, Done, Types, sessionVars, nameVars, loginVars
<1> QED
  BY <1>1, <1>2, SessionSame

-----------------------------------------------------------------------------
(* Theorems                                                                *)

\* Types, progress of the server, contents of the table and knowledge of the
\* sessions are inductive together.
THEOREM Inductive == Spec => []IInv
<1>1. Init => IInv
  BY TypesInit, PhasesInit, TableInit, SessionsInit DEF IInv
<1>2. IInv /\ [Next]_vars => IInv'
  <2> SUFFICES ASSUME IInv, [Next]_vars PROVE IInv'
    OBVIOUS
  <2>1. CASE MainThread
    BY <2>1, TypesKept, PhasesMain, TableMain, SessionsMain DEF IInv
  <2>2. ASSUME NEW c \in Clients, Client(c) PROVE IInv'
    <3>1. UNCHANGED <<main, tableVars>>
      BY <2>2 DEF Client, Connect, LoopTest, Receive, Lookup, Call, User, Pass, Verify, GetTest,
                  GetUser, ReadPermissions, ReadHome, Act, ServerUnchanged
    <3> QED
      BY <2>2, <3>1, TypesKept, PhasesClient, TableSame, SessionsClient DEF IInv
  <2>3. CASE UNCHANGED vars
    <3>1. Phases'
      BY <2>3 DEF IInv, Phases, vars, tableVars, serverVars, clientVars
    <3>2. Table'
      BY <2>3, TableSame DEF IInv, vars
    <3>3. Sessions'
      <4> SUFFICES ASSUME NEW c \in Clients PROVE Session(c)'
        BY DEF Sessions
      <4> QED
        BY <2>3, SessionSame
           DEF IInv, vars, tableVars, fileVars, clientVars, sessionVars, nameVars, loginVars
    <3> QED
      BY <3>1, <3>2, <3>3, TypesKept DEF IInv
  <2> QED
    BY <2>1, <2>2, <2>3 DEF Next
<1> QED
  BY <1>1, <1>2, PTL DEF Spec

\* From auth_load_users to auth_cleanup a look-up finds the account of the first
\* line of that name among the lines that fit the table, whatever the file and
\* the size of the table (auth.c:99-182, 442-455).
THEOREM LoadsFile == Spec => []LoadExact
<1>1. IInv => LoadExact
  <2> SUFFICES ASSUME IInv, Intact, NEW name \in Names
               PROVE  LET s == Find(g_users, name) IN
                      IF Stored(name) = {} THEN s = NULL
                      ELSE /\ s # NULL
                           /\ RightsAt(g_users, s) = Given(name)
                           /\ g_users[s].password_hash = file[Min(Stored(name))].password_hash
    BY DEF LoadExact, Intact, Loaded
  <2>1. CASE Stored(name) = {}
    BY <2>1, LookUp DEF IInv
  <2>2. CASE Stored(name) # {}
    <3>1. Find(g_users, name) \in Slots
            /\ g_users[Find(g_users, name)] = Row(file[Min(Stored(name))])
      BY <2>2, LookUp DEF IInv
    <3> QED
      BY <2>2, <3>1, Kinds DEF RightsAt, Given, RightsOf, Row
  <2> QED
    BY <2>1, <2>2
<1> QED
  BY <1>1, Inductive, PTL

\* Where the line that should decide parses, it is the one that is stored.
LEMMA DecidedByStored ==
    ASSUME Types, NEW name
    PROVE  /\ ~ Unread(name) => Given(name) = Granted(name)
           /\ name # Anonymous => Named(name) = Stored(name)
<1> DEFINE skipped == {i \in DOMAIN file : /\ NeedsNoHash(file[i]) /\ file[i].username = name
                                           /\ Rank(i) < MaxUsers}
<1>1. Named(name) = Stored(name) \cup skipped
  BY DEF Named
<1>2. name # Anonymous => Named(name) = Stored(name)
  BY <1>1 DEF NeedsNoHash
<1>3. \A i \in skipped : ~ Parses(file[i])
  BY DEF NeedsNoHash, Parses
<1> HIDE DEF skipped
<1>4. ASSUME ~ Unread(name), Named(name) # {} PROVE Min(Stored(name)) = Min(Named(name))
  <2> DEFINE m == Min(Named(name))
             n == Min(Stored(name))
  <2>1. Named(name) \in SUBSET Nat /\ Stored(name) \in SUBSET Nat
    BY DEF Types, Named, Stored, Counted
  <2>2. m \in Named(name) /\ \A i \in Named(name) : m <= i
    BY <1>4, <2>1, MinOf, Zenon
  <2>3. m \in Stored(name)
    BY <1>1, <1>3, <1>4, <2>2 DEF Unread
  <2>4. n \in Stored(name) /\ \A i \in Stored(name) : n <= i
    BY <2>1, <2>3, MinOf, Zenon
  <2>5. m \in Nat /\ n \in Nat /\ m <= n /\ n <= m
    BY <1>1, <2>1, <2>2, <2>3, <2>4
  <2> QED
    BY <2>5
<1>5. ASSUME ~ Unread(name) PROVE Given(name) = Granted(name)
  <2>1. CASE Named(name) = {}
    BY <1>1, <2>1 DEF Given, Granted, RightsOf
  <2>2. CASE Named(name) # {}
    <3>1. Min(Named(name)) \in Named(name)
      <4>1. Named(name) \in SUBSET Nat
        BY DEF Types, Named, Stored, Counted
      <4> QED
        BY <2>2, <4>1, MinOf, Zenon
    <3>2. Stored(name) # {}
      BY <1>1, <1>3, <1>5, <2>2, <3>1 DEF Unread
    <3> QED
      BY <1>4, <1>5, <2>2, <3>2 DEF Given, Granted, RightsOf
  <2> QED
    BY <2>1, <2>2
<1> QED
  BY <1>2, <1>5

\* A handler that acts for an authenticated session does so with the rights
\* that users.db grants the account whose password was given, although
\* session_authenticate reads them through an unlocked pointer that auth_cleanup
\* may zero under it (session.c:206-232, auth.c:55-65); anonymous may have those
\* of a later line or the defaults instead, if its line has no hash.
THEOREM RightsAreOfLogin == Spec => []ActsAsLoggedIn
<1>1. IInv => ActsAsLoggedIn
  <2> SUFFICES ASSUME IInv, NEW c \in Clients, pc[c] = "ACT", authenticated[c]
               PROVE  /\ \/ rights[c] = Granted(login[c].name)
                         \/ Unread(login[c].name) /\ rights[c] = Given(login[c].name)
                      /\ \/ login[c].name = Anonymous
                         \/ /\ Named(login[c].name) # {}
                            /\ file[Min(Named(login[c].name))].password_hash
                                 = Hash[login[c].password]
    BY DEF ActsAsLoggedIn
  <2> DEFINE name == login[c].name
  <2>1. rights[c] = Given(name) /\ Admitted(name, login[c].password)
    BY DEF IInv, Sessions, Session, Trusted, AsLoggedIn
  <2>2. /\ ~ Unread(name) => Given(name) = Granted(name)
        /\ name # Anonymous => Named(name) = Stored(name)
    BY DecidedByStored DEF IInv
  <2> HIDE DEF name
  <2>3. \/ rights[c] = Granted(name)
        \/ Unread(name) /\ rights[c] = Given(name)
    BY <2>1, <2>2
  <2>4. \/ name = Anonymous
        \/ /\ Named(name) # {}
           /\ file[Min(Named(name))].password_hash = Hash[login[c].password]
    BY <2>1, <2>2 DEF Admitted
  <2> QED
    BY <2>3, <2>4 DEF name
<1> QED
  BY <1>1, Inductive, PTL
=============================================================================
