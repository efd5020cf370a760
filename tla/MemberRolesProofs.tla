-------------------------- MODULE MemberRolesProofs --------------------------
(***************************************************************************)
(* No role update, failed, repeated or overtaken by others, gives a guild  *)
(* two member roles of one name, and one that says it succeeded leaves the *)
(* roles of the system: for any number of members and roles.               *)
(***************************************************************************)
EXTENDS MemberRoles, FiniteSetTheorems, TLAPS

Taken(n) == \E id \in DOMAIN roles : roles[id].name = n

\* From the read of the guild to the operations, the command knows every
\* member role there is; from then on, what it is to create is not there.
Knows ==
    at \in {"members", "warn", "user roles"} =>
        \A n \in Names : Taken(n) => n \in DOMAIN run.looks
CreatesNew ==
    at \in {"confirm", "working"} =>
        \A n \in Names : n \in run.ops["create"] => ~Taken(n)

\* The fields of the local variables, and where a waiter can be.
Fields == {"ids", "looks", "others", "desired", "ops", "total", "done"}
Shape ==
    /\ DOMAIN run = Fields /\ DOMAIN run.ops = Kinds
    /\ waiting => at \in Prompts

NamesInv == NoDuplicateRoles /\ Knows /\ CreatesNew /\ Shape

\* A member role of the next state is one of this state.
Shrinks ==
    \A id \in DOMAIN roles' :
        roles'[id].name # Other => id \in DOMAIN roles /\ roles[id].name = roles'[id].name

\* Where no member role appears, none is doubled and none is newly taken.
LEMMA ShrinkingIsSafe ==
    ASSUME NoDuplicateRoles, Shrinks
    PROVE  NoDuplicateRoles' /\ \A n \in Names : Taken(n)' => Taken(n)
<1>1. NoDuplicateRoles'
  BY DEF NoDuplicateRoles, Shrinks
<1>2. \A n \in Names : Taken(n)' => Taken(n)
  BY RolesAssumption DEF Taken, Shrinks, RolesAssumption
<1> QED BY <1>1, <1>2

\* A created role has a name nobody has.
LEMMA CreationIsSafe ==
    ASSUME NoDuplicateRoles, NEW n \in Names, ~Taken(n), CreateRole(n)
    PROVE  NoDuplicateRoles' /\ \A m \in Names : Taken(m)' => Taken(m) \/ m = n
<1>1. FreshId \notin DOMAIN roles
  BY DEF CreateRole, HasFreshId, FreshId
<1>2. /\ DOMAIN roles' = DOMAIN roles \union {FreshId}
      /\ \A id \in DOMAIN roles : roles'[id] = roles[id]
      /\ roles'[FreshId].name = n
  BY <1>1 DEF CreateRole
<1> QED BY <1>1, <1>2 DEF NoDuplicateRoles, Taken

\* The other changes a command asks for create nothing.
LEMMA OtherChangesShrink ==
    ASSUME NEW k, NEW n, Asks(k, n), k # "create"
    PROVE  Shrinks
<1>1. CASE UpdateRole(n)
  BY <1>1 DEF UpdateRole, Shrinks
<1>2. CASE DeleteRole(n)
  BY <1>2 DEF DeleteRole, Shrinks, Restrict
<1>3. CASE AssignRole(n) \/ UNCHANGED discordVars
  BY <1>3 DEF AssignRole, Shrinks, discordVars
<1> QED BY <1>1, <1>2, <1>3 DEF Asks

\* A finished command knows and creates nothing.
LEMMA FinishedIsSafe ==
    ASSUME NoDuplicateRoles', NEW result, Finish(result)
    PROVE  NamesInv'
<1>1. Shape'
  BY DEF Finish, Shape, EmptyRun, Nothing, Fields
<1> QED BY <1>1 DEF Finish, NamesInv, Knows, CreatesNew

\* Steps that change neither roles nor what the command knows of them.
LEMMA SameRolesIsSafe ==
    ASSUME NamesInv, Shrinks, Shape', run'.looks = run.looks, run'.ops = run.ops,
           \/ at' = at
           \/ at = "members" /\ at' \in {"warn", "user roles"}
           \/ at = "warn" /\ at' = "user roles"
           \/ at = "confirm" /\ at' = "working"
    PROVE  NamesInv'
<1>1. NoDuplicateRoles' /\ \A n \in Names : Taken(n)' => Taken(n)
  BY ShrinkingIsSafe DEF NamesInv
<1> QED BY <1>1 DEF NamesInv, Knows, CreatesNew

LEMMA InitNames == Init => NamesInv
<1> SUFFICES ASSUME Init PROVE NamesInv
  OBVIOUS
<1>1. NoDuplicateRoles
  BY DEF Init, NoDuplicateRoles
<1>2. Shape
  BY DEF Init, Shape, EmptyRun, Nothing, Fields
<1> QED BY <1>1, <1>2 DEF Init, NamesInv, Knows, CreatesNew

LEMMA StartNames == ASSUME NamesInv, Start PROVE NamesInv'
<1>1. PICK ids \in CurrentRoles :
        run' = [EmptyRun EXCEPT !.ids = ids,
                                !.looks = [n \in DOMAIN ids |-> roles[ids[n]].look],
                                !.others = Cardinality(DOMAIN roles) - Cardinality(DOMAIN ids)]
  BY DEF Start
<1>2. DOMAIN run'.looks = DOMAIN ids /\ DOMAIN run' = Fields /\ DOMAIN run'.ops = Kinds
  BY <1>1 DEF EmptyRun, Fields, Nothing
<1>3. DOMAIN ids = {roles[id].name : id \in {i \in DOMAIN roles : roles[i].name \in Names}}
  BY DEF CurrentRoles
<1>4. at' = "members" /\ roles' = roles /\ waiting' = waiting /\ at = "idle"
  BY DEF Start, Go, discordVars, promptVars
<1>5. Knows'
  BY <1>2, <1>3, <1>4 DEF Knows, Taken
<1>6. NoDuplicateRoles'
  BY <1>4 DEF NoDuplicateRoles, NamesInv
<1> QED BY <1>2, <1>4, <1>5, <1>6 DEF NamesInv, CreatesNew, Shape, Prompts

LEMMA ReadMembersNames == ASSUME NamesInv, ReadMembers PROVE NamesInv'
<1>1. Shrinks
  BY DEF ReadMembers, Shrinks, discordVars
<1>2. NoDuplicateRoles'
  BY <1>1, ShrinkingIsSafe DEF NamesInv
<1>3. CASE SystemUnreadable \/ TooManyRoles
  BY <1>2, <1>3, FinishedIsSafe DEF SystemUnreadable, TooManyRoles
<1>4. CASE ~(SystemUnreadable \/ TooManyRoles)
  <2>1. PICK desired \in DesiredRoles : run' = [run EXCEPT !.desired = desired]
    BY <1>4 DEF ReadMembers
  <2>2. run'.looks = run.looks /\ run'.ops = run.ops /\ DOMAIN run' = Fields
    BY <2>1 DEF NamesInv, Shape, Fields
  <2>3. at = "members" /\ at' \in {"warn", "user roles"} /\ waiting' = waiting
    BY <1>4 DEF ReadMembers, Go, promptVars
  <2>4. Shape'
    BY <2>2, <2>3 DEF NamesInv, Shape, Prompts
  <2> QED BY <1>1, <2>2, <2>3, <2>4, SameRolesIsSafe
<1> QED BY <1>3, <1>4

LEMMA ReadUserRolesNames == ASSUME NamesInv, ReadUserRoles PROVE NamesInv'
<1>1. roles' = roles /\ at = "user roles"
  BY DEF ReadUserRoles, discordVars
<1>2. NoDuplicateRoles'
  BY <1>1 DEF NamesInv, NoDuplicateRoles
<1>3. PICK listed \in UserRoles :
        LET ops == RoleOps(run.looks, run.desired, {SeenRoles[id].name : id \in listed})
        IN  \/ \E result : Finish(result)
            \/ /\ Go("confirm")
               /\ run' = [run EXCEPT !.ops = ops, !.total = Count(ops), !.looks = <<>>]
               /\ UNCHANGED promptVars
  BY DEF ReadUserRoles
<1>4. CASE \E result : Finish(result)
  BY <1>2, <1>4, FinishedIsSafe
<1>5. CASE ~\E result : Finish(result)
  <2> DEFINE ops == RoleOps(run.looks, run.desired, {SeenRoles[id].name : id \in listed})
  <2>1. /\ at' = "confirm" /\ waiting' = waiting
        /\ run' = [run EXCEPT !.ops = ops, !.total = Count(ops), !.looks = <<>>]
    BY <1>3, <1>5 DEF Go, promptVars
  <2>2. DOMAIN ops = Kinds /\ ops["create"] = DOMAIN run.desired \ DOMAIN run.looks
    BY DEF RoleOps, Kinds
  <2> HIDE DEF ops
  <2>3. DOMAIN run' = Fields /\ run'.ops = ops
    BY <2>1 DEF NamesInv, Shape, Fields
  <2>4. CreatesNew'
    BY <1>1, <2>1, <2>2, <2>3 DEF NamesInv, Knows, CreatesNew, Taken
  <2> QED BY <1>2, <2>1, <2>2, <2>3, <2>4 DEF NamesInv, Knows, Shape, Prompts
<1> QED BY <1>4, <1>5

\* The dialog: a click moves the command on, or ends it.
LEMMA PromptNames ==
    ASSUME NamesInv, ShowPrompt \/ WaitForComponent \/ (\E b : Click(b)) \/ ClickArrives
    PROVE  NamesInv'
<1>1. Shrinks
  BY DEF ShowPrompt, WaitForComponent, Click, ClickArrives, Shrinks, discordVars
<1>2. NoDuplicateRoles'
  BY <1>1, ShrinkingIsSafe DEF NamesInv
<1>3. CASE ShowPrompt \/ WaitForComponent \/ \E b : Click(b)
  <2>1. at' = at /\ run' = run /\ Shape'
    BY <1>3 DEF ShowPrompt, WaitForComponent, Click, NamesInv, Shape
  <2> QED BY <1>1, <2>1, SameRolesIsSafe
<1>4. CASE ClickArrives
  <2>1. PICK click \in clicks : ClickIgnored(click) \/ Confirm(click) \/ Deny(click)
    BY <1>4 DEF ClickArrives
  <2>2. CASE ClickIgnored(click)
    <3>1. at' = at /\ run' = run /\ Shape'
      BY <2>2 DEF ClickIgnored, NamesInv, Shape
    <3> QED BY <1>1, <3>1, SameRolesIsSafe
  <2>3. CASE Confirm(click)
    <3>1. at \in Prompts /\ at' = (IF at = "warn" THEN "user roles" ELSE "working") /\ run' = run /\ Shape'
      BY <2>3 DEF Confirm, Go, NamesInv, Shape
    <3> QED BY <1>1, <3>1, SameRolesIsSafe DEF Prompts
  <2>4. CASE Deny(click)
    BY <1>2, <2>4, FinishedIsSafe DEF Deny
  <2> QED BY <2>1, <2>2, <2>3, <2>4
<1> QED BY <1>3, <1>4

\* An operation of the command, whether its answer comes or not.
LEMMA AskedNames ==
    ASSUME NamesInv, at = "working", NEW o \in Pending, Asks(o[1], o[2])
    PROVE  /\ NoDuplicateRoles'
           /\ \A n \in Names : Taken(n)' => Taken(n) \/ (o[1] = "create" /\ n = o[2])
<1>1. CASE o[1] = "create"
  <2>1. CreateRole(o[2]) /\ o[2] \in Names /\ o[2] \in run.ops["create"]
    BY <1>1 DEF Asks, Pending
  <2>2. ~Taken(o[2])
    BY <2>1 DEF NamesInv, CreatesNew
  <2> QED BY <1>1, <2>1, <2>2, CreationIsSafe DEF NamesInv
<1>2. CASE o[1] # "create"
  BY <1>2, OtherChangesShrink, ShrinkingIsSafe DEF NamesInv
<1> QED BY <1>1, <1>2

LEMMA WorkNames == ASSUME NamesInv, Work PROVE NamesInv'
<1>1. PICK o \in Pending :
        /\ Asks(o[1], o[2])
        /\ run' = [run EXCEPT !.ops[o[1]] = @ \ {o[2]},
                              !.done[o[1]] = @ + (IF PassedOver(o[1], o[2]) THEN 0 ELSE 1),
                              !.ids = KnownIds(o[1], o[2])]
  BY DEF Work
<1>2. at = "working" /\ at' = at /\ waiting' = waiting
  BY DEF Work
<1>3. /\ NoDuplicateRoles'
      /\ \A n \in Names : Taken(n)' => Taken(n) \/ (o[1] = "create" /\ n = o[2])
  BY <1>1, <1>2, AskedNames
<1>4. DOMAIN run' = Fields /\ run'.ops = [run.ops EXCEPT ![o[1]] = @ \ {o[2]}]
  BY <1>1 DEF NamesInv, Shape, Fields
<1>5. DOMAIN run'.ops = Kinds
  BY <1>4 DEF NamesInv, Shape
<1>6. run'.ops["create"] = IF o[1] = "create" THEN run.ops["create"] \ {o[2]} ELSE run.ops["create"]
  BY <1>4 DEF NamesInv, Shape, Kinds
<1>7. CreatesNew'
  BY <1>2, <1>3, <1>6 DEF NamesInv, CreatesNew
<1> QED BY <1>2, <1>3, <1>4, <1>5, <1>7 DEF NamesInv, Knows, Shape

LEMMA EndsNames == ASSUME NamesInv, Refused \/ Succeed \/ Fails PROVE NamesInv'
<1>1. NoDuplicateRoles'
  <2>1. CASE roles' = roles
    BY <2>1 DEF NamesInv, NoDuplicateRoles
  <2>2. CASE at = "working" /\ \E o \in Pending : Asks(o[1], o[2])
    BY <2>2, AskedNames
  <2> QED BY <2>1, <2>2 DEF Refused, Succeed, Fails, discordVars
<1>2. \E result : Finish(result)
  BY DEF Refused, Succeed, Fails
<1> QED BY <1>1, <1>2, FinishedIsSafe

LEMMA OthersNames ==
    ASSUME NamesInv, RoleEvents \/ MemberEvents \/ OthersChange \/ UNCHANGED vars
    PROVE  NamesInv'
<1>1. at' = at /\ run' = run /\ waiting' = waiting
  BY DEF RoleEvents, MemberEvents, OthersChange, vars, promptVars
<1>2. Shrinks
  <2>1. CASE roles' = roles
    BY <2>1 DEF Shrinks
  <2>2. CASE \E id \in DOMAIN roles : RoleChanges(id)
    <3>1. PICK id \in DOMAIN roles : RoleChanges(id)
      BY <2>2
    <3>2. CASE roles' = Restrict(roles, DOMAIN roles \ {id})
      BY <3>2 DEF Shrinks, Restrict
    <3>3. CASE roles' = [roles EXCEPT ![id].name = Other]
      BY <3>3 DEF Shrinks
    <3>4. CASE \E look \in Looks : roles' = [roles EXCEPT ![id].look = look]
      BY <3>4 DEF Shrinks
    <3> QED BY <3>1, <3>2, <3>3, <3>4 DEF RoleChanges
  <2> QED BY <2>1, <2>2 DEF RoleEvents, MemberEvents, OthersChange, SystemChanges, UserRoleChanges,
                            vars, discordVars
<1>3. Shape'
  BY <1>1 DEF NamesInv, Shape
<1> QED BY <1>1, <1>2, <1>3, SameRolesIsSafe

\* Whatever fails, is repeated or is changed by others, the guild never gets a
\* second role of a member's name from /pk roles update.
THEOREM NoRoleTwice == Spec => []NoDuplicateRoles
<1>1. Init => NamesInv
  BY InitNames
<1>2. NamesInv /\ [Next]_vars => NamesInv'
  BY StartNames, ReadMembersNames, ReadUserRolesNames, PromptNames, WorkNames, EndsNames, OthersNames DEF Next
<1>3. NamesInv => NoDuplicateRoles
  BY DEF NamesInv
<1> QED BY <1>1, <1>2, <1>3, PTL DEF Spec

-----------------------------------------------------------------------------
(* What the command tells the user is true.                                *)

\* A role is a name and a look, a system names its members, and the user holds
\* roles of the guild.
IsRole(role) == role.name \in Names \union {Other} /\ role = [name |-> role.name, look |-> role.look]
Typed ==
    /\ \A id \in DOMAIN roles : IsRole(roles[id])
    /\ \A m \in DOMAIN system : system[m].name \in Names
    /\ held \subseteq DOMAIN roles

\* The command has the id of every member role there is, under its name.
IdsKnown ==
    /\ \A id \in DOMAIN roles : roles[id].name \in Names =>
           roles[id].name \in DOMAIN run.ids /\ run.ids[roles[id].name] = id
    /\ \A n \in DOMAIN run.ids : run.ids[n] \in DOMAIN roles => roles[run.ids[n]].name = n

\* What the command read is still so.
ReadIsTrue ==
    /\ IdsKnown
    /\ DOMAIN run.looks = DOMAIN run.ids
    /\ \A n \in DOMAIN run.ids : run.ids[n] \in DOMAIN roles /\ run.looks[n] = roles[run.ids[n]].look

\* What the operations left will do is all that is missing.
Fits(n, ops) ==
    /\ n \in DOMAIN run.ids /\ run.ids[n] \in DOMAIN roles
    /\ \/ n \in ops["update"]
       \/ roles[run.ids[n]].look.colour = run.desired[n] /\ roles[run.ids[n]].look.mentionable
Enough(ops) ==
    /\ IdsKnown
    /\ \A n \in DOMAIN run.desired : n \notin ops["create"] => Fits(n, ops)
    /\ \A n \in DOMAIN run.desired :
           n \in ops["assign"] \/ (n \in DOMAIN run.ids /\ run.ids[n] \in held)
    /\ \A id \in DOMAIN roles : roles[id].name \in DOMAIN run.desired \union ops["delete"] \union {Other}
    /\ ops["create"] \subseteq DOMAIN run.desired \ DOMAIN run.ids
    /\ ops["update"] \subseteq DOMAIN run.ids
    /\ ops["delete"] \subseteq DOMAIN run.ids \ DOMAIN run.desired

MatchInv ==
    /\ Typed
    /\ at # "idle" => outcome = "none"
    /\ quiet /\ at \in {"members", "warn", "user roles"} => ReadIsTrue
    /\ quiet /\ at \in {"warn", "user roles", "confirm", "working"} => run.desired \in DesiredRoles
    /\ quiet /\ at \in {"confirm", "working"} => Enough(run.ops)
    /\ SuccessMeansMatch

\* A plan with nothing left in it is a guild that matches the system.
LEMMA NothingLeftMatches ==
    ASSUME Typed, run.desired \in DesiredRoles, Enough(Nothing)
    PROVE  MatchesSystem
<1>1. \A k \in Kinds : Nothing[k] = {}
  BY DEF Nothing
<1>2. /\ DOMAIN run.desired = NamesOf(system)
      /\ \A n \in DOMAIN run.desired :
            \E m \in DOMAIN system : system[m] = [name |-> n, colour |-> run.desired[n]]
  BY DEF DesiredRoles
<1>3. \A id \in DOMAIN roles : roles[id].name \in NamesOf(system) \union {Other}
  BY <1>1, <1>2 DEF Enough, Kinds
<1>4. ASSUME NEW m \in DOMAIN system
      PROVE  \E id \in held :
                /\ roles[id].name = system[m].name /\ roles[id].look.mentionable
                /\ \E other \in DOMAIN system :
                      system[other] = [name |-> system[m].name, colour |-> roles[id].look.colour]
  <2> DEFINE n == system[m].name
             id == run.ids[n]
  <2>1. n \in DOMAIN run.desired
    BY <1>2 DEF NamesOf
  <2>2. id \in held /\ id \in DOMAIN roles /\ roles[id].name = n
    BY <1>1, <2>1 DEF Enough, IdsKnown, Fits, Kinds
  <2>3. roles[id].look.colour = run.desired[n] /\ roles[id].look.mentionable
    BY <1>1, <2>1 DEF Enough, Fits, Kinds
  <2>4. PICK other \in DOMAIN system : system[other] = [name |-> n, colour |-> run.desired[n]]
    BY <1>2, <2>1
  <2> QED BY <2>2, <2>3, <2>4
<1> QED BY <1>3, <1>4 DEF MatchesSystem

\* With the roles, the system and what the command knows of them as they were,
\* what was true is true.
LEMMA SameWorldIsTrue ==
    ASSUME UNCHANGED <<system, discordVars, run>>
    PROVE  /\ Typed' <=> Typed
           /\ ReadIsTrue' <=> ReadIsTrue
           /\ Enough(run.ops)' <=> Enough(run.ops)
           /\ (run.desired \in DesiredRoles)' <=> run.desired \in DesiredRoles
           /\ MatchesSystem' <=> MatchesSystem
<1>1. UNCHANGED <<system, roles, held, run>>
  BY DEF discordVars
<1>2. /\ Typed' <=> Typed
      /\ ReadIsTrue' <=> ReadIsTrue
      /\ Enough(run.ops)' <=> Enough(run.ops)
  BY <1>1 DEF Typed, ReadIsTrue, IdsKnown, Enough, Fits
<1>3. (run.desired \in DesiredRoles)' <=> run.desired \in DesiredRoles
  BY <1>1 DEF DesiredRoles
<1>4. MatchesSystem' <=> MatchesSystem
  BY <1>1 DEF MatchesSystem
<1> QED BY <1>2, <1>3, <1>4

\* A command that ends without success promises nothing.
LEMMA EndsWithoutPromise ==
    ASSUME Typed', NEW result, Finish(result), result \notin {"updated", "up to date"}
    PROVE  MatchInv'
BY DEF Finish, MatchInv, SuccessMeansMatch

\* A role with another look is a role of the same name.
LEMMA NewLook ==
    ASSUME Typed, NEW id \in DOMAIN roles, NEW look, roles' = [roles EXCEPT ![id].look = look]
    PROVE  /\ DOMAIN roles' = DOMAIN roles
           /\ \A i \in DOMAIN roles :
                 roles'[i] = IF i = id THEN [name |-> roles[id].name, look |-> look] ELSE roles[i]
<1>1. /\ DOMAIN roles' = DOMAIN roles
      /\ \A i \in DOMAIN roles : roles'[i] = IF i = id THEN [roles[id] EXCEPT !.look = look] ELSE roles[i]
  OBVIOUS
<1>2. roles[id] = [name |-> roles[id].name, look |-> roles[id].look]
  BY DEF Typed, IsRole
<1>3. [roles[id] EXCEPT !.look = look] = [name |-> roles[id].name, look |-> look]
  BY <1>2
<1> QED BY <1>1, <1>3

LEMMA AskedTyped ==
    ASSUME Typed, NEW o \in Pending, Asks(o[1], o[2]), UNCHANGED system
    PROVE  Typed'
<1>1. CASE o[1] = "update"
  <2>1. UpdateRole(o[2])
    BY <1>1 DEF Asks
  <2> DEFINE id == run.ids[o[2]]
             look == [colour |-> run.desired[o[2]], mentionable |-> TRUE]
  <2>2. id \in DOMAIN roles /\ roles' = [roles EXCEPT ![id].look = look] /\ held' = held
    BY <2>1 DEF UpdateRole
  <2> HIDE DEF id, look
  <2>3. /\ DOMAIN roles' = DOMAIN roles
        /\ \A i \in DOMAIN roles :
              roles'[i] = IF i = id THEN [name |-> roles[id].name, look |-> look] ELSE roles[i]
    BY <2>2, NewLook
  <2> QED BY <2>2, <2>3 DEF Typed, IsRole
<1>2. CASE o[1] = "create"
  <2>1. CreateRole(o[2]) /\ o[2] \in Names
    BY <1>2 DEF Asks, Pending
  <2> QED BY <2>1 DEF CreateRole, Typed, IsRole
<1>3. CASE o[1] = "delete"
  <2>1. DeleteRole(o[2])
    BY <1>3 DEF Asks
  <2> QED BY <2>1 DEF DeleteRole, Typed, IsRole, Restrict
<1>4. CASE o[1] = "assign"
  <2>1. AssignRole(o[2]) \/ UNCHANGED discordVars
    BY <1>4 DEF Asks
  <2> QED BY <2>1 DEF AssignRole, discordVars, Typed, IsRole
<1>5. o[1] \in Kinds
  BY DEF Pending
<1> QED BY <1>1, <1>2, <1>3, <1>4, <1>5 DEF Kinds

LEMMA StartMatch == ASSUME NamesInv, MatchInv, Start PROVE MatchInv'
<1>1. PICK ids \in CurrentRoles :
        run' = [EmptyRun EXCEPT !.ids = ids,
                                !.looks = [n \in DOMAIN ids |-> roles[ids[n]].look],
                                !.others = Cardinality(DOMAIN roles) - Cardinality(DOMAIN ids)]
  BY DEF Start
<1>2. run'.ids = ids /\ run'.looks = [n \in DOMAIN ids |-> roles[ids[n]].look]
  BY <1>1 DEF EmptyRun
<1>3. at' = "members" /\ outcome' = "none" /\ UNCHANGED <<system, roles, held>>
  BY DEF Start, Go, discordVars
<1>4. /\ \A id \in DOMAIN roles : roles[id].name \in Names => roles[id].name \in DOMAIN ids
      /\ \A n \in DOMAIN ids : ids[n] \in DOMAIN roles /\ roles[ids[n]].name = n /\ n \in Names
  BY DEF CurrentRoles
<1>5. \A id \in DOMAIN roles : roles[id].name \in Names => ids[roles[id].name] = id
  BY <1>4, RolesAssumption DEF NamesInv, NoDuplicateRoles, RolesAssumption
<1>6. ReadIsTrue'
  BY <1>2, <1>3, <1>4, <1>5 DEF ReadIsTrue, IdsKnown
<1>7. Typed'
  BY <1>3 DEF MatchInv, Typed
<1> QED BY <1>3, <1>6, <1>7 DEF MatchInv, SuccessMeansMatch

LEMMA ReadMembersMatch == ASSUME NamesInv, MatchInv, ReadMembers PROVE MatchInv'
<1>1. at = "members" /\ UNCHANGED <<system, roles, held, quiet>>
  BY DEF ReadMembers, discordVars
<1>2. Typed'
  BY <1>1 DEF MatchInv, Typed
<1>3. CASE SystemUnreadable \/ TooManyRoles
  BY <1>2, <1>3, EndsWithoutPromise DEF SystemUnreadable, TooManyRoles
<1>4. CASE ~(SystemUnreadable \/ TooManyRoles)
  <2>1. PICK desired \in DesiredRoles : run' = [run EXCEPT !.desired = desired]
    BY <1>4 DEF ReadMembers
  <2>2. run'.desired = desired /\ run'.looks = run.looks /\ run'.ids = run.ids
    BY <2>1 DEF NamesInv, Shape, Fields
  <2>3. at' \in {"warn", "user roles"} /\ outcome' = outcome
    BY <1>4 DEF ReadMembers, Go
  <2>4. (run.desired \in DesiredRoles)'
    BY <1>1, <2>2 DEF DesiredRoles, NamesOf
  <2>5. ReadIsTrue => ReadIsTrue'
    BY <1>1, <2>2 DEF ReadIsTrue, IdsKnown
  <2> QED BY <1>1, <1>2, <2>3, <2>4, <2>5 DEF MatchInv, SuccessMeansMatch
<1> QED BY <1>3, <1>4

\* What is to be done, found from roles that are as they were read.
LEMMA PlanMade ==
    ASSUME Typed, ReadIsTrue, run.desired \in DesiredRoles
    PROVE  Enough(RoleOps(run.looks, run.desired, {roles[id].name : id \in held}))
<1> DEFINE ops == RoleOps(run.looks, run.desired, {roles[id].name : id \in held})
<1>1. /\ ops["create"] = DOMAIN run.desired \ DOMAIN run.ids
      /\ ops["delete"] = DOMAIN run.ids \ DOMAIN run.desired
      /\ ops["assign"] = DOMAIN run.desired \ {roles[id].name : id \in held}
      /\ ops["update"] = {n \in DOMAIN run.ids \intersect DOMAIN run.desired :
                            ShouldUpdate(run.looks[n], run.desired[n])}
  BY DEF RoleOps, ReadIsTrue
<1> HIDE DEF ops
<1>2. DOMAIN run.desired \subseteq Names
  BY DEF DesiredRoles, NamesOf, Typed
<1>3. ASSUME NEW n \in DOMAIN run.desired, n \notin ops["create"]
      PROVE  Fits(n, ops)
  BY <1>1, <1>3 DEF ReadIsTrue, Fits, ShouldUpdate
<1>4. ASSUME NEW n \in DOMAIN run.desired, n \notin ops["assign"]
      PROVE  n \in DOMAIN run.ids /\ run.ids[n] \in held
  <2>1. PICK id \in held : roles[id].name = n
    BY <1>1, <1>4
  <2> QED BY <1>2, <2>1 DEF Typed, ReadIsTrue, IdsKnown
<1>5. \A id \in DOMAIN roles : roles[id].name \in DOMAIN run.desired \union ops["delete"] \union {Other}
  BY <1>1 DEF Typed, IsRole, ReadIsTrue, IdsKnown
<1>6. IdsKnown
  BY DEF ReadIsTrue
<1>7. Enough(ops)
  BY <1>1, <1>3, <1>4, <1>5, <1>6 DEF Enough
<1> QED BY <1>7 DEF ops

LEMMA ReadUserRolesMatch == ASSUME NamesInv, MatchInv, ReadUserRoles PROVE MatchInv'
<1>1. at = "user roles" /\ UNCHANGED <<system, roles, held>>
  BY DEF ReadUserRoles, discordVars
<1>2. Typed'
  BY <1>1 DEF MatchInv, Typed
<1>3. PICK listed \in UserRoles :
        LET ops == RoleOps(run.looks, run.desired, {SeenRoles[id].name : id \in listed})
        IN  \/ Finish("unknown role")
            \/ /\ listed \subseteq DOMAIN SeenRoles
               /\ quiet' = (quiet /\ listed = held /\ Restrict(SeenRoles, listed) = Restrict(roles, held))
               /\ \/ ops = Nothing /\ Finish("up to date")
                  \/ /\ Go("confirm")
                     /\ run' = [run EXCEPT !.ops = ops, !.total = Count(ops), !.looks = <<>>]
                     /\ UNCHANGED <<promptVars, outcome>>
  BY DEF ReadUserRoles
<1> DEFINE ops == RoleOps(run.looks, run.desired, {SeenRoles[id].name : id \in listed})
<1>4. CASE Finish("unknown role")
  BY <1>2, <1>4, EndsWithoutPromise
<1>5. CASE ~Finish("unknown role")
  <2>1. ASSUME quiet' PROVE run.desired \in DesiredRoles /\ Enough(ops)
    <3>1. quiet /\ listed = held /\ Restrict(SeenRoles, held) = Restrict(roles, held)
      BY <1>3, <1>5, <2>1
    <3>2. \A id \in held : SeenRoles[id] = roles[id]
      BY <3>1 DEF Restrict
    <3>3. {SeenRoles[id].name : id \in listed} = {roles[id].name : id \in held}
      BY <3>1, <3>2
    <3>4. ReadIsTrue /\ run.desired \in DesiredRoles
      BY <1>1, <3>1 DEF MatchInv
    <3> QED BY <3>3, <3>4, PlanMade DEF MatchInv
  <2>2. CASE ops = Nothing /\ Finish("up to date")
    <3>1. quiet' => MatchesSystem
      BY <2>1, <2>2, NothingLeftMatches DEF MatchInv
    <3>2. quiet' => MatchesSystem'
      BY <1>1, <3>1 DEF MatchesSystem
    <3> QED BY <1>2, <2>2, <3>2 DEF MatchInv, SuccessMeansMatch, Finish
  <2>3. CASE ~(ops = Nothing /\ Finish("up to date"))
    <3>1. /\ at' = "confirm" /\ outcome' = outcome
          /\ run' = [run EXCEPT !.ops = ops, !.total = Count(ops), !.looks = <<>>]
      BY <1>3, <1>5, <2>3 DEF Go
    <3> HIDE DEF ops
    <3>2. run'.ops = ops /\ run'.ids = run.ids /\ run'.desired = run.desired
      BY <3>1 DEF NamesInv, Shape, Fields
    <3>3. quiet' => (run.desired \in DesiredRoles)'
      BY <1>1, <2>1, <3>2 DEF DesiredRoles
    <3>4. quiet' => Enough(run.ops)'
      BY <1>1, <2>1, <3>2 DEF Enough, IdsKnown, Fits
    <3> QED BY <1>1, <1>2, <3>1, <3>3, <3>4 DEF MatchInv, SuccessMeansMatch
  <2> QED BY <2>2, <2>3
<1> QED BY <1>4, <1>5

\* The dialog: a click moves the command on, or ends it.
LEMMA PromptMatch ==
    ASSUME NamesInv, MatchInv, ShowPrompt \/ WaitForComponent \/ (\E b : Click(b)) \/ ClickArrives
    PROVE  MatchInv'
<1>1. UNCHANGED <<system, discordVars, quiet>>
  BY DEF ShowPrompt, WaitForComponent, Click, ClickArrives
<1>2. Typed'
  BY <1>1 DEF MatchInv, Typed, discordVars
<1>3. ASSUME UNCHANGED <<run, outcome>>,
             at' = at \/ (at = "warn" /\ at' = "user roles") \/ (at = "confirm" /\ at' = "working")
      PROVE  MatchInv'
  BY <1>1, <1>3, SameWorldIsTrue DEF MatchInv, SuccessMeansMatch
<1>4. CASE ShowPrompt \/ WaitForComponent \/ \E b : Click(b)
  BY <1>3, <1>4 DEF ShowPrompt, WaitForComponent, Click
<1>5. CASE ClickArrives
  <2>1. PICK click \in clicks : ClickIgnored(click) \/ Confirm(click) \/ Deny(click)
    BY <1>5 DEF ClickArrives
  <2>2. CASE ClickIgnored(click)
    BY <1>3, <2>2 DEF ClickIgnored
  <2>3. CASE Confirm(click)
    <3>1. at \in Prompts /\ at' = (IF at = "warn" THEN "user roles" ELSE "working") /\ UNCHANGED <<run, outcome>>
      BY <2>3 DEF Confirm, Go, NamesInv, Shape
    <3> QED BY <1>3, <3>1 DEF Prompts
  <2>4. CASE Deny(click)
    BY <1>2, <2>4, EndsWithoutPromise DEF Deny
  <2> QED BY <2>1, <2>2, <2>3, <2>4
<1> QED BY <1>4, <1>5

\* An operation makes good what the plan had it for, and touches no role the
\* rest of the plan relies on.
LEMMA WorkLeavesEnough ==
    ASSUME Typed, Shape, Enough(run.ops), NEW o \in Pending, Asks(o[1], o[2]),
           run'.desired = run.desired, run'.ids = KnownIds(o[1], o[2]),
           run'.ops = [run.ops EXCEPT ![o[1]] = @ \ {o[2]}]
    PROVE  Enough(run.ops)'
<1> DEFINE n == o[2]
           id == run.ids[n]
<1>1. o[1] \in Kinds /\ n \in Names /\ n \in run.ops[o[1]] /\ DOMAIN run.ops = Kinds
  BY DEF Pending, Shape
<1>2. CASE o[1] = "update"
  <2>1. UpdateRole(n) /\ n \in run.ops["update"]
    BY <1>1, <1>2 DEF Asks
  <2>2. id \in DOMAIN roles /\ n \in DOMAIN run.ids /\ held' = held
    BY <2>1 DEF UpdateRole, Enough
  <2> DEFINE look == [colour |-> run.desired[n], mentionable |-> TRUE]
  <2>3. roles' = [roles EXCEPT ![id].look = look]
    BY <2>1 DEF UpdateRole
  <2>4. look.colour = run.desired[n] /\ look.mentionable
    OBVIOUS
  <2> HIDE DEF look
  <2>5. /\ DOMAIN roles' = DOMAIN roles
        /\ \A i \in DOMAIN roles :
              roles'[i] = IF i = id THEN [name |-> roles[id].name, look |-> look] ELSE roles[i]
    BY <2>2, <2>3, NewLook
  <2>6. /\ run'.ids = run.ids
        /\ run'.ops["update"] = run.ops["update"] \ {n}
        /\ \A k \in Kinds \ {"update"} : run'.ops[k] = run.ops[k]
    BY <1>1, <1>2 DEF KnownIds
  <2>7. IdsKnown'
    BY <2>5, <2>6 DEF Enough, IdsKnown
  <2>8. ASSUME NEW m \in DOMAIN run.desired, m \notin run.ops["create"]
        PROVE  Fits(m, run.ops)'
    <3>1. Fits(m, run.ops)
      BY <2>8 DEF Enough
    <3>2. m # n => run.ids[m] # id
      BY <2>2, <3>1 DEF Fits, Enough, IdsKnown
    <3> QED BY <2>4, <2>5, <2>6, <3>1, <3>2 DEF Fits
  <2>9. \A i \in DOMAIN roles' : roles'[i].name = roles[i].name
    BY <2>5
  <2> QED BY <2>2, <2>5, <2>6, <2>7, <2>8, <2>9 DEF Enough, Kinds
<1>3. CASE o[1] = "create"
  <2>1. CreateRole(n) /\ n \in run.ops["create"] /\ n \notin DOMAIN run.ids
    BY <1>1, <1>3 DEF Asks, Enough
  <2> DEFINE fresh == FreshId
  <2>2. fresh \notin DOMAIN roles /\ fresh \notin Range(run.ids)
    BY <2>1 DEF CreateRole, HasFreshId, FreshId
  <2>3. run'.ids = [m \in DOMAIN run.ids \union {n} |-> IF m \in DOMAIN run.ids THEN run.ids[m] ELSE fresh]
    BY <1>3 DEF KnownIds
  <2>4. /\ DOMAIN roles' = DOMAIN roles \union {fresh}
        /\ \A i \in DOMAIN roles : roles'[i] = roles[i]
        /\ roles'[fresh].name = n /\ roles'[fresh].look.colour = run.desired[n]
        /\ roles'[fresh].look.mentionable
        /\ held' = held
    BY <2>1, <2>2 DEF CreateRole
  <2> HIDE DEF fresh
  <2>5. /\ DOMAIN run'.ids = DOMAIN run.ids \union {n}
        /\ \A m \in DOMAIN run.ids : run'.ids[m] = run.ids[m] /\ run.ids[m] # fresh
        /\ run'.ids[n] = fresh
    BY <2>1, <2>2, <2>3 DEF Range
  <2>6. /\ run'.ops["create"] = run.ops["create"] \ {n}
        /\ \A k \in Kinds \ {"create"} : run'.ops[k] = run.ops[k]
    BY <1>1, <1>3
  <2>7. IdsKnown'
    BY <2>4, <2>5 DEF Enough, IdsKnown
  <2>8. ASSUME NEW m \in DOMAIN run.desired, m \notin run'.ops["create"]
        PROVE  Fits(m, run.ops)'
    <3>1. CASE m = n
      BY <2>4, <2>5, <3>1 DEF Fits
    <3>2. CASE m # n
      <4>1. Fits(m, run.ops)
        BY <2>6, <2>8, <3>2 DEF Enough
      <4> QED BY <2>4, <2>5, <2>6, <4>1 DEF Fits, Kinds
    <3> QED BY <3>1, <3>2
  <2>9. \A i \in DOMAIN roles' : roles'[i].name \in DOMAIN run.desired \union run.ops["delete"] \union {Other}
    BY <2>1, <2>4 DEF Enough
  <2>10. \A m \in DOMAIN run.desired :
            m \in run.ops["assign"] \/ (m \in DOMAIN run'.ids /\ run'.ids[m] \in held')
    BY <2>4, <2>5 DEF Enough
  <2>11. /\ run'.ops["create"] \subseteq DOMAIN run.desired \ DOMAIN run'.ids
         /\ run.ops["update"] \subseteq DOMAIN run'.ids
         /\ run.ops["delete"] \subseteq DOMAIN run'.ids \ DOMAIN run.desired
    BY <2>1, <2>5, <2>6 DEF Enough
  <2>12. run'.desired = run.desired /\ run'.ops["assign"] = run.ops["assign"]
         /\ run'.ops["update"] = run.ops["update"] /\ run'.ops["delete"] = run.ops["delete"]
    BY <1>1, <2>6 DEF Kinds
  <2> QED BY <2>7, <2>8, <2>9, <2>10, <2>11, <2>12 DEF Enough
<1>4. CASE o[1] = "delete"
  <2>1. DeleteRole(n) /\ n \in DOMAIN run.ids /\ n \notin DOMAIN run.desired
    BY <1>1, <1>4 DEF Asks, Enough
  <2>2. /\ id \in DOMAIN roles /\ roles[id].name = n
        /\ DOMAIN roles' = DOMAIN roles \ {id} /\ held' = held \ {id}
        /\ \A i \in DOMAIN roles' : roles'[i] = roles[i]
    BY <2>1 DEF DeleteRole, Restrict, Enough, IdsKnown
  <2>3. /\ run'.ids = run.ids
        /\ run'.ops["delete"] = run.ops["delete"] \ {n}
        /\ \A k \in Kinds \ {"delete"} : run'.ops[k] = run.ops[k]
    BY <1>1, <1>4 DEF KnownIds
  <2>4. IdsKnown'
    BY <2>2, <2>3 DEF Enough, IdsKnown
  <2>5. \A m \in DOMAIN run.desired :
            m \in DOMAIN run.ids /\ run.ids[m] \in DOMAIN roles => run.ids[m] # id
    BY <2>1, <2>2 DEF Enough, IdsKnown
  <2>6. ASSUME NEW m \in DOMAIN run.desired, m \notin run.ops["create"]
        PROVE  Fits(m, run.ops)'
    BY <2>2, <2>3, <2>5, <2>6 DEF Enough, Fits, Kinds
  <2>7. \A m \in DOMAIN run.desired :
            m \in run.ops["assign"] \/ (m \in DOMAIN run.ids /\ run.ids[m] \in held')
    BY <2>2, <2>5 DEF Enough, Typed
  <2>8. \A i \in DOMAIN roles' : roles'[i].name # n
    BY <1>1, <2>2 DEF Enough, IdsKnown
  <2> QED BY <2>2, <2>3, <2>4, <2>6, <2>7, <2>8 DEF Enough, Kinds
<1>5. CASE o[1] = "assign"
  <2>1. /\ run'.ids = run.ids
        /\ run'.ops["assign"] = run.ops["assign"] \ {n}
        /\ \A k \in Kinds \ {"assign"} : run'.ops[k] = run.ops[k]
    BY <1>1, <1>5 DEF KnownIds
  <2>2. run.ops["create"] = {}
    BY <1>5 DEF Pending, OpsLeft, Kinds
  <2>3. roles' = roles /\ held \subseteq held' /\ (n \in DOMAIN run.ids => id \in held')
    BY <1>5 DEF Asks, PassedOver, AssignRole, discordVars
  <2>4. IdsKnown'
    BY <2>1, <2>3 DEF Enough, IdsKnown
  <2>5. \A m \in DOMAIN run.desired : Fits(m, run.ops) /\ Fits(m, run.ops)'
    BY <2>1, <2>2, <2>3 DEF Enough, Fits, Kinds
  <2>6. \A m \in DOMAIN run.desired :
            m \in run'.ops["assign"] \/ (m \in DOMAIN run.ids /\ run.ids[m] \in held')
    BY <2>1, <2>3, <2>5 DEF Enough, Fits
  <2> QED BY <2>1, <2>3, <2>4, <2>5, <2>6 DEF Enough, Kinds
<1> QED BY <1>1, <1>2, <1>3, <1>4, <1>5 DEF Kinds

LEMMA WorkMatch == ASSUME NamesInv, MatchInv, Work PROVE MatchInv'
<1>1. PICK o \in Pending :
        /\ Asks(o[1], o[2])
        /\ run' = [run EXCEPT !.ops[o[1]] = @ \ {o[2]},
                              !.done[o[1]] = @ + (IF PassedOver(o[1], o[2]) THEN 0 ELSE 1),
                              !.ids = KnownIds(o[1], o[2])]
  BY DEF Work
<1>2. at = "working" /\ UNCHANGED <<system, at, outcome, quiet>>
  BY DEF Work
<1>3. Typed'
  BY <1>1, <1>2, AskedTyped DEF MatchInv
<1>4. /\ run'.desired = run.desired /\ run'.ids = KnownIds(o[1], o[2])
      /\ run'.ops = [run.ops EXCEPT ![o[1]] = @ \ {o[2]}]
  BY <1>1 DEF NamesInv, Shape, Fields
<1>5. quiet => Enough(run.ops)'
  BY <1>1, <1>2, <1>4, WorkLeavesEnough DEF MatchInv, NamesInv
<1>6. quiet => (run.desired \in DesiredRoles)'
  BY <1>2, <1>4 DEF MatchInv, DesiredRoles
<1> QED BY <1>2, <1>3, <1>5, <1>6 DEF MatchInv, SuccessMeansMatch

LEMMA EndsMatch == ASSUME NamesInv, MatchInv, Refused \/ Succeed \/ Fails PROVE MatchInv'
<1>1. CASE Refused
  <2>1. Typed'
    BY <1>1 DEF Refused, MatchInv, Typed, discordVars
  <2> QED BY <1>1, <2>1, EndsWithoutPromise DEF Refused
<1>2. CASE Succeed
  <2>1. /\ at = "working" /\ run.ops = Nothing /\ Finish("updated")
        /\ UNCHANGED <<system, roles, held, quiet>>
    BY <1>2 DEF Succeed, discordVars
  <2>2. quiet => MatchesSystem
    BY <2>1, NothingLeftMatches DEF MatchInv
  <2>3. quiet => MatchesSystem'
    BY <2>1, <2>2 DEF MatchesSystem
  <2>4. Typed'
    BY <2>1 DEF MatchInv, Typed
  <2> QED BY <2>1, <2>3, <2>4 DEF MatchInv, SuccessMeansMatch, Finish
<1>3. CASE Fails
  <2>1. UNCHANGED system /\ Finish("failed")
    BY <1>3 DEF Fails
  <2>2. Typed'
    <3>1. CASE UNCHANGED discordVars
      BY <2>1, <3>1 DEF MatchInv, Typed, discordVars
    <3>2. CASE \E o \in Pending : Asks(o[1], o[2])
      BY <2>1, <3>2, AskedTyped DEF MatchInv
    <3> QED BY <1>3, <3>1, <3>2 DEF Fails
  <2> QED BY <2>1, <2>2, EndsWithoutPromise
<1> QED BY <1>1, <1>2, <1>3

LEMMA OthersMatch ==
    ASSUME MatchInv, RoleEvents \/ MemberEvents \/ OthersChange \/ UNCHANGED vars
    PROVE  MatchInv'
<1>1. CASE RoleEvents \/ MemberEvents \/ UNCHANGED vars
  <2>1. UNCHANGED <<system, discordVars, run, at, outcome, quiet>>
    BY <1>1 DEF RoleEvents, MemberEvents, vars
  <2> QED BY <2>1, SameWorldIsTrue DEF MatchInv, SuccessMeansMatch
<1>2. CASE OthersChange
  <2>1. quiet' = FALSE /\ UNCHANGED <<at, outcome>>
    BY <1>2 DEF OthersChange
  <2>2. Typed'
    <3>1. ASSUME NEW members \in Systems \ {system}, SystemChanges(members)
          PROVE  Typed'
      <4>1. \A m \in DOMAIN members : members[m].name \in Names
        BY DEF Systems
      <4> QED BY <3>1, <4>1 DEF SystemChanges, MatchInv, Typed, discordVars
    <3>2. ASSUME NEW id \in DOMAIN roles, RoleChanges(id)
          PROVE  Typed'
      <4>1. CASE roles' = Restrict(roles, DOMAIN roles \ {id}) /\ held' = held \ {id}
        BY <3>2, <4>1 DEF RoleChanges, Restrict, MatchInv, Typed
      <4>2. CASE roles' = [roles EXCEPT ![id].name = Other] /\ held' = held
        <5>1. roles[id] = [name |-> roles[id].name, look |-> roles[id].look]
          BY DEF MatchInv, Typed, IsRole
        <5>2. [roles[id] EXCEPT !.name = Other] = [name |-> Other, look |-> roles[id].look]
          BY <5>1
        <5>3. DOMAIN roles' = DOMAIN roles
              /\ \A i \in DOMAIN roles :
                    roles'[i] = IF i = id THEN [name |-> Other, look |-> roles[id].look] ELSE roles[i]
          BY <4>2, <5>2
        <5>4. \A i \in DOMAIN roles' : IsRole(roles'[i])
          <6>1. Other \in Names \union {Other} /\ [name |-> Other, look |-> roles[id].look].name = Other
                /\ [name |-> Other, look |-> roles[id].look].look = roles[id].look
            OBVIOUS
          <6>2. IsRole([name |-> Other, look |-> roles[id].look])
            BY <6>1 DEF IsRole
          <6>3. \A i \in DOMAIN roles : IsRole(roles[i])
            BY DEF MatchInv, Typed
          <6> QED BY <5>3, <6>2, <6>3
        <5> QED BY <3>2, <4>2, <5>3, <5>4 DEF RoleChanges, MatchInv, Typed
      <4>3. CASE (\E look \in Looks : roles' = [roles EXCEPT ![id].look = look]) /\ held' = held
        <5>1. PICK look \in Looks : roles' = [roles EXCEPT ![id].look = look]
          BY <4>3
        <5>2. /\ DOMAIN roles' = DOMAIN roles
              /\ \A i \in DOMAIN roles :
                    roles'[i] = IF i = id THEN [name |-> roles[id].name, look |-> look] ELSE roles[i]
          BY <5>1, NewLook DEF MatchInv
        <5> QED BY <3>2, <4>3, <5>2 DEF RoleChanges, MatchInv, Typed, IsRole
      <4> QED BY <3>2, <4>1, <4>2, <4>3 DEF RoleChanges
    <3>3. ASSUME NEW id \in DOMAIN roles, UserRoleChanges(id)
          PROVE  Typed'
      BY <3>3 DEF UserRoleChanges, MatchInv, Typed
    <3> QED BY <1>2, <3>1, <3>2, <3>3 DEF OthersChange
  <2> QED BY <2>1, <2>2 DEF MatchInv, SuccessMeansMatch
<1> QED BY <1>1, <1>2

LEMMA InitMatch == Init => MatchInv
<1> SUFFICES ASSUME Init PROVE MatchInv
  OBVIOUS
<1>1. \A m \in DOMAIN system : system[m].name \in Names
  BY DEF Init, Systems
<1>2. \A id \in DOMAIN roles : IsRole(roles[id])
  BY DEF Init, IsRole
<1> QED BY <1>1, <1>2 DEF Init, Typed, MatchInv, SuccessMeansMatch

\* What /pk roles update says is true for any number of members, roles and
\* failures: done, or nothing to do, means the guild has the roles of the system
\* and the user holds them, unless somebody changed system or roles since the
\* command read them, or it read old roles of the user from the cache.
THEOREM SuccessIsTrue == Spec => []SuccessMeansMatch
<1>1. Init => NamesInv /\ MatchInv
  BY InitNames, InitMatch
<1>2. NamesInv /\ MatchInv /\ [Next]_vars => (NamesInv /\ MatchInv)'
  <2> SUFFICES ASSUME NamesInv, MatchInv, [Next]_vars PROVE NamesInv' /\ MatchInv'
    OBVIOUS
  <2>1. NamesInv'
    BY StartNames, ReadMembersNames, ReadUserRolesNames, PromptNames, WorkNames, EndsNames, OthersNames DEF Next
  <2>2. MatchInv'
    BY StartMatch, ReadMembersMatch, ReadUserRolesMatch, PromptMatch, WorkMatch, EndsMatch, OthersMatch DEF Next
  <2> QED BY <2>1, <2>2
<1>3. NamesInv /\ MatchInv => SuccessMeansMatch
  BY DEF MatchInv
<1> QED BY <1>1, <1>2, <1>3, PTL DEF Spec

-----------------------------------------------------------------------------
(* Types, in three parts: what the guild and the cache have, what the      *)
(* command works with, and the dialog.                                     *)

GuildTyped ==
    /\ IsPartial(system, Members, [name: Names, colour: Colours])
    /\ IsPartial(roles, RoleIds, Roles) /\ Cardinality(DOMAIN roles) <= RoleLimit
    /\ held \subseteq DOMAIN roles
    /\ IsPartial(cached_roles, RoleIds, Roles) /\ cached_held \subseteq RoleIds

\* Only roles of the system are created or updated, so their colour is known.
OpsTyped(ops, done, total) ==
    /\ ops \in [Kinds -> SUBSET Names] /\ {done, total} \subseteq [Kinds -> Nat]
    /\ \A k \in Kinds : done[k] + Cardinality(ops[k]) <= total[k]
RunTyped ==
    /\ IsPartial(run.ids, Names, RoleIds) /\ IsPartial(run.looks, Names, Looks)
    /\ IsPartial(run.desired, Names, Colours) /\ run.others \in Nat
    /\ OpsTyped(run.ops, run.done, run.total)
    /\ at \in {"confirm", "working"} =>
           run.ops["create"] \union run.ops["update"] \subseteq DOMAIN run.desired
    /\ at # "working" => \A k \in Kinds : run.done[k] = 0

DialogTyped ==
    /\ at \in Prompts \union {"idle", "members", "user roles", "working"}
    /\ shown \in Prompts \union {"text"}
    /\ waiting \in BOOLEAN /\ (waiting => at \in Prompts /\ shown = at)
    /\ clicks \subseteq [prompt: Prompts, button: {"confirm", "deny"}, number: 1..MaxClicks]
    /\ outcome \in Outcomes
    /\ clicked \in 0..MaxClicks /\ changes \in 0..MaxChanges /\ failures \in 0..MaxFailures
    /\ quiet \in BOOLEAN /\ approved \subseteq Prompts

TypeInv == GuildTyped /\ RunTyped /\ DialogTyped

LEMMA TypeInvImpliesTypeOK == TypeInv => TypeOK
<1> SUFFICES ASSUME TypeInv PROVE TypeOK
  OBVIOUS
<1>1. counters \in (0..MaxClicks) \X (0..MaxChanges) \X (0..MaxFailures)
  BY DEF TypeInv, DialogTyped, counters
<1> QED BY <1>1 DEF TypeInv, GuildTyped, RunTyped, OpsTyped, DialogTyped, TypeOK

LEMMA OpsAreFinite == \A S \in SUBSET Names : IsFiniteSet(S) /\ Cardinality(S) \in Nat
BY RolesAssumption, FS_Subset, FS_CardinalityType DEF RolesAssumption

LEMMA NothingTyped == OpsTyped(Nothing, Count(Nothing), Count(Nothing))
<1>1. \A k \in Kinds : Nothing[k] = {} /\ Count(Nothing)[k] = 0
  BY FS_EmptySet DEF Nothing, Count
<1>2. Nothing \in [Kinds -> SUBSET Names] /\ Count(Nothing) \in [Kinds -> Nat]
  BY FS_EmptySet DEF Nothing, Count
<1> QED BY <1>1, <1>2, FS_EmptySet DEF OpsTyped

LEMMA EmptyRunTyped ==
    ASSUME run' = EmptyRun
    PROVE  RunTyped'
<1>1. IsPartial(<<>>, Names, RoleIds) /\ IsPartial(<<>>, Names, Looks) /\ IsPartial(<<>>, Names, Colours)
  BY DEF IsPartial
<1>2. /\ run'.ids = <<>> /\ run'.looks = <<>> /\ run'.desired = <<>> /\ run'.others = 0
      /\ run'.ops = Nothing /\ run'.done = Count(Nothing) /\ run'.total = Count(Nothing)
  BY DEF EmptyRun
<1>3. /\ run'.ops["create"] = {} /\ run'.ops["update"] = {}
      /\ \A k \in Kinds : run'.done[k] = 0
  BY <1>2, FS_EmptySet DEF Nothing, Kinds, Count
<1> QED BY <1>1, <1>2, <1>3, NothingTyped DEF RunTyped

LEMMA DialogFinished ==
    ASSUME DialogTyped, NEW result \in Outcomes, Finish(result), quiet' \in BOOLEAN,
           UNCHANGED <<approved, clicked, changes>>, failures' \in 0..MaxFailures
    PROVE  DialogTyped'
BY DEF DialogTyped, Finish

LEMMA DialogSteps == ASSUME TypeInv, [Next]_vars PROVE DialogTyped'
<1> DialogTyped
  BY DEF TypeInv
<1> MaxClicks \in Nat /\ MaxChanges \in Nat /\ MaxFailures \in Nat
  BY RolesAssumption DEF RolesAssumption
<1> /\ quiet \in BOOLEAN
    /\ clicked \in 0..MaxClicks /\ changes \in 0..MaxChanges /\ failures \in 0..MaxFailures
  BY DEF DialogTyped
<1>1. CASE Start
  <2>1. /\ at = "idle" /\ at' = "members" /\ outcome' = "none" /\ clicked' = 0
        /\ quiet' = TRUE /\ approved' = {}
        /\ UNCHANGED <<shown, waiting, clicks, changes, failures>>
    BY <1>1 DEF Start, Go, promptVars
  <2>2. clicked' \in 0..MaxClicks /\ quiet' \in BOOLEAN
    BY <2>1
  <2> QED BY <2>1, <2>2 DEF DialogTyped, Outcomes, Prompts
<1>2. CASE ReadMembers
  <2>1. at = "members" /\ UNCHANGED <<clicked, changes, failures, quiet, approved>>
    BY <1>2 DEF ReadMembers, counters
  <2>2. CASE SystemUnreadable \/ TooManyRoles
    BY <2>1, <2>2, DialogFinished DEF SystemUnreadable, TooManyRoles, Outcomes
  <2>3. CASE ~(SystemUnreadable \/ TooManyRoles)
    <3>1. at' \in {"warn", "user roles"} /\ UNCHANGED <<shown, waiting, clicks, outcome>>
      BY <1>2, <2>3 DEF ReadMembers, Go, promptVars
    <3> QED BY <2>1, <3>1 DEF DialogTyped, Prompts
  <2> QED BY <2>2, <2>3
<1>3. CASE ReadUserRoles
  <2>1. at = "user roles" /\ UNCHANGED <<clicked, changes, failures, approved>>
    BY <1>3 DEF ReadUserRoles, counters
  <2>2. quiet' \in BOOLEAN
    BY <1>3 DEF ReadUserRoles
  <2>3. CASE Finish("unknown role") \/ Finish("up to date")
    BY <2>1, <2>2, <2>3, DialogFinished DEF Outcomes
  <2>4. CASE ~(Finish("unknown role") \/ Finish("up to date"))
    <3>1. at' = "confirm" /\ UNCHANGED <<shown, waiting, clicks, outcome>>
      BY <1>3, <2>4 DEF ReadUserRoles, Go, promptVars
    <3> QED BY <2>1, <2>2, <3>1 DEF DialogTyped, Prompts
  <2> QED BY <2>3, <2>4
<1>4. CASE ShowPrompt
  <2>1. at \in Prompts /\ shown # at /\ shown' = at
        /\ UNCHANGED <<at, waiting, clicks, outcome, clicked, changes, failures, quiet, approved>>
    BY <1>4 DEF ShowPrompt, counters
  <2> QED BY <2>1 DEF DialogTyped
<1>5. CASE WaitForComponent
  <2>1. at \in Prompts /\ shown = at /\ waiting' = TRUE
        /\ UNCHANGED <<at, shown, clicks, outcome, clicked, changes, failures, quiet, approved>>
    BY <1>5 DEF WaitForComponent, counters
  <2> QED BY <2>1 DEF DialogTyped
<1>6. ASSUME NEW button \in {"confirm", "deny"}, Click(button) PROVE DialogTyped'
  <2> DEFINE click == [prompt |-> shown, button |-> button, number |-> clicked']
  <2>1. /\ shown \in Prompts /\ clicked < MaxClicks /\ clicked' = clicked + 1
        /\ clicks' = clicks \union {click}
        /\ UNCHANGED <<at, shown, waiting, outcome, changes, failures, quiet, approved>>
    BY <1>6 DEF Click
  <2>2. clicked' \in 1..MaxClicks /\ clicked' \in 0..MaxClicks
    <3>1. clicked < MaxClicks /\ clicked' = clicked + 1
      BY <2>1
    <3> QED BY <3>1
  <2>3. click \in [prompt: Prompts, button: {"confirm", "deny"}, number: 1..MaxClicks]
    BY <2>1, <2>2
  <2> HIDE DEF click
  <2> QED BY <2>1, <2>2, <2>3 DEF DialogTyped
<1>7. CASE ClickArrives
  <2>1. UNCHANGED <<clicked, changes, failures, quiet>>
    BY <1>7 DEF ClickArrives, counters
  <2>2. PICK click \in clicks : ClickIgnored(click) \/ Confirm(click) \/ Deny(click)
    BY <1>7 DEF ClickArrives
  <2>3. CASE ClickIgnored(click)
    <3>1. clicks' \subseteq clicks /\ UNCHANGED <<at, shown, waiting, outcome, approved>>
      BY <2>3 DEF ClickIgnored
    <3> QED BY <2>1, <3>1 DEF DialogTyped
  <2>4. CASE Confirm(click)
    <3>1. /\ waiting' = FALSE /\ clicks' \subseteq clicks /\ at' \in {"user roles", "working"}
          /\ approved' = approved \union {click.prompt} /\ UNCHANGED <<shown, outcome>>
      BY <2>4 DEF Confirm, Go
    <3>2. click.prompt \in Prompts
      BY DEF DialogTyped
    <3> QED BY <2>1, <3>1, <3>2 DEF DialogTyped
  <2>5. CASE Deny(click)
    BY <2>1, <2>5, DialogFinished DEF Deny, Outcomes
  <2> QED BY <2>2, <2>3, <2>4, <2>5
<1>8. CASE Work
  <2>1. at = "working" /\ shown' = "text"
        /\ UNCHANGED <<at, waiting, clicks, outcome, clicked, changes, failures, quiet, approved>>
    BY <1>8 DEF Work, ShowProgress, counters
  <2> QED BY <2>1 DEF DialogTyped, Prompts
<1>9. CASE Refused \/ Succeed
  BY <1>9, DialogFinished DEF Refused, Succeed, Outcomes, counters
<1>10. CASE Fails
  <2>1. failures < MaxFailures /\ failures' = failures + 1 /\ Finish("failed")
        /\ UNCHANGED <<clicked, changes, quiet, approved>>
    BY <1>10 DEF Fails
  <2>2. failures' \in 0..MaxFailures
    BY <2>1
  <2> QED BY <2>1, <2>2, DialogFinished DEF Outcomes
<1>11. CASE RoleEvents \/ MemberEvents \/ UNCHANGED vars
  <2>1. UNCHANGED <<at, shown, waiting, clicks, outcome, clicked, changes, failures, quiet, approved>>
    BY <1>11 DEF RoleEvents, MemberEvents, vars, promptVars, counters
  <2> QED BY <2>1 DEF DialogTyped
<1>12. CASE OthersChange
  <2>1. changes < MaxChanges /\ changes' = changes + 1 /\ quiet' = FALSE
        /\ UNCHANGED <<at, shown, waiting, clicks, outcome, clicked, failures, approved>>
    BY <1>12 DEF OthersChange, promptVars
  <2>2. changes' \in 0..MaxChanges
    <3>1. changes < MaxChanges /\ changes' = changes + 1
      BY <2>1
    <3> QED BY <3>1
  <2> QED BY <2>1, <2>2 DEF DialogTyped
<1> QED BY <1>1, <1>2, <1>3, <1>4, <1>5, <1>6, <1>7, <1>8, <1>9, <1>10, <1>11, <1>12 DEF Next

\* What is asked of Discord has the colour of a member.
LEMMA AsksKeepsRoles ==
    ASSUME TypeInv, at = "working", NEW o \in Pending, Asks(o[1], o[2])
    PROVE  /\ IsPartial(roles, RoleIds, Roles)' /\ Cardinality(DOMAIN roles') <= RoleLimit
           /\ held' \subseteq DOMAIN roles'
<1> USE DEF TypeInv, GuildTyped, RunTyped
<1> DEFINE n == o[2]
           id == run.ids[n]
           look == [colour |-> run.desired[n], mentionable |-> TRUE]
<1>1. n \in Names /\ o[1] \in Kinds /\ n \in run.ops[o[1]]
  BY DEF Pending
<1>2. ASSUME o[1] \in {"create", "update"} PROVE look \in Looks
  <2>1. run.desired[n] \in Colours
    BY <1>1, <1>2 DEF IsPartial
  <2> QED BY <2>1 DEF Looks
<1>3. IsFiniteSet(DOMAIN roles) /\ Cardinality(DOMAIN roles) \in Nat /\ RoleLimit \in Nat
  BY RolesAssumption, FS_Subset, FS_CardinalityType DEF RolesAssumption, IsPartial
<1>4. ASSUME NEW x \in Names \union {Other}, NEW y \in Looks
      PROVE  [name |-> x, look |-> y] \in Roles
  BY DEF Roles
<1>5. CASE o[1] = "update"
  <2>1. UpdateRole(n)
    BY <1>5 DEF Asks
  <2>2. id \in DOMAIN roles /\ roles' = [roles EXCEPT ![id].look = look] /\ held' = held
    BY <2>1 DEF UpdateRole
  <2>3. roles[id] \in Roles /\ look \in Looks
    BY <1>2, <1>5, <2>2 DEF IsPartial
  <2> HIDE DEF id, look
  <2>4. [roles[id] EXCEPT !.look = look] \in Roles
    BY <2>3 DEF Roles
  <2>5. DOMAIN roles' = DOMAIN roles
        /\ \A i \in DOMAIN roles : roles'[i] = IF i = id THEN [roles[id] EXCEPT !.look = look] ELSE roles[i]
    BY <2>2
  <2> QED BY <2>2, <2>4, <2>5 DEF IsPartial
<1>6. CASE o[1] = "create"
  <2>1. CreateRole(n) /\ look \in Looks
    BY <1>2, <1>6 DEF Asks
  <2> DEFINE fresh == FreshId
  <2>2. fresh \in RoleIds \ DOMAIN roles
    BY <2>1 DEF CreateRole, HasFreshId, FreshId
  <2>3. /\ DOMAIN roles' = DOMAIN roles \union {fresh} /\ held' = held
        /\ roles'[fresh] = [name |-> n, look |-> look]
        /\ \A i \in DOMAIN roles : roles'[i] = roles[i]
        /\ Cardinality(DOMAIN roles) < RoleLimit
    BY <2>1, <2>2 DEF CreateRole
  <2> HIDE DEF fresh, look
  <2>4. roles'[fresh] \in Roles
    BY <1>1, <1>4, <2>1, <2>3
  <2>5. Cardinality(DOMAIN roles') = Cardinality(DOMAIN roles) + 1
    BY <1>3, <2>2, <2>3, FS_AddElement
  <2> QED BY <1>3, <2>2, <2>3, <2>4, <2>5 DEF IsPartial
<1>7. CASE o[1] = "delete"
  <2>1. /\ id \in DOMAIN roles /\ DOMAIN roles' = DOMAIN roles \ {id} /\ held' = held \ {id}
        /\ \A i \in DOMAIN roles' : roles'[i] = roles[i]
    BY <1>7 DEF Asks, DeleteRole, Restrict
  <2> HIDE DEF id
  <2>2. Cardinality(DOMAIN roles') <= Cardinality(DOMAIN roles) /\ Cardinality(DOMAIN roles') \in Nat
    BY <1>3, <2>1, FS_Subset, FS_CardinalityType
  <2> QED BY <1>3, <2>1, <2>2 DEF IsPartial
<1>8. CASE o[1] = "assign"
  <2>1. UNCHANGED roles /\ (held' = held \/ (id \in DOMAIN roles /\ held' = held \union {id}))
    BY <1>8 DEF Asks, AssignRole, discordVars
  <2> QED BY <2>1
<1> QED BY <1>1, <1>5, <1>6, <1>7, <1>8 DEF Kinds

LEMMA GuildSteps == ASSUME TypeInv, [Next]_vars PROVE GuildTyped'
<1> GuildTyped
  BY DEF TypeInv
<1>1. ASSUME UNCHANGED <<system, discordVars, cacheVars>> PROVE GuildTyped'
  BY <1>1 DEF GuildTyped, discordVars, cacheVars
<1>2. CASE Start \/ ReadMembers \/ ReadUserRoles \/ ShowPrompt \/ WaitForComponent \/ (\E b : Click(b))
            \/ ClickArrives \/ Refused \/ Succeed \/ UNCHANGED vars
  BY <1>1, <1>2 DEF Start, ReadMembers, ReadUserRoles, ShowPrompt, WaitForComponent, Click,
                    ClickArrives, Refused, Succeed, vars
<1>3. ASSUME at = "working", NEW o \in Pending, Asks(o[1], o[2]), UNCHANGED <<system, cacheVars>>
      PROVE  GuildTyped'
  BY <1>3, AsksKeepsRoles DEF GuildTyped, cacheVars
<1>4. CASE Work
  <2>1. \E o \in Pending : Asks(o[1], o[2])
    BY <1>4 DEF Work
  <2> QED BY <1>3, <1>4, <2>1 DEF Work
<1>5. CASE Fails
  BY <1>1, <1>3, <1>5 DEF Fails
<1>6. CASE RoleEvents \/ MemberEvents
  <2>1. DOMAIN roles \subseteq RoleIds
    BY DEF GuildTyped, IsPartial
  <2> QED BY <1>6, <2>1 DEF RoleEvents, MemberEvents, GuildTyped, discordVars
<1>7. CASE OthersChange
  <2>1. UNCHANGED cacheVars
    BY <1>7 DEF OthersChange
  <2>2. ASSUME NEW members \in Systems, SystemChanges(members) PROVE GuildTyped'
    <3>1. IsPartial(members, Members, [name: Names, colour: Colours])
      BY DEF Systems, IsPartial
    <3> QED BY <2>1, <2>2, <3>1 DEF SystemChanges, GuildTyped, discordVars, cacheVars
  <2>3. ASSUME NEW id \in DOMAIN roles, RoleChanges(id) PROVE GuildTyped'
    <3>1. roles[id] \in Roles
      BY DEF GuildTyped, IsPartial
    <3>2. IsFiniteSet(DOMAIN roles) /\ Cardinality(DOMAIN roles) \in Nat /\ RoleLimit \in Nat
      BY RolesAssumption, FS_Subset, FS_CardinalityType DEF RolesAssumption, GuildTyped, IsPartial
    <3>3. CASE roles' = Restrict(roles, DOMAIN roles \ {id}) /\ held' = held \ {id}
      <4>1. DOMAIN roles' = DOMAIN roles \ {id} /\ \A i \in DOMAIN roles' : roles'[i] = roles[i]
        BY <3>3 DEF Restrict
      <4>2. Cardinality(DOMAIN roles') <= Cardinality(DOMAIN roles) /\ Cardinality(DOMAIN roles') \in Nat
        BY <3>2, <4>1, FS_Subset, FS_CardinalityType
      <4>3. IsPartial(roles', RoleIds, Roles)
        BY <4>1 DEF GuildTyped, IsPartial
      <4>4. Cardinality(DOMAIN roles') <= RoleLimit
        BY <3>2, <4>2 DEF GuildTyped
      <4>5. held' \subseteq DOMAIN roles'
        BY <3>3, <4>1 DEF GuildTyped
      <4>6. UNCHANGED <<system, cached_roles, cached_held>>
        BY <2>1, <2>3 DEF RoleChanges, cacheVars
      <4> QED BY <4>3, <4>4, <4>5, <4>6 DEF GuildTyped, IsPartial
    <3>4. ASSUME NEW role \in Roles, roles' = [roles EXCEPT ![id] = role], UNCHANGED <<held, system>>
          PROVE  GuildTyped'
      BY <2>1, <3>4 DEF GuildTyped, IsPartial, cacheVars
    <3>5. CASE roles' = [roles EXCEPT ![id].name = Other] /\ held' = held
      <4>1. [roles[id] EXCEPT !.name = Other] \in Roles
        BY <3>1 DEF Roles
      <4>2. roles' = [roles EXCEPT ![id] = [roles[id] EXCEPT !.name = Other]]
        BY <3>5
      <4> QED BY <2>3, <3>4, <3>5, <4>1, <4>2 DEF RoleChanges
    <3>6. CASE (\E look \in Looks : roles' = [roles EXCEPT ![id].look = look]) /\ held' = held
      <4>1. PICK look \in Looks : roles' = [roles EXCEPT ![id].look = look]
        BY <3>6
      <4>2. [roles[id] EXCEPT !.look = look] \in Roles
        BY <3>1 DEF Roles
      <4>3. roles' = [roles EXCEPT ![id] = [roles[id] EXCEPT !.look = look]]
        BY <4>1
      <4> QED BY <2>3, <3>4, <3>6, <4>2, <4>3 DEF RoleChanges
    <3> QED BY <2>3, <3>3, <3>5, <3>6 DEF RoleChanges
  <2>4. ASSUME NEW id \in DOMAIN roles, UserRoleChanges(id) PROVE GuildTyped'
    BY <2>1, <2>4 DEF UserRoleChanges, GuildTyped, cacheVars
  <2> QED BY <1>7, <2>2, <2>3, <2>4 DEF OthersChange
<1> QED BY <1>2, <1>4, <1>5, <1>6, <1>7 DEF Next

\* Of the names in the guild the command has one id each.
LEMMA StartRun == ASSUME TypeInv, Start PROVE RunTyped'
<1>1. PICK ids \in CurrentRoles :
        run' = [EmptyRun EXCEPT !.ids = ids,
                                !.looks = [n \in DOMAIN ids |-> roles[ids[n]].look],
                                !.others = Cardinality(DOMAIN roles) - Cardinality(DOMAIN ids)]
  BY DEF Start
<1>2. /\ run'.ids = ids /\ run'.looks = [n \in DOMAIN ids |-> roles[ids[n]].look]
      /\ run'.others = Cardinality(DOMAIN roles) - Cardinality(DOMAIN ids)
      /\ run'.desired = <<>> /\ run'.ops = Nothing
      /\ run'.done = Count(Nothing) /\ run'.total = Count(Nothing)
  BY <1>1 DEF EmptyRun
<1>3. /\ ids \in [DOMAIN ids -> DOMAIN roles] /\ DOMAIN ids \subseteq Names
      /\ \A n \in DOMAIN ids : roles[ids[n]].name = n
  BY DEF CurrentRoles
<1>4. /\ DOMAIN roles \subseteq RoleIds /\ IsFiniteSet(DOMAIN roles)
      /\ \A id \in DOMAIN roles : roles[id] \in Roles
  BY RolesAssumption, FS_Subset DEF RolesAssumption, TypeInv, GuildTyped, IsPartial
<1>5. run'.others \in Nat
  <2>1. ids \in Injection(DOMAIN ids, DOMAIN roles)
    BY <1>3 DEF Injection, IsInjective
  <2>2. IsFiniteSet(DOMAIN ids) /\ Cardinality(DOMAIN ids) <= Cardinality(DOMAIN roles)
    BY <1>4, <2>1, FS_Injection
  <2> QED BY <1>2, <1>4, <2>2, FS_CardinalityType
<1>6. IsPartial(ids, Names, RoleIds)
  BY <1>3, <1>4 DEF IsPartial
<1>7. IsPartial(run'.looks, Names, Looks)
  <2>1. \A n \in DOMAIN ids : roles[ids[n]].look \in Looks
    BY <1>3, <1>4 DEF Roles
  <2> QED BY <1>2, <1>3, <2>1 DEF IsPartial
<1>8. IsPartial(<<>>, Names, Colours)
  BY DEF IsPartial
<1>9. /\ run'.ops["create"] = {} /\ run'.ops["update"] = {}
      /\ \A k \in Kinds : run'.done[k] = 0
  BY <1>2, FS_EmptySet DEF Nothing, Kinds, Count
<1> QED BY <1>2, <1>5, <1>6, <1>7, <1>8, <1>9, NothingTyped DEF RunTyped

LEMMA ReadMembersRun == ASSUME TypeInv, NamesInv, ReadMembers PROVE RunTyped'
<1>1. CASE SystemUnreadable \/ TooManyRoles
  BY <1>1, EmptyRunTyped DEF SystemUnreadable, TooManyRoles, Finish
<1>2. CASE ~(SystemUnreadable \/ TooManyRoles)
  <2>1. at = "members" /\ at' \in {"warn", "user roles"} /\ \E desired \in DesiredRoles : run' = [run EXCEPT !.desired = desired]
    BY <1>2 DEF ReadMembers, Go
  <2>2. PICK desired \in DesiredRoles : run' = [run EXCEPT !.desired = desired]
    BY <2>1
  <2>3. /\ run'.desired = desired
        /\ \A f \in Fields \ {"desired"} : run'[f] = run[f]
    BY <2>2 DEF NamesInv, Shape, Fields
  <2>4. IsPartial(desired, Names, Colours)
    BY DEF DesiredRoles, NamesOf, IsPartial, TypeInv, GuildTyped
  <2>5. /\ run'.ids = run.ids /\ run'.looks = run.looks /\ run'.others = run.others
        /\ run'.ops = run.ops /\ run'.done = run.done /\ run'.total = run.total
    BY <2>3 DEF Fields
  <2> QED BY <2>1, <2>3, <2>4, <2>5 DEF RunTyped, TypeInv
<1> QED BY <1>1, <1>2

LEMMA ReadUserRolesRun == ASSUME TypeInv, NamesInv, ReadUserRoles PROVE RunTyped'
<1>1. PICK listed \in UserRoles :
        LET ops == RoleOps(run.looks, run.desired, {SeenRoles[id].name : id \in listed})
        IN  \/ \E result : Finish(result)
            \/ Go("confirm") /\ run' = [run EXCEPT !.ops = ops, !.total = Count(ops), !.looks = <<>>]
  BY DEF ReadUserRoles
<1>2. at = "user roles"
  BY DEF ReadUserRoles
<1> DEFINE ops == RoleOps(run.looks, run.desired, {SeenRoles[id].name : id \in listed})
<1>3. CASE \E result : Finish(result)
  BY <1>3, EmptyRunTyped DEF Finish
<1>4. CASE ~\E result : Finish(result)
  <2>1. run' = [run EXCEPT !.ops = ops, !.total = Count(ops), !.looks = <<>>]
    BY <1>1, <1>4
  <2>2. DOMAIN run.looks \subseteq Names /\ DOMAIN run.desired \subseteq Names
    BY DEF TypeInv, RunTyped, IsPartial
  <2>3. /\ ops \in [Kinds -> SUBSET Names]
        /\ ops["create"] \union ops["update"] \subseteq DOMAIN run.desired
    BY <2>2 DEF RoleOps, Kinds
  <2> HIDE DEF ops
  <2>4. /\ run'.ids = run.ids /\ run'.looks = <<>> /\ run'.desired = run.desired
        /\ run'.others = run.others /\ run'.ops = ops /\ run'.total = Count(ops) /\ run'.done = run.done
    BY <2>1 DEF NamesInv, Shape, Fields
  <2>5. Count(ops) \in [Kinds -> Nat] /\ \A k \in Kinds : Count(ops)[k] = Cardinality(ops[k])
    BY <2>3, OpsAreFinite DEF Count
  <2>6. IsPartial(<<>>, Names, Looks)
    BY DEF IsPartial
  <2>7. OpsTyped(ops, run.done, Count(ops)) /\ \A k \in Kinds : run.done[k] = 0
    <3>1. run.done \in [Kinds -> Nat] /\ \A k \in Kinds : run.done[k] = 0
      BY <1>2 DEF TypeInv, RunTyped, OpsTyped
    <3>2. \A k \in Kinds : Count(ops)[k] = Cardinality(ops[k]) /\ Cardinality(ops[k]) \in Nat
      BY <2>3, <2>5, OpsAreFinite
    <3> QED BY <2>3, <2>5, <3>1, <3>2 DEF OpsTyped
  <2> QED BY <2>3, <2>4, <2>6, <2>7 DEF TypeInv, RunTyped
<1> QED BY <1>3, <1>4

LEMMA WorkRun == ASSUME TypeInv, NamesInv, Work PROVE RunTyped'
<1>1. PICK o \in Pending :
        /\ Asks(o[1], o[2])
        /\ run' = [run EXCEPT !.ops[o[1]] = @ \ {o[2]},
                              !.done[o[1]] = @ + (IF PassedOver(o[1], o[2]) THEN 0 ELSE 1),
                              !.ids = KnownIds(o[1], o[2])]
  BY DEF Work
<1> DEFINE k == o[1]
           n == o[2]
           more == IF PassedOver(k, n) THEN 0 ELSE 1
<1>2. at = "working" /\ at' = at
  BY DEF Work
<1>3. k \in Kinds /\ n \in Names /\ n \in run.ops[k]
  BY DEF Pending
<1>4. /\ run'.ids = KnownIds(k, n) /\ run'.looks = run.looks /\ run'.desired = run.desired
      /\ run'.others = run.others /\ run'.total = run.total
      /\ run'.ops = [run.ops EXCEPT ![k] = @ \ {n}]
      /\ run'.done = [run.done EXCEPT ![k] = @ + more]
  BY <1>1 DEF NamesInv, Shape, Fields
<1>5. more \in {0, 1}
  OBVIOUS
<1>6. IsPartial(KnownIds(k, n), Names, RoleIds)
  <2>1. CASE k = "create"
    <3>1. CreateRole(n)
      BY <1>1, <2>1 DEF Asks
    <3>2. FreshId \in RoleIds
      BY <3>1 DEF CreateRole, HasFreshId, FreshId
    <3> QED BY <1>3, <2>1, <3>2 DEF KnownIds, IsPartial, TypeInv, RunTyped
  <2>2. CASE k # "create"
    BY <2>2 DEF KnownIds, TypeInv, RunTyped
  <2> QED BY <2>1, <2>2
<1> HIDE DEF k, n, more
<1>7. OpsTyped(run.ops, run.done, run.total)
  BY DEF TypeInv, RunTyped
<1>8. OpsTyped(run'.ops, run'.done, run'.total)
  <2>1. run'.ops \in [Kinds -> SUBSET Names] /\ {run'.done, run'.total} \subseteq [Kinds -> Nat]
    BY <1>3, <1>4, <1>5, <1>7 DEF OpsTyped
  <2>2. ASSUME NEW j \in Kinds PROVE run'.done[j] + Cardinality(run'.ops[j]) <= run'.total[j]
    <3>1. /\ run.done[j] \in Nat /\ run.total[j] \in Nat /\ Cardinality(run.ops[j]) \in Nat
          /\ IsFiniteSet(run.ops[j]) /\ run.done[j] + Cardinality(run.ops[j]) <= run.total[j]
      BY <1>7, OpsAreFinite DEF OpsTyped
    <3>2. CASE j = k
      <4>1. run'.done[j] = run.done[j] + more /\ run'.ops[j] = run.ops[j] \ {n}
        BY <1>4, <1>7, <3>2 DEF OpsTyped
      <4>2. Cardinality(run'.ops[j]) = Cardinality(run.ops[j]) - 1
        <5>1. n \in run.ops[j] /\ IsFiniteSet(run.ops[j])
          BY <1>3, <3>1, <3>2
        <5>2. Cardinality(run.ops[j] \ {n}) = Cardinality(run.ops[j]) - 1
          BY <5>1, FS_RemoveElement
        <5> QED BY <4>1, <5>2
      <4> QED BY <1>4, <1>5, <3>1, <4>1, <4>2
    <3>3. CASE j # k
      <4>1. run'.done[j] = run.done[j] /\ run'.ops[j] = run.ops[j]
        BY <1>4, <1>7, <3>3 DEF OpsTyped
      <4> QED BY <1>4, <3>1, <4>1
    <3> QED BY <3>2, <3>3
  <2> QED BY <2>1, <2>2 DEF OpsTyped
<1>9. run'.ops["create"] \union run'.ops["update"] \subseteq run.ops["create"] \union run.ops["update"]
  BY <1>4, <1>7 DEF OpsTyped, Kinds
<1> QED BY <1>2, <1>4, <1>6, <1>8, <1>9 DEF TypeInv, RunTyped

LEMMA RunSteps == ASSUME TypeInv, NamesInv, [Next]_vars PROVE RunTyped'
<1>1. ASSUME UNCHANGED run,
             \/ at' = at
             \/ at # "working" /\ at' \notin {"confirm", "working"}
             \/ at = "confirm" /\ at' = "working"
      PROVE  RunTyped'
  BY <1>1 DEF TypeInv, RunTyped
<1>2. ASSUME NEW result, Finish(result) PROVE RunTyped'
  BY <1>2, EmptyRunTyped DEF Finish
<1>3. CASE ShowPrompt \/ WaitForComponent \/ (\E b : Click(b)) \/ RoleEvents \/ MemberEvents
           \/ OthersChange \/ UNCHANGED vars
  <2>1. run' = run /\ at' = at
    BY <1>3 DEF ShowPrompt, WaitForComponent, Click, RoleEvents, MemberEvents, OthersChange, vars
  <2> QED BY <1>1, <2>1
<1>4. CASE ClickArrives
  <2>1. PICK click \in clicks : ClickIgnored(click) \/ Confirm(click) \/ Deny(click)
    BY <1>4 DEF ClickArrives
  <2>2. CASE ClickIgnored(click)
    BY <1>1, <2>2 DEF ClickIgnored
  <2>3. CASE Confirm(click)
    <3>1. at \in Prompts /\ at' = (IF at = "warn" THEN "user roles" ELSE "working") /\ run' = run
      BY <2>3 DEF Confirm, Go, NamesInv, Shape
    <3> QED BY <1>1, <3>1 DEF Prompts
  <2>4. CASE Deny(click)
    BY <1>2, <2>4 DEF Deny
  <2> QED BY <2>1, <2>2, <2>3, <2>4
<1>5. CASE Refused \/ Succeed \/ Fails
  BY <1>2, <1>5 DEF Refused, Succeed, Fails
<1> QED BY <1>3, <1>4, <1>5, StartRun, ReadMembersRun, ReadUserRolesRun, WorkRun DEF Next

LEMMA InitTyped == Init => TypeInv
<1> SUFFICES ASSUME Init PROVE TypeInv
  OBVIOUS
<1>1. IsPartial(system, Members, [name: Names, colour: Colours])
  BY DEF Init, Systems, IsPartial
<1>2. PICK ids \in SUBSET OwnRoles, look \in Looks : roles = [id \in ids |-> [name |-> Other, look |-> look]]
  BY DEF Init
<1>3. [name |-> Other, look |-> look] \in Roles
  BY DEF Roles
<1>4. IsPartial(roles, RoleIds, Roles)
  BY <1>2, <1>3, RolesAssumption DEF IsPartial, RolesAssumption
<1>5. Cardinality(DOMAIN roles) <= RoleLimit
  <2>1. IsFiniteSet(OwnRoles) /\ RoleLimit \in Nat /\ Cardinality(OwnRoles) <= RoleLimit
    BY RolesAssumption, FS_Subset DEF RolesAssumption
  <2>2. /\ IsFiniteSet(DOMAIN roles) /\ Cardinality(DOMAIN roles) <= Cardinality(OwnRoles)
    BY <1>2, <2>1, FS_Subset
  <2> QED BY <2>1, <2>2, FS_CardinalityType
<1>6. GuildTyped
  BY <1>1, <1>4, <1>5 DEF Init, GuildTyped
<1>7. run = EmptyRun /\ at = "idle"
  BY DEF Init
<1>8. RunTyped
  <2>1. IsPartial(<<>>, Names, RoleIds) /\ IsPartial(<<>>, Names, Looks) /\ IsPartial(<<>>, Names, Colours)
    BY DEF IsPartial
  <2>2. /\ run.ids = <<>> /\ run.looks = <<>> /\ run.desired = <<>> /\ run.others = 0
        /\ run.ops = Nothing /\ run.done = Count(Nothing) /\ run.total = Count(Nothing)
    BY <1>7 DEF EmptyRun
  <2>3. \A k \in Kinds : run.done[k] = 0
    BY <2>2, FS_EmptySet DEF Nothing, Count
  <2> QED BY <1>7, <2>1, <2>2, <2>3, NothingTyped DEF RunTyped
<1>9. MaxClicks \in Nat /\ MaxChanges \in Nat /\ MaxFailures \in Nat
  BY RolesAssumption DEF RolesAssumption
<1>10. DialogTyped
  <2>1. clicked \in 0..MaxClicks /\ changes \in 0..MaxChanges /\ failures \in 0..MaxFailures
    BY <1>9 DEF Init
  <2> QED BY <2>1 DEF Init, DialogTyped, Outcomes
<1> QED BY <1>6, <1>8, <1>10 DEF TypeInv

LEMMA NamesAndTypes == Spec => [](NamesInv /\ TypeInv)
<1>1. Init => NamesInv /\ TypeInv
  BY InitNames, InitTyped
<1>2. NamesInv /\ TypeInv /\ [Next]_vars => (NamesInv /\ TypeInv)'
  <2> SUFFICES ASSUME NamesInv, TypeInv, [Next]_vars PROVE NamesInv' /\ TypeInv'
    OBVIOUS
  <2>1. NamesInv'
    BY StartNames, ReadMembersNames, ReadUserRolesNames, PromptNames, WorkNames, EndsNames, OthersNames DEF Next
  <2>2. TypeInv'
    BY GuildSteps, RunSteps, DialogSteps DEF TypeInv
  <2> QED BY <2>1, <2>2
<1> QED BY <1>1, <1>2, PTL DEF Spec

\* Types, for any number of members, roles and failures: the command never does
\* more than it announced, the guild never goes over the limit of roles, and a
\* waiter is there only while its prompt is.
THEOREM TypeCorrect == Spec => []TypeOK
<1>1. NamesInv /\ TypeInv => TypeOK
  BY TypeInvImpliesTypeOK
<1> QED BY <1>1, NamesAndTypes, PTL

-----------------------------------------------------------------------------
(* The command changes nothing but member roles.                           *)

\* An id the command has for a name is still a role of that name.
OwnIds ==
    quiet \/ changes = 0 =>
        \A n \in DOMAIN run.ids : run.ids[n] \in DOMAIN roles => roles[run.ids[n]].name = n

\* What is to be updated or deleted has an id.
IdsForOps ==
    /\ at \in {"members", "warn", "user roles"} => DOMAIN run.looks \subseteq DOMAIN run.ids
    /\ at \in {"confirm", "working"} => run.ops["update"] \union run.ops["delete"] \subseteq DOMAIN run.ids

\* A role that is none of the members' stays as it is, and so does who holds it,
\* whatever the command does and wherever it fails, unless somebody changed the
\* guild under it: the ids it deletes and updates by were read by name.
OtherRolesAreSafe ==
    [][quiet' \/ changes' = 0 =>
          \A id \in DOMAIN roles : roles[id].name = Other =>
              /\ id \in DOMAIN roles' /\ roles'[id] = roles[id]
              /\ id \in held' <=> id \in held]_vars

\* What a call of the command does to the roles.
LEMMA AskedRoles ==
    ASSUME TypeInv, OwnIds, IdsForOps, at = "working", quiet \/ changes = 0, NEW o \in Pending, Asks(o[1], o[2])
    PROVE  /\ \A id \in DOMAIN roles : roles[id].name = Other =>
                 /\ id \in DOMAIN roles' /\ roles'[id] = roles[id]
                 /\ id \in held' <=> id \in held
           /\ \A id \in DOMAIN roles \intersect DOMAIN roles' : roles'[id].name = roles[id].name
           /\ o[1] # "create" => DOMAIN roles' \subseteq DOMAIN roles
           /\ o[1] = "create" =>
                 /\ DOMAIN roles' = DOMAIN roles \union {FreshId} /\ FreshId \notin DOMAIN roles
                 /\ roles'[FreshId].name = o[2] /\ FreshId \notin Range(run.ids)
<1> DEFINE n == o[2]
<1>1. /\ n \in Names /\ n # Other /\ DOMAIN run.ids \subseteq Names
      /\ held \subseteq DOMAIN roles
  BY RolesAssumption DEF Pending, RolesAssumption, TypeInv, RunTyped, GuildTyped, IsPartial
<1>2. \A m \in DOMAIN run.ids : run.ids[m] \in DOMAIN roles => roles[run.ids[m]].name = m
  BY DEF OwnIds
<1>3. \A id \in DOMAIN roles : roles[id] = [name |-> roles[id].name, look |-> roles[id].look]
  BY DEF TypeInv, GuildTyped, IsPartial, Roles
<1>4. o[1] \in {"update", "delete"} => n \in DOMAIN run.ids
  BY DEF Pending, IdsForOps
<1>5. CASE o[1] = "create"
  <2>1. CreateRole(n)
    BY <1>5 DEF Asks
  <2>2. FreshId \notin DOMAIN roles /\ FreshId \notin Range(run.ids)
    BY <2>1 DEF CreateRole, HasFreshId, FreshId
  <2>3. /\ DOMAIN roles' = DOMAIN roles \union {FreshId} /\ held' = held
        /\ \A id \in DOMAIN roles : roles'[id] = roles[id]
        /\ roles'[FreshId].name = n
    BY <2>1, <2>2 DEF CreateRole
  <2> QED BY <1>5, <2>2, <2>3
<1>6. CASE o[1] = "update"
  <2>1. UpdateRole(n)
    BY <1>6 DEF Asks
  <2> DEFINE look == [colour |-> run.desired[n], mentionable |-> TRUE]
  <2>a. held' = held /\ roles' = [roles EXCEPT ![run.ids[n]].look = look]
    BY <2>1 DEF UpdateRole
  <2>b. run.ids[n] \in DOMAIN roles
    BY <2>1 DEF UpdateRole
  <2> HIDE DEF look
  <2>2. /\ DOMAIN roles' = DOMAIN roles /\ held' = held
        /\ \A id \in DOMAIN roles : id # run.ids[n] => roles'[id] = roles[id]
        /\ roles'[run.ids[n]].name = roles[run.ids[n]].name
    BY <1>3, <2>a, <2>b
  <2>3. roles[run.ids[n]].name # Other
    BY <1>1, <1>2, <1>4, <1>6, <2>1 DEF UpdateRole
  <2> QED BY <1>6, <2>2, <2>3
<1>7. CASE o[1] = "delete"
  <2>1. DeleteRole(n)
    BY <1>7 DEF Asks
  <2>2. /\ DOMAIN roles' = DOMAIN roles \ {run.ids[n]} /\ held' = held \ {run.ids[n]}
        /\ \A id \in DOMAIN roles : id # run.ids[n] => roles'[id] = roles[id]
    BY <2>1 DEF DeleteRole, Restrict
  <2>3. roles[run.ids[n]].name # Other
    BY <1>1, <1>2, <1>4, <1>7, <2>1 DEF DeleteRole
  <2> QED BY <1>7, <2>2, <2>3
<1>8. CASE o[1] = "assign"
  <2>1. roles' = roles
    BY <1>8 DEF Asks, AssignRole, discordVars
  <2>2. CASE PassedOver(o[1], n)
    <3>1. held' = held
      BY <1>8, <2>2 DEF Asks, discordVars
    <3> QED BY <1>8, <2>1, <3>1
  <2>3. CASE ~PassedOver(o[1], n)
    <3>1. AssignRole(n) /\ n \in DOMAIN run.ids
      BY <1>8, <2>3 DEF Asks, PassedOver
    <3>2. roles[run.ids[n]].name # Other /\ held' = held \union {run.ids[n]}
      BY <1>1, <1>2, <3>1 DEF AssignRole
    <3> QED BY <1>8, <2>1, <3>2
  <2> QED BY <2>2, <2>3
<1> QED BY <1>5, <1>6, <1>7, <1>8 DEF Asks

LEMMA IdsAtFinish ==
    ASSUME NEW result, Finish(result)
    PROVE  OwnIds' /\ IdsForOps'
<1>1. run'.ids = <<>> /\ at' = "idle"
  BY DEF Finish, EmptyRun
<1>2. DOMAIN run'.ids = {}
  BY <1>1
<1> QED BY <1>1, <1>2 DEF OwnIds, IdsForOps

\* Steps of the command that ask for nothing.
LEMMA IdsWhileReading ==
    ASSUME NamesInv, TypeInv, OwnIds, IdsForOps,
           Start \/ ReadMembers \/ ReadUserRoles \/ ShowPrompt \/ WaitForComponent
           \/ (\E b : Click(b)) \/ ClickArrives \/ RoleEvents \/ MemberEvents \/ UNCHANGED vars
    PROVE  OwnIds' /\ IdsForOps'
<1>1. roles' = roles /\ changes' = changes
  BY DEF Start, ReadMembers, ReadUserRoles, ShowPrompt, WaitForComponent, Click, ClickArrives,
         RoleEvents, MemberEvents, vars, discordVars, counters
<1>2. ASSUME quiet' => quiet, run'.ids = run.ids
      PROVE  OwnIds'
  BY <1>1, <1>2 DEF OwnIds
<1>3. CASE Start
  <2>1. PICK ids \in CurrentRoles :
          run' = [EmptyRun EXCEPT !.ids = ids,
                                  !.looks = [n \in DOMAIN ids |-> roles[ids[n]].look],
                                  !.others = Cardinality(DOMAIN roles) - Cardinality(DOMAIN ids)]
    BY <1>3 DEF Start
  <2>2. run'.ids = ids /\ DOMAIN run'.looks = DOMAIN ids
    BY <2>1 DEF EmptyRun
  <2>3. \A n \in DOMAIN ids : roles[ids[n]].name = n
    BY DEF CurrentRoles
  <2>4. at' = "members"
    BY <1>3 DEF Start, Go
  <2> QED BY <1>1, <2>2, <2>3, <2>4 DEF OwnIds, IdsForOps
<1>4. CASE ReadMembers
  <2>1. CASE SystemUnreadable \/ TooManyRoles
    BY <2>1, IdsAtFinish DEF SystemUnreadable, TooManyRoles
  <2>2. CASE ~(SystemUnreadable \/ TooManyRoles)
    <3>1. PICK desired \in DesiredRoles : run' = [run EXCEPT !.desired = desired]
      BY <1>4, <2>2 DEF ReadMembers
    <3>2. run'.looks = run.looks /\ run'.ids = run.ids
      BY <3>1 DEF NamesInv, Shape, Fields
    <3>3. at = "members" /\ at' \in {"warn", "user roles"} /\ quiet' = quiet
      BY <1>4, <2>2 DEF ReadMembers, Go
    <3> QED BY <1>2, <3>2, <3>3 DEF IdsForOps
  <2> QED BY <2>1, <2>2
<1>5. CASE ReadUserRoles
  <2>1. PICK listed \in UserRoles :
          LET ops == RoleOps(run.looks, run.desired, {SeenRoles[id].name : id \in listed})
          IN  \/ \E result : Finish(result)
              \/ /\ Go("confirm") /\ (quiet' => quiet)
                 /\ run' = [run EXCEPT !.ops = ops, !.total = Count(ops), !.looks = <<>>]
    BY <1>5, Zenon DEF ReadUserRoles
  <2>2. CASE \E result : Finish(result)
    BY <2>2, IdsAtFinish
  <2>3. CASE ~\E result : Finish(result)
    <3> DEFINE ops == RoleOps(run.looks, run.desired, {SeenRoles[id].name : id \in listed})
    <3>1. at' = "confirm" /\ run' = [run EXCEPT !.ops = ops, !.total = Count(ops), !.looks = <<>>]
      BY <2>1, <2>3 DEF Go
    <3>2. ops["update"] \union ops["delete"] \subseteq DOMAIN run.looks
      BY DEF RoleOps
    <3> HIDE DEF ops
    <3>3. run'.ids = run.ids /\ run'.ops = ops
      BY <3>1 DEF NamesInv, Shape, Fields
    <3>4. at = "user roles" /\ (quiet' => quiet)
      BY <1>5, <2>1, <2>3 DEF ReadUserRoles
    <3> QED BY <1>2, <3>1, <3>2, <3>3, <3>4 DEF IdsForOps
  <2> QED BY <2>2, <2>3
<1>6. CASE ShowPrompt \/ WaitForComponent \/ (\E b : Click(b)) \/ RoleEvents \/ MemberEvents
           \/ UNCHANGED vars
  <2>1. run' = run /\ at' = at /\ quiet' = quiet
    BY <1>6 DEF ShowPrompt, WaitForComponent, Click, RoleEvents, MemberEvents, vars
  <2> QED BY <1>2, <2>1 DEF IdsForOps
<1>7. CASE ClickArrives
  <2>1. PICK click \in clicks : ClickIgnored(click) \/ Confirm(click) \/ Deny(click)
    BY <1>7 DEF ClickArrives
  <2>2. quiet' = quiet
    BY <1>7 DEF ClickArrives
  <2>3. CASE ClickIgnored(click)
    BY <1>2, <2>2, <2>3 DEF ClickIgnored, IdsForOps
  <2>4. CASE Confirm(click)
    <3>1. at \in Prompts /\ at' = (IF at = "warn" THEN "user roles" ELSE "working") /\ run' = run
      BY <2>4 DEF Confirm, Go, NamesInv, Shape
    <3> QED BY <1>2, <2>2, <3>1 DEF IdsForOps, Prompts
  <2>5. CASE Deny(click)
    BY <2>5, IdsAtFinish DEF Deny
  <2> QED BY <2>1, <2>3, <2>4, <2>5
<1> QED BY <1>3, <1>4, <1>5, <1>6, <1>7

LEMMA IdsAtWork ==
    ASSUME NamesInv, TypeInv, OwnIds, IdsForOps, Work
    PROVE  OwnIds' /\ IdsForOps'
<1>1. PICK o \in Pending :
        /\ Asks(o[1], o[2])
        /\ run' = [run EXCEPT !.ops[o[1]] = @ \ {o[2]},
                              !.done[o[1]] = @ + (IF PassedOver(o[1], o[2]) THEN 0 ELSE 1),
                              !.ids = KnownIds(o[1], o[2])]
  BY DEF Work
<1>2. at = "working" /\ at' = "working" /\ quiet' = quiet /\ changes' = changes
  BY DEF Work, counters
<1>3. run'.ids = KnownIds(o[1], o[2]) /\ run'.ops = [run.ops EXCEPT ![o[1]] = @ \ {o[2]}]
  BY <1>1 DEF NamesInv, Shape, Fields
<1>4. run'.ops["update"] \subseteq run.ops["update"] /\ run'.ops["delete"] \subseteq run.ops["delete"]
  BY <1>3 DEF NamesInv, Shape, Kinds
<1>5. DOMAIN run.ids \subseteq DOMAIN run'.ids
  BY <1>3 DEF KnownIds
<1>6. IdsForOps'
  BY <1>2, <1>4, <1>5 DEF IdsForOps
<1>7. ASSUME quiet \/ changes = 0, NEW n \in DOMAIN run'.ids, run'.ids[n] \in DOMAIN roles'
      PROVE  roles'[run'.ids[n]].name = n
  <2>1. /\ \A id \in DOMAIN roles \intersect DOMAIN roles' : roles'[id].name = roles[id].name
        /\ o[1] # "create" => DOMAIN roles' \subseteq DOMAIN roles
        /\ o[1] = "create" =>
              /\ DOMAIN roles' = DOMAIN roles \union {FreshId} /\ FreshId \notin DOMAIN roles
              /\ roles'[FreshId].name = o[2] /\ FreshId \notin Range(run.ids)
    BY <1>1, <1>2, <1>7, AskedRoles
  <2>2. CASE n \in DOMAIN run.ids
    <3>1. run'.ids[n] = run.ids[n]
      BY <1>3, <2>2 DEF KnownIds
    <3>2. run.ids[n] \in Range(run.ids)
      BY <2>2 DEF Range
    <3>3. run.ids[n] \in DOMAIN roles
      BY <1>7, <2>1, <3>1, <3>2
    <3>4. roles[run.ids[n]].name = n
      BY <1>7, <2>2, <3>3 DEF OwnIds
    <3> QED BY <1>7, <2>1, <3>1, <3>3, <3>4
  <2>3. CASE n \notin DOMAIN run.ids
    <3>1. o[1] = "create" /\ n = o[2] /\ run'.ids[n] = FreshId
      BY <1>3, <1>7, <2>3 DEF KnownIds
    <3> QED BY <2>1, <3>1
  <2> QED BY <2>2, <2>3
<1>8. OwnIds'
  BY <1>2, <1>7 DEF OwnIds
<1> QED BY <1>6, <1>8

LEMMA OthersCount == ASSUME TypeInv, OthersChange PROVE changes' # 0 /\ quiet' = FALSE
<1>1. MaxChanges \in Nat
  BY RolesAssumption DEF RolesAssumption
<1>2. changes \in 0..MaxChanges
  BY DEF TypeInv, DialogTyped
<1>3. changes' = changes + 1 /\ quiet' = FALSE
  BY DEF OthersChange
<1> QED BY <1>1, <1>2, <1>3

\* /pk roles update touches no role but those of the members, for any guild,
\* system and failures.
THEOREM OtherRolesStay == Spec => OtherRolesAreSafe
<1>1. Init => OwnIds /\ IdsForOps
  <2> SUFFICES ASSUME Init PROVE OwnIds /\ IdsForOps
    OBVIOUS
  <2>1. run.ids = <<>> /\ at = "idle"
    BY DEF Init, EmptyRun
  <2>2. DOMAIN run.ids = {}
    BY <2>1
  <2> QED BY <2>1, <2>2 DEF OwnIds, IdsForOps
<1>2. NamesInv /\ TypeInv /\ OwnIds /\ IdsForOps /\ [Next]_vars => OwnIds' /\ IdsForOps'
  <2> SUFFICES ASSUME NamesInv, TypeInv, OwnIds, IdsForOps, [Next]_vars
               PROVE  OwnIds' /\ IdsForOps'
    OBVIOUS
  <2>1. CASE Refused \/ Succeed \/ Fails
    BY <2>1, IdsAtFinish DEF Refused, Succeed, Fails
  <2>2. CASE OthersChange
    <3>1. changes' # 0 /\ quiet' = FALSE
      BY <2>2, OthersCount
    <3>2. at' = at /\ run' = run
      BY <2>2 DEF OthersChange
    <3> QED BY <3>1, <3>2 DEF OwnIds, IdsForOps
  <2> QED BY <2>1, <2>2, IdsWhileReading, IdsAtWork DEF Next
<1>3. TypeInv /\ OwnIds /\ IdsForOps /\ [Next]_vars
         => [quiet' \/ changes' = 0 =>
                \A id \in DOMAIN roles : roles[id].name = Other =>
                    /\ id \in DOMAIN roles' /\ roles'[id] = roles[id]
                    /\ id \in held' <=> id \in held]_vars
  <2> SUFFICES ASSUME TypeInv, OwnIds, IdsForOps, [Next]_vars, quiet' \/ changes' = 0,
                      NEW id \in DOMAIN roles, roles[id].name = Other
               PROVE  /\ id \in DOMAIN roles' /\ roles'[id] = roles[id]
                      /\ id \in held' <=> id \in held
    OBVIOUS
  <2>1. CASE at = "working" /\ quiet' = quiet /\ changes' = changes
             /\ \E o \in Pending : Asks(o[1], o[2])
    BY <2>1, AskedRoles
  <2>2. CASE UNCHANGED discordVars
    BY <2>2 DEF discordVars
  <2>3. ~OthersChange
    BY OthersCount
  <2>4. CASE Work \/ Fails
    BY <2>1, <2>2, <2>4 DEF Work, Fails, counters
  <2> QED
    BY <2>2, <2>3, <2>4 DEF Next, Start, ReadMembers, ReadUserRoles, ShowPrompt, WaitForComponent,
       Click, ClickArrives, Refused, Succeed, RoleEvents, MemberEvents, vars
<1>4. Spec => [](NamesInv /\ TypeInv)
  BY NamesAndTypes
<1> QED BY <1>1, <1>2, <1>3, <1>4, PTL DEF Spec, OtherRolesAreSafe
-----------------------------------------------------------------------------
(* What it takes to let the command change anything.                       *)

\* Roles are changed after a click on the list of the changes, or, as a click is
\* taken for an answer to whatever prompt waits, after two clicks on the warning
\* that comes before it: one click never lets the command through both prompts.
ChangesNeedClicks ==
    at = "working" => "confirm" \in approved \/ (approved = {"warn"} /\ clicked >= 2)

\* A click has a number of its own, and if one was taken, its number is of none.
ClicksCount ==
    /\ clicked \in Nat
    /\ \A c \in clicks : c.number \in 1..clicked
    /\ \A c, d \in clicks : c.number = d.number => c = d
    /\ approved # {} => \E k \in 1..clicked : \A c \in clicks : c.number # k

\* Before the first click is taken, clicks are on the only prompt there was.
FirstPrompt ==
    /\ at \in {"idle", "members"} => clicks = {} /\ shown = "text"
    /\ at \in {"members", "warn"} => approved = {}
    /\ at = "user roles" /\ approved = {} => clicks = {} /\ shown = "text"
    /\ at \in {"user roles", "confirm"} => approved \subseteq {"warn"}
    /\ at \in Prompts /\ approved = {} =>
           shown \in {"text", at} /\ \A c \in clicks : c.prompt = at

ClicksInv == ClicksCount /\ FirstPrompt /\ ChangesNeedClicks

LEMMA ClicksAtFinish ==
    ASSUME ClicksInv, NEW result, Finish(result), approved' = approved, clicked' = clicked
    PROVE  ClicksInv'
<1>1. clicks' = {} /\ shown' = "text" /\ at' = "idle"
  BY DEF Finish
<1>2. ClicksCount'
  BY <1>1 DEF ClicksInv, ClicksCount
<1> QED BY <1>1, <1>2 DEF ClicksInv, FirstPrompt, ChangesNeedClicks, Prompts

LEMMA ClicksTaken ==
    ASSUME ClicksInv, TypeInv, Shape, NEW click \in clicks, Confirm(click), clicked' = clicked
    PROVE  ClicksInv'
<1>1. /\ at \in Prompts /\ clicks' = clicks \ {click} /\ shown' = shown
      /\ at' = (IF at = "warn" THEN "user roles" ELSE "working")
      /\ approved' = approved \union {click.prompt}
  BY DEF Confirm, Go, Shape
<1>2. click.number \in 1..clicked /\ \A c \in clicks' : c.number # click.number
  BY <1>1 DEF ClicksInv, ClicksCount
<1>3. ClicksCount'
  BY <1>1, <1>2 DEF ClicksInv, ClicksCount
<1>4. CASE at = "warn"
  <2>1. approved' = {"warn"}
    BY <1>1, <1>4 DEF ClicksInv, FirstPrompt, Prompts
  <2> QED BY <1>1, <1>3, <1>4, <2>1 DEF ClicksInv, FirstPrompt, ChangesNeedClicks, Prompts
<1>5. CASE at = "confirm"
  <2>1. CASE approved = {}
    <3>1. approved' = {"confirm"} /\ at' = "working"
      BY <1>1, <1>5, <2>1 DEF ClicksInv, FirstPrompt
    <3> QED BY <1>3, <3>1 DEF ClicksInv, FirstPrompt, ChangesNeedClicks, Prompts
  <2>2. CASE approved # {}
    <3>1. approved = {"warn"}
      BY <1>5, <2>2 DEF ClicksInv, FirstPrompt
    <3>2. PICK k \in 1..clicked : \A c \in clicks : c.number # k
      BY <2>2 DEF ClicksInv, ClicksCount
    <3>3. clicked >= 2
      BY <1>2, <3>2 DEF ClicksInv, ClicksCount
    <3>4. click.prompt \in {"warn", "confirm"}
      BY DEF TypeInv, DialogTyped, Prompts
    <3>5. "confirm" \in approved' \/ approved' = {"warn"}
      BY <1>1, <3>1, <3>4
    <3> QED BY <1>1, <1>3, <1>5, <3>3, <3>5 DEF ClicksInv, FirstPrompt, ChangesNeedClicks, Prompts
  <2> QED BY <2>1, <2>2
<1> QED BY <1>1, <1>3, <1>4, <1>5 DEF Prompts

LEMMA ClickMade ==
    ASSUME ClicksInv, NEW b, Click(b)
    PROVE  ClicksInv'
<1> DEFINE new == [prompt |-> shown, button |-> b, number |-> clicked + 1]
<1>1. /\ clicked \in Nat /\ clicked' = clicked + 1 /\ clicks' = clicks \union {new}
      /\ at' = at /\ shown' = shown /\ approved' = approved /\ shown \in Prompts
  BY DEF Click, ClicksInv, ClicksCount
<1>2. new.number = clicked + 1 /\ new.prompt = shown
  OBVIOUS
<1> HIDE DEF new
<1>3. \A c \in clicks : c.number \in 1..clicked' /\ c.number # new.number
  BY <1>1, <1>2 DEF ClicksInv, ClicksCount
<1>4. \A c, d \in clicks' : c.number = d.number => c = d
  BY <1>1, <1>3 DEF ClicksInv, ClicksCount
<1>5. approved' # {} => \E k \in 1..clicked' : \A c \in clicks' : c.number # k
  BY <1>1, <1>2 DEF ClicksInv, ClicksCount
<1>6. ClicksCount'
  BY <1>1, <1>2, <1>3, <1>4, <1>5 DEF ClicksCount
<1>7. at \notin {"idle", "members"} /\ ~(at = "user roles" /\ approved = {})
  BY <1>1 DEF ClicksInv, FirstPrompt, Prompts
<1>8. FirstPrompt'
  BY <1>1, <1>2, <1>7 DEF ClicksInv, FirstPrompt, Prompts
<1>9. ChangesNeedClicks'
  BY <1>1 DEF ClicksInv, ChangesNeedClicks
<1> QED BY <1>6, <1>8, <1>9 DEF ClicksInv

\* Neither a click made nor a click taken, and the command goes on.
LEMMA ClicksKept ==
    ASSUME ClicksInv, clicks' \subseteq clicks, clicked' = clicked, approved' = approved,
           \/ at' = at /\ shown' = shown
           \/ at' = at /\ at \in Prompts /\ shown' = at
           \/ at' = at /\ at = "working"
           \/ /\ shown' = shown
              /\ \/ at = "members" /\ at' \in {"warn", "user roles"}
                 \/ at = "user roles" /\ at' = "confirm"
    PROVE  ClicksInv'
<1>1. ClicksCount'
  BY DEF ClicksInv, ClicksCount
<1>2. FirstPrompt'
  BY DEF ClicksInv, FirstPrompt, Prompts
<1> QED BY <1>1, <1>2 DEF ClicksInv, ChangesNeedClicks

\* No system, guild or order in which clicks arrive lets the command change a role
\* for less.
THEOREM ChangesTakeClicks == Spec => []ChangesNeedClicks
<1>1. Init => ClicksInv
  BY DEF Init, ClicksInv, ClicksCount, FirstPrompt, ChangesNeedClicks, Prompts
<1>2. NamesInv /\ TypeInv /\ ClicksInv /\ [Next]_vars => ClicksInv'
  <2> SUFFICES ASSUME NamesInv, TypeInv, ClicksInv, [Next]_vars PROVE ClicksInv'
    OBVIOUS
  <2>1. CASE Start
    <3>1. /\ at = "idle" /\ at' = "members" /\ clicks' = clicks /\ shown' = shown
          /\ clicked' = 0 /\ approved' = {}
      BY <2>1 DEF Start, Go, promptVars
    <3>2. clicks' = {} /\ shown' = "text"
      BY <3>1 DEF ClicksInv, FirstPrompt
    <3> QED BY <3>1, <3>2 DEF ClicksInv, ClicksCount, FirstPrompt, ChangesNeedClicks, Prompts
  <2>2. CASE ReadMembers
    <3>1. approved' = approved /\ clicked' = clicked
      BY <2>2 DEF ReadMembers, counters
    <3>2. CASE SystemUnreadable \/ TooManyRoles
      BY <3>1, <3>2, ClicksAtFinish DEF SystemUnreadable, TooManyRoles
    <3>3. CASE ~(SystemUnreadable \/ TooManyRoles)
      <4>1. at = "members" /\ at' \in {"warn", "user roles"} /\ clicks' = clicks /\ shown' = shown
        BY <2>2, <3>3 DEF ReadMembers, Go, promptVars
      <4> QED BY <3>1, <4>1, ClicksKept
    <3> QED BY <3>2, <3>3
  <2>3. CASE ReadUserRoles
    <3>1. approved' = approved /\ clicked' = clicked /\ at = "user roles"
      BY <2>3 DEF ReadUserRoles, counters
    <3>2. \/ \E result : Finish(result)
          \/ at' = "confirm" /\ clicks' = clicks /\ shown' = shown
      BY <2>3 DEF ReadUserRoles, Go, promptVars
    <3> QED BY <3>1, <3>2, ClicksAtFinish, ClicksKept
  <2>4. CASE ShowPrompt \/ WaitForComponent \/ Work \/ RoleEvents \/ MemberEvents \/ OthersChange
             \/ UNCHANGED vars
    <3>1. clicks' = clicks /\ clicked' = clicked /\ approved' = approved /\ at' = at
      BY <2>4 DEF ShowPrompt, WaitForComponent, Work, RoleEvents, MemberEvents, OthersChange,
                  vars, promptVars, counters
    <3>2. shown' = shown \/ (at \in Prompts /\ shown' = at) \/ at = "working"
      BY <2>4 DEF ShowPrompt, WaitForComponent, Work, RoleEvents, MemberEvents, OthersChange,
                  vars, promptVars
    <3> QED BY <3>1, <3>2, ClicksKept
  <2>5. CASE \E b : Click(b)
    BY <2>5, ClickMade
  <2>6. CASE ClickArrives
    <3>1. PICK click \in clicks : ClickIgnored(click) \/ Confirm(click) \/ Deny(click)
      BY <2>6 DEF ClickArrives
    <3>2. clicked' = clicked
      BY <2>6 DEF ClickArrives, counters
    <3>3. CASE ClickIgnored(click)
      <4>1. clicks' \subseteq clicks /\ at' = at /\ shown' = shown /\ approved' = approved
        BY <3>3 DEF ClickIgnored
      <4> QED BY <3>2, <4>1, ClicksKept
    <3>4. CASE Confirm(click)
      BY <3>2, <3>4, ClicksTaken DEF NamesInv
    <3>5. CASE Deny(click)
      BY <3>2, <3>5, ClicksAtFinish DEF Deny
    <3> QED BY <3>1, <3>3, <3>4, <3>5
  <2>7. CASE Refused \/ Succeed \/ Fails
    <3>1. approved' = approved /\ clicked' = clicked /\ \E result : Finish(result)
      BY <2>7 DEF Refused, Succeed, Fails, counters
    <3> QED BY <3>1, ClicksAtFinish
  <2> QED BY <2>1, <2>2, <2>3, <2>4, <2>5, <2>6, <2>7 DEF Next
<1>3. ClicksInv => ChangesNeedClicks
  BY DEF ClicksInv
<1> QED BY <1>1, <1>2, <1>3, NamesAndTypes, PTL DEF Spec
=============================================================================
