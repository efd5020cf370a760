----------------------------- MODULE MemberRoles -----------------------------
(***************************************************************************)
(* /pk roles update: one role per member of the system in the guild, all   *)
(* of them held by the user of the system.  The command reads the guild,   *)
(* PluralKit and the cache, asks the user up to twice in a confirmation    *)
(* dialog, and changes one role after the other.  The modules' database    *)
(* has no part in it, what an update that failed half way left behind is   *)
(* in the guild, where the next one finds it.                              *)
(***************************************************************************)
EXTENDS Integers, FiniteSets, TLC, Functions

CONSTANTS
    Members,       \* members the system can have
    Names,         \* names of member roles, "... (Alter)"
    Other,         \* the name of any other role
    Colours,
    RoleIds,
    OwnRoles,      \* those that may be there without the command
    RoleLimit,     \* DISCORD_ROLE_LIMIT
    RoleWarning,   \* REMAINING_ROLE_WARNING
    MaxClicks,     \* bound: clicks during one command
    MaxChanges,    \* bound: changes of others
    MaxFailures    \* bound: errors

ASSUME RolesAssumption ==
    /\ Other \notin Names
    /\ IsFiniteSet(Members) /\ IsFiniteSet(Names) /\ IsFiniteSet(RoleIds)
    /\ OwnRoles \subseteq RoleIds /\ Cardinality(OwnRoles) <= RoleLimit
    /\ RoleLimit \in Nat /\ RoleWarning \in 0..RoleLimit
    /\ {MaxClicks, MaxChanges, MaxFailures} \subseteq Nat

VARIABLES
    system,        \* PluralKit: the members, with role name and colour
    roles,         \* Discord: the roles of the guild
    held,          \* Discord: the roles of the user
    cached_roles, cached_held,   \* the two in the cache, which lags behind
    at,            \* what the command does next
    run,           \* its local variables
    shown,         \* the prompt its response shows
    waiting,       \* whether standby has a waiter for that message
    clicks,        \* clicks on their way to standby
    outcome,       \* how the last command ended
    clicked, changes, failures,  \* how many there were
    quiet,         \* history: the command saw what is there, nobody else changed it
    approved       \* history: the prompts the clicks were made on

discordVars == <<roles, held>>
cacheVars == <<cached_roles, cached_held>>
promptVars == <<shown, waiting, clicks>>
counters == <<clicked, changes, failures>>
vars == <<system, discordVars, cacheVars, at, run, promptVars, outcome, counters, quiet, approved>>

Kinds == {"create", "update", "delete", "assign"}
Looks == [colour: Colours, mentionable: BOOLEAN]
Roles == [name: Names \union {Other}, look: Looks]
Prompts == {"warn", "confirm"}
Outcomes == {"none", "no system", "denied", "over limit", "up to date", "updated", "unknown role", "refused", "failed"}

IsPartial(f, S, T) == DOMAIN f \subseteq S /\ \A x \in DOMAIN f : f[x] \in T
Count(sets) == [k \in Kinds |-> Cardinality(sets[k])]
Nothing == [k \in Kinds |-> {}]
EmptyRun == [ids |-> <<>>, looks |-> <<>>, others |-> 0, desired |-> <<>>,
             ops |-> Nothing, total |-> Count(Nothing), done |-> Count(Nothing)]

-----------------------------------------------------------------------------
(* What the command computes.                                              *)

\* Mutant of CurrentRoles: the guild's roles are taken from the cache.
CachedRoles ==
    LET alters == {id \in DOMAIN cached_roles \intersect DOMAIN roles : cached_roles[id].name \in Names}
    IN  {ids \in [{cached_roles[id].name : id \in alters} -> alters] :
            \A n \in DOMAIN ids : cached_roles[ids[n]].name = n}

\* The id of each member role, by name; of roles with the same name the map
\* keeps one.
CurrentRoles ==
    LET alters == {id \in DOMAIN roles : roles[id].name \in Names}
    IN  {ids \in [{roles[id].name : id \in alters} -> alters] :
            \A n \in DOMAIN ids : roles[ids[n]].name = n}

NamesOf(members) == {members[m].name : m \in DOMAIN members}

\* Members whose names differ in what is in parentheses share a role.
DesiredRoles ==
    {desired \in [NamesOf(system) -> Colours] :
        \A n \in DOMAIN desired : \E m \in DOMAIN system : system[m] = [name |-> n, colour |-> desired[n]]}

\* Mutant of ShouldUpdate: a change of mentionable alone is not seen.
ShouldRecolour(look, colour) == look.colour # colour

\* Every desired role is mentionable.
ShouldUpdate(look, colour) == look.colour # colour \/ ~look.mentionable

RoleOps(looks, desired, names) ==
    [create |-> DOMAIN desired \ DOMAIN looks,
     delete |-> DOMAIN looks \ DOMAIN desired,
     update |-> {n \in DOMAIN looks \intersect DOMAIN desired : ShouldUpdate(looks[n], desired[n])},
     assign |-> DOMAIN desired \ names]

Combined == Cardinality(DOMAIN system) + run.others

-----------------------------------------------------------------------------
Go(step) == at' = step

\* Clicks on the response of a command that ended find no waiter.
Finish(result) ==
    /\ at' = "idle" /\ outcome' = result
    /\ run' = EmptyRun
    /\ shown' = "text" /\ waiting' = FALSE /\ clicks' = {}

Start ==
    /\ at = "idle" /\ Go("members")
    /\ \E ids \in CurrentRoles :
          run' = [EmptyRun EXCEPT !.ids = ids,
                                  !.looks = [n \in DOMAIN ids |-> roles[ids[n]].look],
                                  !.others = Cardinality(DOMAIN roles) - Cardinality(DOMAIN ids)]
    /\ outcome' = "none" /\ clicked' = 0
    /\ quiet' = TRUE /\ approved' = {}
    /\ UNCHANGED <<system, discordVars, cacheVars, promptVars, changes, failures>>

\* PluralKit does not know the system, or its member list is private.
SystemUnreadable == Finish("no system")

TooManyRoles ==
    /\ Combined > RoleLimit
    /\ Finish("over limit")

ReadMembers ==
    /\ at = "members"
    /\ \/ SystemUnreadable
       \/ TooManyRoles
       \/ /\ Combined <= RoleLimit
          /\ Go(IF Combined >= RoleLimit - RoleWarning THEN "warn" ELSE "user roles")
          /\ \E desired \in DesiredRoles : run' = [run EXCEPT !.desired = desired]
          /\ UNCHANGED <<promptVars, outcome>>
    /\ UNCHANGED <<system, discordVars, cacheVars, counters, quiet, approved>>

\* The member is in the cache or asked for, and so is each of its roles; one
\* that is nowhere is an error.
UserRoles == {cached_held, held}
SeenRoles == cached_roles @@ roles

ReadUserRoles ==
    /\ at = "user roles"
    /\ \E listed \in UserRoles :
          LET seen == SeenRoles
              ops == RoleOps(run.looks, run.desired, {seen[id].name : id \in listed})
          IN \/ /\ ~(listed \subseteq DOMAIN seen)
                /\ Finish("unknown role")
                /\ UNCHANGED quiet
             \/ /\ listed \subseteq DOMAIN seen
                /\ quiet' = (quiet /\ listed = held /\ Restrict(seen, listed) = Restrict(roles, held))
                /\ \/ ops = Nothing /\ Finish("up to date")
                   \/ /\ ops # Nothing /\ Go("confirm")
                      /\ run' = [run EXCEPT !.ops = ops, !.total = Count(ops), !.looks = <<>>]
                      /\ UNCHANGED <<promptVars, outcome>>
    /\ UNCHANGED <<system, discordVars, cacheVars, counters, approved>>

-----------------------------------------------------------------------------
(* ConfirmationDialog::run.  Both prompts are edits of one message.        *)

ShowPrompt ==
    /\ at \in Prompts /\ shown # at
    /\ shown' = at
    /\ UNCHANGED <<system, discordVars, cacheVars, at, run, waiting, clicks, outcome, counters, quiet, approved>>

WaitForComponent ==
    /\ at \in Prompts /\ shown = at /\ ~waiting
    /\ waiting' = TRUE
    /\ UNCHANGED <<system, discordVars, cacheVars, at, run, shown, clicks, outcome, counters, quiet, approved>>

\* A click is not acknowledged, the user may try again while the prompt is there.
Click(button) ==
    /\ shown \in Prompts /\ at # "idle"
    /\ clicked < MaxClicks /\ clicked' = clicked + 1
    /\ clicks' = clicks \union {[prompt |-> shown, button |-> button, number |-> clicked']}
    /\ UNCHANGED <<system, discordVars, cacheVars, at, run, shown, waiting, outcome, changes, failures, quiet, approved>>

\* Every event has a task of its own, so clicks arrive in any order.
ClickIgnored(click) ==
    /\ ~waiting
    /\ clicks' = clicks \ {click}
    /\ UNCHANGED <<at, run, shown, waiting, outcome, approved>>

\* Mutant of Confirm: standby keeps the waiter, as wait_for_component_stream does.
ConfirmKeepingWaiter(click) ==
    /\ waiting /\ click.button = "confirm"
    /\ clicks' = clicks \ {click}
    /\ Go(IF at = "warn" THEN "user roles" ELSE "working")
    /\ approved' = approved \union {click.prompt}
    /\ UNCHANGED <<run, shown, waiting, outcome>>

Confirm(click) ==
    /\ waiting /\ click.button = "confirm"
    /\ waiting' = FALSE /\ clicks' = clicks \ {click}
    /\ Go(IF at = "warn" THEN "user roles" ELSE "working")
    /\ approved' = approved \union {click.prompt}
    /\ UNCHANGED <<run, shown, outcome>>

Deny(click) ==
    /\ waiting /\ click.button = "deny"
    /\ Finish("denied")
    /\ UNCHANGED approved

ClickArrives ==
    /\ \E click \in clicks : ClickIgnored(click) \/ Confirm(click) \/ Deny(click)
    /\ UNCHANGED <<system, discordVars, cacheVars, counters, quiet>>

-----------------------------------------------------------------------------
(* The changes: operations on roles in the order of a hash set, then the   *)
(* assignments.  The first of either edits the response with its progress. *)

OpsLeft == \E k \in Kinds \ {"assign"} : run.ops[k] # {}

FreshId == CHOOSE id \in RoleIds \ (DOMAIN roles \union DOMAIN cached_roles \union cached_held \union Range(run.ids)) : TRUE
HasFreshId == ~(RoleIds \subseteq DOMAIN roles \union DOMAIN cached_roles \union cached_held \union Range(run.ids))

UpdateRole(n) ==
    /\ run.ids[n] \in DOMAIN roles
    /\ roles' = [roles EXCEPT ![run.ids[n]].look = [colour |-> run.desired[n], mentionable |-> TRUE]]
    /\ UNCHANGED held

CreateRole(n) ==
    /\ Cardinality(DOMAIN roles) < RoleLimit /\ HasFreshId
    /\ roles' = [id \in DOMAIN roles \union {FreshId} |->
                    IF id = FreshId
                    THEN [name |-> n, look |-> [colour |-> run.desired[n], mentionable |-> TRUE]]
                    ELSE roles[id]]
    /\ UNCHANGED held

DeleteRole(n) ==
    /\ run.ids[n] \in DOMAIN roles
    /\ roles' = Restrict(roles, DOMAIN roles \ {run.ids[n]})
    /\ held' = held \ {run.ids[n]}

AssignRole(n) ==
    /\ run.ids[n] \in DOMAIN roles
    /\ held' = held \union {run.ids[n]}
    /\ UNCHANGED roles

\* A name without an id is passed over with a warning.
PassedOver(k, n) == k = "assign" /\ n \notin DOMAIN run.ids

\* What is asked of Discord for the operation k on the role named n.
Asks(k, n) ==
    \/ k = "update" /\ UpdateRole(n)
    \/ k = "create" /\ CreateRole(n)
    \/ k = "delete" /\ DeleteRole(n)
    \/ k = "assign" /\ IF PassedOver(k, n) THEN UNCHANGED discordVars ELSE AssignRole(n)

Pending == {o \in Kinds \X Names : o[2] \in run.ops[o[1]] /\ (o[1] = "assign" => ~OpsLeft)}

\* The map from names to ids learns of the created roles.
KnownIds(k, n) ==
    IF k = "create"
    THEN [m \in DOMAIN run.ids \union {n} |-> IF m \in DOMAIN run.ids THEN run.ids[m] ELSE FreshId]
    ELSE run.ids

\* Its error is only logged.
ShowProgress == shown' = "text"

Work ==
    /\ at = "working"
    /\ \E o \in Pending :
          /\ Asks(o[1], o[2])
          /\ run' = [run EXCEPT !.ops[o[1]] = @ \ {o[2]}, !.done[o[1]] = @ + (IF PassedOver(o[1], o[2]) THEN 0 ELSE 1),
                                !.ids = KnownIds(o[1], o[2])]
    /\ ShowProgress
    /\ UNCHANGED <<system, cacheVars, at, waiting, clicks, outcome, counters, quiet, approved>>

\* The role is gone, or the guild is full.
Refused ==
    /\ at = "working"
    /\ \E o \in Pending :
          \/ o[1] = "create" /\ Cardinality(DOMAIN roles) >= RoleLimit
          \/ o[1] # "create" /\ o[2] \in DOMAIN run.ids /\ run.ids[o[2]] \notin DOMAIN roles
    /\ Finish("refused")
    /\ UNCHANGED <<system, discordVars, cacheVars, counters, quiet, approved>>

Succeed ==
    /\ at = "working" /\ run.ops = Nothing
    /\ Finish("updated")
    /\ UNCHANGED <<system, discordVars, cacheVars, counters, quiet, approved>>

-----------------------------------------------------------------------------
(* What else happens.                                                      *)

\* A call returns an error, whether Discord did what it was asked to or not;
\* the command ends there.
Fails ==
    /\ at # "idle" /\ ~waiting
    /\ failures < MaxFailures /\ failures' = failures + 1
    /\ \/ at = "working" /\ \E o \in Pending : Asks(o[1], o[2])
       \/ UNCHANGED discordVars
    /\ Finish("failed")
    /\ UNCHANGED <<system, cacheVars, clicked, changes, quiet, approved>>

RoleEvents ==
    /\ cached_roles' = roles
    /\ UNCHANGED <<system, discordVars, cached_held, at, run, promptVars, outcome, counters, quiet, approved>>

MemberEvents ==
    /\ cached_held' = held
    /\ UNCHANGED <<system, discordVars, cached_roles, at, run, promptVars, outcome, counters, quiet, approved>>

SystemChanges(members) ==
    /\ system' = members
    /\ UNCHANGED discordVars

\* A moderator deletes a role, renames it or changes its look.
RoleChanges(id) ==
    /\ \/ /\ roles' = Restrict(roles, DOMAIN roles \ {id})
          /\ held' = held \ {id}
       \/ /\ \/ roles' = [roles EXCEPT ![id].name = Other]
             \/ \E look \in Looks : roles' = [roles EXCEPT ![id].look = look]
          /\ UNCHANGED held
    /\ UNCHANGED system

UserRoleChanges(id) ==
    /\ held' = IF id \in held THEN held \ {id} ELSE held \union {id}
    /\ UNCHANGED <<system, roles>>

Systems == UNION {[S -> [name: Names, colour: Colours]] : S \in SUBSET Members}

OthersChange ==
    /\ changes < MaxChanges /\ changes' = changes + 1
    /\ \/ \E members \in Systems \ {system} : SystemChanges(members)
       \/ \E id \in DOMAIN roles : RoleChanges(id) \/ UserRoleChanges(id)
    /\ quiet' = FALSE
    /\ UNCHANGED <<cacheVars, at, run, promptVars, outcome, clicked, failures, approved>>

-----------------------------------------------------------------------------
\* No two member roles of one name, whatever an earlier update left.
NoDuplicateRoles ==
    \A i, j \in DOMAIN roles : roles[i].name = roles[j].name /\ i # j => roles[i].name = Other

\* The guild's own roles; member roles come from the command.
Init ==
    /\ system \in Systems
    /\ \E ids \in SUBSET OwnRoles, look \in Looks : roles = [id \in ids |-> [name |-> Other, look |-> look]]
    /\ held = {}
    /\ cached_roles = roles /\ cached_held = held
    /\ at = "idle" /\ run = EmptyRun /\ outcome = "none"
    /\ shown = "text" /\ waiting = FALSE /\ clicks = {}
    /\ clicked = 0 /\ changes = 0 /\ failures = 0
    /\ quiet = TRUE /\ approved = {}

Next ==
    \/ Start \/ ReadMembers \/ ReadUserRoles
    \/ ShowPrompt \/ WaitForComponent \/ ClickArrives
    \/ \E button \in {"confirm", "deny"} : Click(button)
    \/ Work \/ Refused \/ Succeed \/ Fails
    \/ RoleEvents \/ MemberEvents \/ OthersChange

Spec == Init /\ [][Next]_vars

-----------------------------------------------------------------------------
(* Properties.                                                             *)

\* A waiter is there only while its prompt is, and never more is done than was
\* found to do.
TypeOK ==
    /\ IsPartial(system, Members, [name: Names, colour: Colours])
    /\ IsPartial(roles, RoleIds, Roles) /\ Cardinality(DOMAIN roles) <= RoleLimit
    /\ held \subseteq DOMAIN roles
    /\ IsPartial(cached_roles, RoleIds, Roles) /\ cached_held \subseteq RoleIds
    /\ at \in Prompts \union {"idle", "members", "user roles", "working"}
    /\ shown \in Prompts \union {"text"}
    /\ waiting \in BOOLEAN /\ (waiting => at \in Prompts /\ shown = at)
    /\ clicks \subseteq [prompt: Prompts, button: {"confirm", "deny"}, number: 1..MaxClicks]
    /\ IsPartial(run.ids, Names, RoleIds) /\ IsPartial(run.looks, Names, Looks)
    /\ IsPartial(run.desired, Names, Colours) /\ run.others \in Nat
    /\ run.ops \in [Kinds -> SUBSET Names]
    /\ \A k \in Kinds : run.done[k] + Cardinality(run.ops[k]) <= run.total[k]
    /\ outcome \in Outcomes
    /\ counters \in (0..MaxClicks) \X (0..MaxChanges) \X (0..MaxFailures)
    /\ quiet \in BOOLEAN /\ approved \subseteq Prompts

\* One role for each name in the system, mentionable, with the colour of a
\* member of that name, held by the user; and no other member roles.
MatchesSystem ==
    /\ \A id \in DOMAIN roles : roles[id].name \in NamesOf(system) \union {Other}
    /\ \A m \in DOMAIN system : \E id \in held :
          /\ roles[id].name = system[m].name /\ roles[id].look.mentionable
          /\ \E other \in DOMAIN system :
                system[other] = [name |-> system[m].name, colour |-> roles[id].look.colour]

\* A command that says the roles are updated, or were, has told the truth, from
\* whatever an update that failed half way left, if nobody changed system or roles
\* since it read them and what it had from the cache was current.
SuccessMeansMatch ==
    outcome \in {"updated", "up to date"} /\ quiet => MatchesSystem

\* The changes begin when the user is "okay" with "listed changes" (roles/update.rs):
\* the click was made on the prompt that lists them.
ChangesWereApproved == at = "working" => "confirm" \in approved
=============================================================================
