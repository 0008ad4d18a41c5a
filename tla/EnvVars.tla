------------------------------- MODULE EnvVars -------------------------------
(****************************************************************************)
(* The variables a plugin reads (plugin-host/src/host/host_impl.rs, env).   *)
(* env_var looks among the variables its user has for this plugin, among    *)
(* her own, among those each of her organizations shares for this plugin    *)
(* and then among those they share.  Her own and the list of her            *)
(* organizations are copies made when her request was authenticated; the    *)
(* organizations are read when they are asked, each under a lock of its     *)
(* own, while variables and roles change.                                   *)
(*                                                                          *)
(* One user, one plugin and one name that it looks up.  What is stored      *)
(* under the id of the plugin is an object that has the name, or it is of   *)
(* no use: one that has not, or no object at all.                           *)
(****************************************************************************)
EXTENDS Integers, Sequences, FiniteSets, SequencesExt, FiniteSetsExt

CONSTANTS
    Organizations,  \* the organizations there are
    Roles,          \* roles of members, from 1 up
    MaxChanges      \* changes while one plugin runs

ASSUME EnvAssumption ==
    /\ IsFiniteSet(Organizations) /\ "user" \notin Organizations
    /\ Roles \subseteq Nat \ {0} /\ MaxChanges \in Nat

VARIABLES
    own,        \* environment_variables of the user
    ids,        \* her organization_ids
    org,        \* of each organization: her role (0: none) and shared_environment
    run,        \* the plugin: the copies, the source it asks next, what it got
    constant,   \* the sources that offered the name all the time of a lookup
    changes

envVars == <<own, ids, org, run, constant, changes>>

\* What may be stored under the id of the plugin.
PluginValues == {"none", "with", "useless"}

OwnVariables == [plugin : PluginValues, named : BOOLEAN]

\* min 0: the variable is not shared.
Shared ==
    {env \in [plugin : PluginValues, pluginMin : Roles \cup {0}, min : Roles \cup {0}] :
        env.plugin = "none" <=> env.pluginMin = 0}
------------------------------------------------------------------------------
\* Mutant: the organizations one by one, each with both kinds.
SourcesByOrganization(list) ==
    <<[of |-> "user", kind |-> "plugin"], [of |-> "user", kind |-> "named"]>>
    \o FlattenSeq([i \in DOMAIN list |->
          <<[of |-> list[i], kind |-> "plugin"], [of |-> list[i], kind |-> "named"]>>])

\* The sources in the order in which env_var asks them.
Sources(list) ==
    <<[of |-> "user", kind |-> "plugin"], [of |-> "user", kind |-> "named"]>>
    \o [i \in DOMAIN list |-> [of |-> list[i], kind |-> "plugin"]]
    \o [i \in DOMAIN list |-> [of |-> list[i], kind |-> "named"]]

\* plugin_specific_env_var and personal_env_var, of a copy.
OwnEnvVar(copy, kind) == IF kind = "plugin" THEN copy.plugin = "with" ELSE copy.named

\* shared_env_var: her role in the organization, as it is now.
SharedEnvVar(o, kind) ==
    IF kind = "plugin"
    THEN /\ o.env.plugin = "with"
         /\ o.role # 0 /\ o.role >= o.env.pluginMin
    ELSE /\ o.env.min # 0
         /\ o.role # 0 /\ o.role >= o.env.min

Answers(source, copy) ==
    IF source.of = "user" THEN OwnEnvVar(copy, source.kind)
    ELSE SharedEnvVar(org[source.of], source.kind)

\* The text of the value: only a string that is shared under its name keeps its
\* quotes (value.to_string()).
Quoted(source) == source.of # "user" /\ source.kind = "named"
------------------------------------------------------------------------------
\* org_info: what an organization shows a member, by her role.
OrgInfo(o) ==
    {kind \in {"plugin", "named"} :
       CASE kind = "plugin" -> o.env.plugin = "with" /\ o.env.pluginMin <= o.role
         [] kind = "named" -> o.env.min # 0 /\ o.env.min <= o.role}

\* What the user would find at a source: her own as copied, what is shown her.
Offers(source, orgs, copy) ==
    IF source.of = "user" THEN OwnEnvVar(copy, source.kind)
    ELSE orgs[source.of].role # 0 /\ source.kind \in OrgInfo(orgs[source.of])

NoRun == [pc |-> "none"]

\* Somewhere in the life of the user.
EnvInit ==
    /\ own \in OwnVariables
    /\ org \in [Organizations -> [role : Roles \cup {0}, env : Shared]]
    /\ ids \in SetToSeqs({o \in Organizations : org[o].role # 0})
    /\ run = NoRun
    /\ constant = {}
    /\ changes = 0

\* Who offers still, of those who did all the time.
Still(orgs) ==
    IF run.pc = "looking"
    THEN {source \in constant : Offers(source, orgs, run.own)} ELSE constant

Change ==
    /\ changes < MaxChanges
    /\ changes' = changes + 1
    /\ UNCHANGED run

\* user_add_env_var; null removes.
UserAddEnvVar ==
    /\ Change
    /\ own' \in {[own EXCEPT !.plugin = v] : v \in PluginValues}
                \cup {[own EXCEPT !.named = b] : b \in BOOLEAN}
    /\ UNCHANGED <<ids, org, constant>>

\* org_add_env_var: one variable and the role it takes; null removes both.
OrgAddEnvVar(o) ==
    /\ Change
    /\ \E env \in Shared :
          /\ \/ env.min = org[o].env.min
             \/ env.plugin = org[o].env.plugin /\ env.pluginMin = org[o].env.pluginMin
          /\ org' = [org EXCEPT ![o].env = env]
    /\ constant' = Still(org')
    /\ UNCHANGED <<own, ids>>

\* org_add_user: another role, and the organization in her list.
OrgAddUser(o) ==
    /\ Change
    /\ \E role \in Roles : org' = [org EXCEPT ![o].role = role]
    /\ ids' = IF Contains(ids, o) THEN ids ELSE Append(ids, o)
    /\ constant' = Still(org')
    /\ UNCHANGED own

\* Her request is authenticated, and runs the plugin.
Authenticate ==
    /\ run = NoRun
    /\ run' = [pc |-> "ready", own |-> own, sources |-> Sources(ids), next |-> 1,
               got |-> FALSE, quoted |-> FALSE]
    /\ UNCHANGED <<own, ids, org, constant, changes>>

\* env_var is called ...
EnvVar ==
    /\ run.pc = "ready"
    /\ run' = [run EXCEPT !.pc = "looking"]
    /\ constant' = {source \in ToSet(run.sources) : Offers(source, org, run.own)}
    /\ UNCHANGED <<own, ids, org, changes>>

\* ... asks one source, its answer is the answer, an error of it is not ...
AskSource ==
    /\ run.pc = "looking" /\ run.next <= Len(run.sources)
    /\ LET source == run.sources[run.next]
       IN  run' = IF Answers(source, run.own)
                  THEN [run EXCEPT !.pc = "done", !.got = TRUE, !.quoted = Quoted(source)]
                  ELSE [run EXCEPT !.next = @ + 1]
    /\ UNCHANGED <<own, ids, org, constant, changes>>

\* ... and has none in the end.
NotFound ==
    /\ run.pc = "looking" /\ run.next > Len(run.sources)
    /\ run' = [run EXCEPT !.pc = "done"]
    /\ UNCHANGED <<own, ids, org, constant, changes>>

EnvNext ==
    \/ UserAddEnvVar
    \/ \E o \in Organizations : OrgAddEnvVar(o) \/ OrgAddUser(o)
    \/ Authenticate \/ EnvVar \/ AskSource \/ NotFound

EnvSpec == EnvInit /\ [][EnvNext]_envVars
------------------------------------------------------------------------------
\* What comes before what: hers before what is shared, what is for the plugin
\* before what is for all, her older organizations before the others.
Outranks(s, t) ==
    LET Place(x) == IF x.of = "user" THEN 0 ELSE SelectInSeq(ids, LAMBDA o : o = x.of)
        Kind(x) == IF x.kind = "plugin" THEN 0 ELSE 1
        Hers(x) == IF x.of = "user" THEN 0 ELSE 1
    IN  \/ Hers(s) < Hers(t)
        \/ Hers(s) = Hers(t) /\ Kind(s) < Kind(t)
        \/ Hers(s) = Hers(t) /\ Kind(s) = Kind(t) /\ Place(s) < Place(t)

(****************************************************************************)
(* However variables and roles change meanwhile, a plugin gets a variable   *)
(* that some source offered its user all the time it looked, or one of a    *)
(* source that comes before that; what an organization offers is what       *)
(* org_info would show her (env_var).                                       *)
(****************************************************************************)
FirstOfferIsTaken ==
    run.pc = "done" =>
       \A source \in constant :
          /\ run.got
          /\ ~Outranks(source, run.sources[run.next])
==============================================================================
