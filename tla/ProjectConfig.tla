---------------------------- MODULE ProjectConfig ----------------------------
(***************************************************************************)
(* The project configuration (src/src/koto_config.rs): where it is found,   *)
(* which ones are accepted, the seeds in which agents, rules and flows are  *)
(* looked up.  A model is the sequence of the parts between its slashes; a  *)
(* path stands for the directory it expands to; `None` is an absent string, *)
(* <<>> an absent model or list.  A result is [ok |-> FALSE] or             *)
(* [ok |-> TRUE, val |-> ...].                                              *)
(***************************************************************************)
EXTENDS Integers, Template

None == "none"
Err == [ok |-> FALSE]
Ok(v) == [ok |-> TRUE, val |-> v]

(* f, and g where f says nothing. *)
Over(f, g) == [x \in DOMAIN f \cup DOMAIN g |-> IF x \in DOMAIN f THEN f[x] ELSE g[x]]

Backends == {"api", "claude-cli", "codex", "ollama"}
Policies == {"cli", "api"}

(* An API call has no command line that could take more arguments. *)
ArgsKeys == Backends \ {"api"}

(* A tier names <provider>/<model-id>; agent files and roles name anything. *)
ValidateModelFormat(model) == Len(model) = 2 /\ \A i \in 1 .. 2 : model[i] # ""

---------------------------------------------------------------------------
(* What the YAML parser returns: the types of the fields that are read.     *)

IsExtra(extra) == \A b \in DOMAIN extra : extra[b] \in Seq(STRING)

IsRawRole(r) ==
    /\ DOMAIN r = {"agent", "model", "backend", "overlay"}
    /\ r.agent \in STRING \ {None}
    /\ r.model \in Seq(STRING) /\ r.backend \in Policies \cup {None}
    /\ DOMAIN r.overlay = {"model", "backend", "extra", "rules"}
    /\ r.overlay.model \in Seq(STRING) /\ r.overlay.rules \in Seq(STRING)
    /\ IsExtra(r.overlay.extra)

IsRawConfig(c) ==
    /\ {"there", "tiers", "roles", "seeds", "vars"} \subseteq DOMAIN c
    /\ c.seeds \in Seq([path : STRING, repo : STRING])
    /\ \A r \in DOMAIN c.roles : IsRawRole(c.roles[r])
    /\ \A t \in DOMAIN c.tiers : c.tiers[t] \in Seq(STRING)
    /\ \A v \in DOMAIN c.vars : c.vars[v] \in Texts

---------------------------------------------------------------------------
(* Roles and their overlays.                                               *)

NoArgs == [b \in {} |-> <<>>]
NoOverlay == [model |-> <<>>, backend |-> None, extra |-> NoArgs, rules |-> <<>>]

ResolveOverlay(raw) ==
    IF /\ raw.backend \in Backends \cup {None, "cli"}
       /\ ~Contains(raw.rules, "")
       /\ DOMAIN raw.extra \subseteq ArgsKeys
    THEN Ok([raw EXCEPT !.backend = IF @ = "cli" THEN "claude-cli" ELSE @])
    ELSE Err

(* `model: ~` is a key without a value, and refused like an empty one.      *)
NullModel == <<"~">>
ResolveRoleModel(model) ==
    IF model \in {NullModel, <<"">>} THEN Err ELSE Ok(model)

ResolveRole(name, raw) ==
    IF name # "" /\ raw.agent # "" /\ ResolveRoleModel(raw.model).ok
                 /\ ResolveOverlay(raw.overlay).ok
    THEN Ok([raw EXCEPT !.overlay = ResolveOverlay(raw.overlay).val])
    ELSE Err

---------------------------------------------------------------------------
(* Seeds.  `dirs` maps the directories that exist to what they hold.        *)

Local(path) == [kind |-> "local", path |-> path]
Remote(repo) == [kind |-> "remote", path |-> repo]

DefaultLocal == <<Local(".kuro")>>
LegacyKotoLocal == <<Local(".koto")>>

FromRawEntries(raw, dirs) ==
    IF /\ raw # <<>>
       /\ \A i \in DOMAIN raw :
             /\ (raw[i].path = None) # (raw[i].repo = None)
             /\ raw[i].path # "" /\ raw[i].repo # ""
             /\ raw[i].path # None => raw[i].path \in DOMAIN dirs
    THEN Ok([i \in DOMAIN raw |-> IF raw[i].path # None THEN Local(raw[i].path)
                                  ELSE Remote(raw[i].repo)])
    ELSE Err

(* Mutant: the last seed that has the file wins. *)
FindLast(seeds, having) ==
    LET hits == {i \in DOMAIN seeds : seeds[i].kind = "local" /\ seeds[i].path \in having}
    IN IF hits = {} THEN Ok(0) ELSE Ok(CHOOSE i \in hits : \A j \in hits : j <= i)

(* `having` are the directories with the file.  The walk ends at the first  *)
(* seed that holds it, and fails at a remote one, which cannot be looked    *)
(* into; Ok(0) if no seed has it.                                           *)
Find(seeds, having) ==
    LET stops == {i \in DOMAIN seeds :
                     seeds[i].kind = "remote" \/ seeds[i].path \in having}
        first == CHOOSE i \in stops : \A j \in stops : i <= j
    IN IF stops = {} THEN Ok(0)
       ELSE IF seeds[first].kind = "remote" THEN Err ELSE Ok(first)

---------------------------------------------------------------------------
(* The file.  `seeds` is <<>> when the section is absent; an empty section *)
(* is the field `bare`.                                                     *)

NoConfig == [there |-> FALSE, version |-> "1", tiers |-> NoArgs, backend |-> None,
             vars |-> NoArgs, roles |-> NoArgs, seeds |-> <<>>, bare |-> FALSE]

FromYaml(raw, dirs) ==
    LET seeds == IF raw.seeds = <<>> /\ ~raw.bare THEN Ok(DefaultLocal)
                 ELSE FromRawEntries(raw.seeds, dirs)
    IN IF /\ raw.version = "1"
          /\ \A t \in DOMAIN raw.tiers : t # "" /\ ValidateModelFormat(raw.tiers[t])
          /\ \A r \in DOMAIN raw.roles : ResolveRole(r, raw.roles[r]).ok
          /\ seeds.ok
       THEN Ok([raw EXCEPT !.seeds = seeds.val,
                           !.roles = [r \in DOMAIN raw.roles |->
                                         ResolveRole(r, raw.roles[r]).val]])
       ELSE Err

(* An implicit seed follows an old configuration to the old directory.  So  *)
(* does an explicit one that equals the default.                            *)
RebaseDefaultSeeds(cfg) ==
    IF cfg.seeds = DefaultLocal THEN [cfg EXCEPT !.seeds = LegacyKotoLocal] ELSE cfg

(* `files` maps the three places, in their order, to what is there.         *)
LoadOptional(files, dirs) ==
    LET found == {i \in DOMAIN files : files[i].there}
        at == CHOOSE i \in found : \A j \in found : i <= j
    IN IF found = {} THEN Ok([NoConfig EXCEPT !.seeds = DefaultLocal])
       ELSE IF ~FromYaml(files[at], dirs).ok THEN Err
       ELSE LET cfg == FromYaml(files[at], dirs).val
            IN Ok(IF at = 1 THEN cfg ELSE RebaseDefaultSeeds(cfg))

RoleAgentMap(cfg) == [r \in DOMAIN cfg.roles |-> cfg.roles[r].agent]

ResolveTier(cfg, tier) ==
    IF cfg.there /\ tier \in DOMAIN cfg.tiers THEN Ok(cfg.tiers[tier]) ELSE Err
=============================================================================
