------------------------------ MODULE Template ------------------------------
(***************************************************************************)
(* The placeholders of prompts, tasks and commands (flow_api of             *)
(* src/src/runner/mod.rs).  A text is a sequence of tokens: <<"lit", x>>,   *)
(* {{vars.x}} as <<"var", x>>, {{roles.x}} as <<"role", x>> and {{x}} as    *)
(* <<"arg", x>>.  Values are texts, and may hold placeholders themselves.   *)
(***************************************************************************)
EXTENDS Sequences, SequencesExt, FiniteSets, Integers

Texts == Seq({"lit", "var", "role", "arg"} \X STRING)

Names(kind, text) ==
    {text[i][2] : i \in {j \in DOMAIN text : text[j][1] = kind}}

ExtractPlaceholders(text) == Names("arg", text)

(* One pass over the text: a value is not looked at again.                  *)
Expand(kind, text, values) ==
    FlattenSeq([i \in DOMAIN text |-> IF text[i][1] = kind THEN values[text[i][2]]
                                      ELSE <<text[i]>>])

SubstituteVars(text, vars) ==
    IF Names("var", text) \subseteq DOMAIN vars
    THEN [ok |-> TRUE, val |-> Expand("var", text, vars)] ELSE [ok |-> FALSE]

(* A role stands for the name of its agent.                                 *)
SubstituteRoles(text, roles) ==
    IF Names("role", text) \subseteq DOMAIN roles
    THEN [ok |-> TRUE,
          val |-> Expand("role", text, [r \in DOMAIN roles |-> <<<<"lit", roles[r]>>>>])]
    ELSE [ok |-> FALSE]

Replace(text, token, value) ==
    FlattenSeq([i \in DOMAIN text |-> IF text[i] = token THEN value ELSE <<text[i]>>])

(* The bare placeholders are replaced one after the other, each everywhere: *)
(* a value that holds a later one is expanded with it.                      *)
SubstitutePlaceholders(text, vars) ==
    LET filled[n \in 0 .. Len(text)] ==
            IF n = 0 THEN text
            ELSE IF text[n][1] = "arg"
            THEN Replace(filled[n - 1], text[n], vars[text[n][2]]) ELSE filled[n - 1]
    IN IF Names("arg", text) \subseteq DOMAIN vars
       THEN [ok |-> TRUE, val |-> filled[Len(text)]] ELSE [ok |-> FALSE]

(* Mutant: what a text holds after its variables is not looked at again. *)
VarsOnly(text, vars, roles) == SubstituteVars(text, vars)

(* Variables, then roles; what a flow file's own texts go through.          *)
Fill(text, vars, roles) ==
    LET v == SubstituteVars(text, vars)
    IN IF v.ok THEN SubstituteRoles(v.val, roles) ELSE v

(* A command takes bare placeholders too, between the two.                  *)
FillCommand(text, vars, roles) ==
    LET v == SubstituteVars(text, vars)
        p == SubstitutePlaceholders(v.val, vars)
    IN IF ~v.ok THEN v ELSE IF ~p.ok THEN p ELSE SubstituteRoles(p.val, roles)

(* The task: what -t says, with its placeholders filled, or the prompt of   *)
(* the flow (filled already) with the bare arguments of the command line.   *)
ResolveTask(flag, prompt, args, vars, roles) ==
    IF flag # <<>> THEN Fill(flag, vars, roles)
    ELSE IF prompt # <<>> THEN SubstitutePlaceholders(prompt, args)
    ELSE [ok |-> FALSE]
=============================================================================
