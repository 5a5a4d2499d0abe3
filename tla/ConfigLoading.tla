-------------------------- MODULE ConfigLoading --------------------------
(***************************************************************************)
(* From A3sfile.hcl to the environment and the arguments of a process:     *)
(* DevConfig::from_file_with_env, the resolution of ${name.port} when a    *)
(* service starts, and the splitting of its command line.                  *)
(*                                                                         *)
(* A value is a sequence of tokens: characters (or runs of them that       *)
(* nothing tells apart), placeholders, and calls of env().  A map of       *)
(* variables is a function whose domain is the set of names it defines;    *)
(* hooks are values that are treated like the command, and left out.       *)
(***************************************************************************)
EXTENDS Plans

Token(kind, text, default) == [kind |-> kind, text |-> text, default |-> default]
Chr(c) == Token("chr", c, "")
Os(v) == Token("os", v, "")             \* ${v}
PortOf(s) == Token("port", s, "")       \* ${s.port}
Call(v, d) == Token("call", v, d)       \* env("v", "d"), env("v") for d = ""

\* texts, the empty one included, values, and maps of variables
Texts == {""} \cup STRING
Values == Seq([kind : {"chr", "os", "port", "call"}, text : Texts, default : Texts])
IsVars(env) == env = [k \in DOMAIN env |-> env[k]] /\ \A k \in DOMAIN env : env[k] \in Values

AutoPort == "0"

\* maps: an entry, and the entries of f with those of g that f does not have
Entry(k, v) == [x \in {k} |-> v]
Merged(f, g) == [x \in DOMAIN f \cup DOMAIN g |-> IF x \in DOMAIN f THEN f[x] ELSE g[x]]

\* the operating system's variables, [names -> values]
Lookup(os, v, otherwise) == IF v \in DOMAIN os THEN os[v] ELSE otherwise

\* tokens are replaced one by one; what replaces them is not looked at again
Expand(os, t) ==
    IF t.kind # "call" THEN <<t>>
    ELSE Lookup(os, t.text, IF t.default = "" THEN <<>> ELSE <<Chr(t.default)>>)

expand_env_func(os, val) == FlattenSeq([i \in DOMAIN val |-> Expand(os, val[i])])

\* a variable that is not set leaves its placeholder
Interpolate(os, t) == IF t.kind # "os" THEN <<t>> ELSE Lookup(os, t.text, <<t>>)

interpolate_env_vars(os, val) == FlattenSeq([i \in DOMAIN val |-> Interpolate(os, val[i])])

\* so does a service that no handle exists for
interpolate_service_ports(ports, val) ==
    [i \in DOMAIN val |->
        IF val[i].kind = "port" /\ val[i].text \in DOMAIN ports
        THEN Chr(ports[val[i].text]) ELSE val[i]]

------------------------------------------------------------------------------
(************************* DevConfig::from_file ***************************)

\* env() is expanded in the text of the file, before it is parsed: in every
\* value of it, those of the override blocks included
ExpandFile(file) ==
    LET Vars(env) == [k \in DOMAIN env |-> expand_env_func(file.os, env[k])] IN
    [file EXCEPT
        !.service = [n \in Services |->
            [file.service[n] EXCEPT !.env = Vars(@), !.cmd = expand_env_func(file.os, @)]],
        !.env_override = [e \in DOMAIN @ |-> [n \in DOMAIN @[e] |-> Vars(@[e][n])]]]

\* mutant: the file wins
resolve_env_files_insert(file) ==
    [file EXCEPT !.service = [n \in Services |->
        [file.service[n] EXCEPT !.env = Merged(file.service[n].env_file, @)]]]

\* or_insert: what env defines stays
resolve_env_files(file) ==
    [file EXCEPT !.service = [n \in Services |->
        [file.service[n] EXCEPT !.env = Merged(@, file.service[n].env_file)]]]

apply_global_dotenv(file) ==
    [file EXCEPT !.service = [n \in Services |->
        [file.service[n] EXCEPT !.env = Merged(@, file.dotenv)]]]

apply_interpolation(file) ==
    LET Vars(env) == [k \in DOMAIN env |-> interpolate_env_vars(file.os, env[k])] IN
    [file EXCEPT !.service = [n \in Services |->
        [file.service[n] EXCEPT !.env = Vars(@), !.cmd = interpolate_env_vars(file.os, @)]]]

\* insert: the override wins, and is not interpolated any more
apply_env_override(file) ==
    IF file.env_name = "" THEN file
    ELSE LET over == file.env_override[file.env_name] IN
         [file EXCEPT !.service = [n \in Services |->
             IF n \in DOMAIN over THEN [file.service[n] EXCEPT !.env = Merged(over[n], @)] ELSE file.service[n]]]

\* no fixed port twice, no dependency that is unknown or disabled
validate(service) ==
    /\ Valid(service)
    /\ \A m, n \in Enabled(service) :
        service[m].port = service[n].port /\ service[m].port # AutoPort => m = n

\* the errors: an unreadable env_file, an unknown override block
Readable(file) ==
    /\ \A n \in Declared(file.service) : file.service[n].readable
    /\ file.env_name = "" \/ file.env_name \in DOMAIN file.env_override

from_file_with_env(file) ==
    apply_env_override(apply_interpolation(apply_global_dotenv(
        resolve_env_files(ExpandFile(file))))).service

------------------------------------------------------------------------------
(***************************** spawn_process ******************************)

resolve_service_ports(svc, ports) ==
    [svc EXCEPT !.cmd = interpolate_service_ports(ports, @),
                !.env = [k \in DOMAIN @ |-> interpolate_service_ports(ports, @[k])]]

\* mutant: a backslash escapes in single quotes too
SplitCharEscapes(s, t) ==
    IF s.escaped THEN [s EXCEPT !.current = Append(@, t), !.escaped = FALSE]
    ELSE CASE t = Chr("\\") -> [s EXCEPT !.escaped = TRUE]
           [] t = Chr("'") /\ ~s.double -> [s EXCEPT !.single = ~@]
           [] t = Chr("\"") /\ ~s.single -> [s EXCEPT !.double = ~@]
           [] t = Chr(" ") /\ ~s.single /\ ~s.double ->
                [s EXCEPT !.args = IF s.current = <<>> THEN @ ELSE Append(@, s.current), !.current = <<>>]
           [] OTHER -> [s EXCEPT !.current = Append(@, t)]

\* one character of the command line; an argument ends at a blank outside
\* quotes, and an empty one is dropped
SplitChar(s, t) ==
    IF s.escaped THEN [s EXCEPT !.current = Append(@, t), !.escaped = FALSE]
    ELSE CASE t = Chr("\\") /\ ~s.single -> [s EXCEPT !.escaped = TRUE]
           [] t = Chr("'") /\ ~s.double -> [s EXCEPT !.single = ~@]
           [] t = Chr("\"") /\ ~s.single -> [s EXCEPT !.double = ~@]
           [] t = Chr(" ") /\ ~s.single /\ ~s.double ->
                [s EXCEPT !.args = IF s.current = <<>> THEN @ ELSE Append(@, s.current), !.current = <<>>]
           [] OTHER -> [s EXCEPT !.current = Append(@, t)]

split_cmd(cmd) ==
    LET end == FoldLeft(SplitChar,
                   [args |-> <<>>, current |-> <<>>, single |-> FALSE, double |-> FALSE, escaped |-> FALSE],
                   cmd)
    IN IF end.current = <<>> THEN end.args ELSE Append(end.args, end.current)

Direct == {<<Chr(c)>> : c \in {"vite", "next", "astro", "nuxt", "remix", "svelte-kit", "wrangler"}}
Runners == {<<Chr(c)>> : c \in {"npx", "pnpm", "yarn", "bunx"}}
Subcommands == {<<Chr(c)>> : c \in {"exec", "run", "dlx"}}

\* a missing argument counts as the empty one
framework_port_args(parts, port) ==
    LET Part(i) == IF i \in DOMAIN parts THEN parts[i] ELSE <<>>
        framework == IF Part(1) \notin Runners THEN Part(1)
                     ELSE IF Part(2) \in Subcommands THEN Part(3) ELSE Part(2)
    IN IF framework \in Direct THEN <<<<Chr("--port")>>, <<Chr(port)>>>> ELSE <<>>

\* program and arguments; a blank command makes parts[1..] panic
Blank(svc) == split_cmd(svc.cmd) = <<>>

Argv(svc, port) ==
    LET parts == split_cmd(svc.cmd) IN parts \o framework_port_args(parts, port)

\* PORT and HOST over the service's variables over the inherited ones
Environ(svc, port, os) ==
    Merged(Merged(Entry("PORT", <<Chr(port)>>), Entry("HOST", <<Chr("127.0.0.1")>>)),
           Merged(svc.env, os))
=============================================================================
