---------------------------- MODULE MCRouting ----------------------------
(***************************************************************************)
(* Routing on three families of configurations, each of which varies one   *)
(* thing: where a variable comes from, how a command line is quoted, and   *)
(* how ports are assigned and referred to.                                 *)
(***************************************************************************)
EXTENDS Routing, TLC

MCServices == {"db", "api"}
MCPorts == {"3000", "3001"}

Word(w) == <<Chr(w)>>
NoVars == <<>>

Svc(port, deps, vars_, cmd) ==
    [NoSvc EXCEPT !.mode = "on", !.port = port, !.deps = deps, !.env = vars_, !.cmd = cmd]

Both(d, a) == [n \in MCServices |-> IF n = "db" THEN d ELSE a]

File(service, args) ==
    [service |-> service, dotenv |-> NoVars, env_name |-> "", env_override |-> <<>>,
     os |-> ("SET" :> Word("set")), args |-> args]

Node == Both(<<Word("node")>>, <<Word("node")>>)

------------------------------------------------------------------------------
\* a variable K in any combination of the four sources, one of them with a
\* placeholder or call; and the two errors
Optional(vals) == {NoVars} \cup {"K" :> v : v \in vals}

EnvFiles ==
    { [File(Both([Svc("3000", {}, e, Word("node")) EXCEPT !.env_file = f], NoSvc), Node)
          EXCEPT !.dotenv = d, !.env_name = "staging",
                 !.env_override = "staging" :> ("db" :> o)] :
        e \in Optional({Word("e"), <<Os("SET")>>, <<Chr("e"), Os("UNSET")>>, <<Call("SET", "d")>>,
                        <<Call("UNSET", "d")>>, <<Call("UNSET", "")>>, <<PortOf("db")>>, <<PortOf("api")>>}),
        f \in Optional({Word("f"), <<Os("SET"), Chr("f")>>, <<Call("SET", "d")>>}),
        d \in Optional({<<Os("SET")>>}) \cup {"PORT" :> Word("1")},
        o \in Optional({<<Os("SET")>>, <<Call("SET", "")>>}) }

BadFiles ==
    LET good == File(Both(Svc("3000", {}, NoVars, Word("node")), NoSvc), Node) IN
    { [good EXCEPT !.env_name = "missing"],
      [good EXCEPT !.service["db"].readable = FALSE],
      [good EXCEPT !.service["api"] = good.service["db"]],
      [good EXCEPT !.service["db"].cmd = Word(" ")] }

------------------------------------------------------------------------------
\* a word quoted in three styles, where the style can express it
Alphabet == {"a", " ", "'", "\"", "\\"}
Words == {<<Chr(c)>> : c \in Alphabet}

Escape(w, special) ==
    FlattenSeq([i \in DOMAIN w |-> IF w[i].text \in special THEN <<Chr("\\"), w[i]>> ELSE <<w[i]>>])

Quoted(w) ==
    { Escape(w, {" ", "'", "\"", "\\"}), <<Chr("\"")>> \o Escape(w, {"\"", "\\"}) \o <<Chr("\"")>> }
    \cup IF Chr("'") \in Range(w) THEN {} ELSE { <<Chr("'")>> \o w \o <<Chr("'")>> }

\* two quoted pieces, put together to one argument or kept apart
CmdFiles ==
    LET Cmd(text, args) ==
          File(Both(Svc("3000", {}, NoVars, Word("node") \o Word(" ") \o text), NoSvc),
               Both(<<Word("node")>> \o args, <<>>)) IN
    UNION { { Cmd(q \o r, <<v \o w>>), Cmd(q \o Word(" ") \o Word(" ") \o r, <<v, w>>) } :
              <<v, q, w, r>> \in UNION { {v} \X Quoted(v) \X {w} \X Quoted(w) :
                                           v, w \in Words } }

FrameworkFiles ==
    { File(Both(Svc("3000", {}, NoVars, a \o Word(" ") \o b \o Word(" ") \o c), NoSvc),
           Both(<<a, b, c>>, <<>>)) :
        a, b, c \in {Word("vite"), Word("npx"), Word("run"), Word("node")} }

------------------------------------------------------------------------------
\* a chain with automatic ports; two services of one wave, one of which has a
\* port that the other may be handed before it is bound, and refers to the
\* other without depending on it; a chain of disabled services, which only a
\* restart starts; and two services with the same subdomain
RouteFiles ==
    LET Db == [Svc(AutoPort, {}, NoVars, Word("node")) EXCEPT !.subdomain = "db"]
        Api(port, deps, sub) ==
            [Svc(port, deps, "DB" :> <<PortOf("db"), PortOf("api")>>, Word("node"))
                EXCEPT !.subdomain = sub]
        Off(svc) == [svc EXCEPT !.mode = "off"] IN
    { File(Both(Db, Api(AutoPort, {"db"}, "")), Node),
      File(Both(Db, Api("3000", {}, "api")), Node),
      File(Both(Off(Db), Off(Api(AutoPort, {"db"}, ""))), Node),
      File(Both(Db, Api("3000", {}, "db")), Node) }

MCFiles == EnvFiles \cup BadFiles \cup CmdFiles \cup FrameworkFiles \cup RouteFiles
=============================================================================
